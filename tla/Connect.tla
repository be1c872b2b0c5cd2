------------------------------ MODULE Connect ------------------------------
(***************************************************************************)
(* The host that connects (cli/src/app/commands.rs cmd_connect, workflows  *)
(* .rs render_connect_config, native_process.rs, core/src/agent_card_fetch *)
(* .rs), composed with the declaration that the card is rendered from.     *)
(*                                                                         *)
(* `connect start` resolves where to connect, from a peer's AgentCard or   *)
(* from the deployments recorded here; then, under the lock of its ready   *)
(* file, it starts TNG in a session of its own, waits until its ports      *)
(* answer, records the process and leaves it.  `connect stop` signals the  *)
(* process that is recorded.  Commands run at the same time and are        *)
(* killed, tunnels exit, process numbers are used again, the host reboots. *)
(***************************************************************************)
EXTENDS ProjectInit, SequencesExt, FiniteSetsExt

CONSTANTS
    Session,        \* commands that run at the same time
    ReadyFile, Pid,
    Address,        \* IPv4 addresses
    Resolve,        \* what names and addresses resolve to
    TargetIp,       \* the address the card was rendered with
    CardRekor, TrustedRekor,  \* the card's Rekor URL; the members of CA_TRUSTED_REKOR_URLS
    Url,            \* URLs given to --from-card: records, see ParsedUrl
    HostState,      \* what the host may have deployed: see Services
    ControlPort,    \* where TNG's control port is looked for: 50000
    MaxPort,        \* 65535
    MaxCommands, MaxTicks, MaxBoots    \* bounds

ASSUME ConnectAssumption ==
    /\ ControlPort \in 1 .. MaxPort /\ MaxPort \in Nat
    /\ \A name \in DOMAIN Resolve : Resolve[name] \subseteq Address
    /\ \A a \in Address : a \in DOMAIN Resolve /\ Resolve[a] = {a}
    /\ {MaxCommands, MaxTicks, MaxBoots} \subseteq Nat
    /\ {"free", "nobody"} \cap Session = {}

VARIABLES
    offer,      \* the ports of the card, if a peer accepts it
    session,    \* what each command is doing
    lock,       \* who holds the lock of each ready file, or "free"
    ready,      \* each ready file: its form ("absent", "invalid" or "v2") and its process
    proc,       \* the process with each number, or NoProcess
    ticks, boot,    \* the clock of process starts since boot, and which boot it is
    stray,      \* history: a command has signalled a process that is not its tunnel
    commands    \* history: for the bound

host == <<offer, session, lock, ready, proc, ticks, boot, stray, commands>>
publisher == <<pc, args, dir, place, files, spec, card, runs, edits>>
fixed == <<publisher, offer>>
connectVars == <<publisher, host>>

NoProcess == [kind |-> "none"]
NoIdentity == [pid |-> 0]
Idle == [step |-> "idle"]

----------------------------------------------------------------------------
(* The AgentCard, fetched *)

\* parse_agent_card_url.  `plain`: without white space, user, query, fragment
\* or brackets; an absent port is the default of the scheme
ParsedUrl(u) ==
    /\ u.plain
    /\ u.scheme \in {"http", "https"}
    /\ u.path = "agent-card"
    /\ u.host # "blank"
    /\ u.port # 0

TrustedRekorUrls ==
    IF TrustedRekor = {} THEN {"sigstore"} ELSE TrustedRekor

\* verify_agent_card_trust
CardTrusted(u) ==
    /\ TargetIp \in Resolve[u.host]
    /\ CardRekor \in TrustedRekorUrls

----------------------------------------------------------------------------
(* Where to connect *)

\* allocate_local_port: 0 when there is none
FreePort(preferred, taken) ==
    LET free == {p \in preferred .. MaxPort : p \notin taken}
    IN  IF free = {} THEN 0 ELSE Min(free)

\* local ports for a list of remote ones, each apart from those before it
LocalPorts(remote, taken) ==
    LET local[i \in 0 .. Len(remote)] ==
            IF i = 0 THEN << >>
            ELSE Append(local[i - 1], FreePort(remote[i], taken \cup Range(local[i - 1])))
    IN  local[Len(remote)]

Listening(p) == proc[p].kind # "none" /\ proc[p].state = "listening"
Occupied == UNION {proc[p].ports : p \in {q \in Pid : Listening(q)}}

\* what is left of a configuration: the local ports of its routes and of TNG's
\* control interface, and whether TNG takes it
NoPlan == [endpoints |-> {}, control |-> {}, valid |-> FALSE]
Plan(targets, taken, control) ==
    LET local == LocalPorts([i \in DOMAIN targets |-> targets[i].port], taken \cup control)
    IN  IF 0 \in Range(local) \cup control \/ targets = << >> THEN NoPlan
        ELSE [endpoints |-> Range(local), control |-> control,
              valid |-> \A i \in DOMAIN targets : targets[i].host \in Address]

\* render_agent_card_connect_config: the control port is chosen first
CardPlan(ports) ==
    Plan([i \in 1 .. Cardinality(ports) |-> [port |-> SetToSortSeq(ports, <)[i], host |-> TargetIp]],
         Occupied, {FreePort(ControlPort, Occupied)})

\* connect_services: `only` is the service asked for, or "all"
Services(state, only) ==
    SelectSeq(state.services,
        LAMBDA s : s.phase = "active" /\ s.connect # << >> /\ only \in {"all", s.id})

\* resolve_host_to_ipv4: a name that does not resolve is left to TNG
Ipv4(name) == IF Resolve[name] = {} THEN name ELSE CHOOSE a \in Resolve[name] : TRUE

\* connect_host, or the load balancer of a service with replicas
ServiceHost(s) == Ipv4(IF s.slb # "blank" THEN s.slb ELSE s.ip)

\* connect_reference_values: of a sample first, else of Rekor
References(state, s) ==
    IF s.id \in state.sample THEN "sample"
    ELSE IF s.id \in state.rekor THEN "slsa" ELSE "none"

\* render_connect_config, for a replica when one is named (0: none is).  A service that
\* cannot be rendered fails the command
HostPlan(state, only, replica) ==
    LET services == Services(state, only)
        usable(s) == s.ip # "blank" /\ References(state, s) # "none"
        target(s) == IF replica = 0 THEN ServiceHost(s) ELSE s.replicas[replica]
        targets == FlattenSeq([i \in DOMAIN services |->
            [j \in DOMAIN services[i].connect |->
                [port |-> services[i].connect[j].port, host |-> target(services[i])]]])
    IN  IF state.bundle /\ \A s \in Range(services) :
               usable(s) /\ (replica # 0 => replica \in DOMAIN s.replicas)
        THEN Plan(targets, Occupied, {}) ELSE NoPlan


----------------------------------------------------------------------------
(* Processes *)

Identity(p) == [pid |-> p, start |-> proc[p].start, boot |-> boot]

\* faulty variant of Running: the boot is not compared
RunningThisPid(id) ==
    /\ id # NoIdentity /\ proc[id.pid].kind # "none" /\ proc[id.pid].state # "zombie"
    /\ proc[id.pid].start = id.start

\* ProcessIdentity::running
Running(id) ==
    /\ id # NoIdentity /\ id.boot = boot
    /\ proc[id.pid].kind # "none" /\ proc[id.pid].state # "zombie"
    /\ proc[id.pid].start = id.start

\* a new process, and the clock has moved on
Started(p, kind, plan, parent) ==
    /\ proc[p].kind = "none" /\ ticks < MaxTicks
    /\ proc' = [proc EXCEPT ![p] =
          [kind |-> kind, start |-> ticks, state |-> "running", parent |-> parent, left |-> FALSE,
           ports |-> plan.endpoints \cup plan.control, valid |-> plan.valid]]
    /\ ticks' = ticks + 1

\* a child that ends keeps its number until its command waits for it or ends
Ended(p) == IF proc[p].kind = "tunnel" /\ proc[p].parent # "nobody"
            THEN [proc[p] EXCEPT !.state = "zombie", !.ports = {}] ELSE NoProcess

\* what is left of the children of a command that ends
Orphaned(p, c) ==
    IF proc[p].kind # "tunnel" \/ proc[p].parent # c THEN proc[p]
    ELSE IF proc[p].state = "zombie" THEN NoProcess
    ELSE [proc[p] EXCEPT !.parent = "nobody", !.left = TRUE]

----------------------------------------------------------------------------
(* The commands *)

Command(c, step) == session[c].step = step
To(c, step) == session' = [session EXCEPT ![c].step = step]
Unlocked(c) == [f \in ReadyFile |-> IF lock[f] = c THEN "free" ELSE lock[f]]
\* a command ends and gives back its lock
End(c) == session' = [session EXCEPT ![c] = Idle] /\ lock' = Unlocked(c)

Begin(c, s) ==
    /\ Command(c, "idle") /\ commands < MaxCommands
    /\ session' = [session EXCEPT ![c] = s]
    /\ commands' = commands + 1

New(kind, step, f) ==
    [kind |-> kind, step |-> step, file |-> f, attempt |-> 1, url |-> {}, plan |-> NoPlan,
     tunnel |-> NoIdentity, signal |-> "TERM", handle |-> NoIdentity]

\* What is behind the card is not looked at from here on; whether a peer accepts
\* it (validate_confidential_agent_card) depends on nothing else
Publish ==
    /\ pc \in {"delivered", "undelivered"}
    /\ pc' = "published" /\ spec' = NoSpec /\ args' = NoArguments
    /\ dir' = "dir" /\ place' = [f \in Inputs |-> "outside"] /\ files' = {}
    /\ runs' = MaxRuns /\ edits' = MaxEdits
    /\ card' = None
    /\ offer' = {k.ports : k \in {x \in card : CardAccepted(x)}}
    /\ UNCHANGED <<session, lock, ready, proc, ticks, boot, stray, commands>>

\* cmd_connect with --from-card; the URL is parsed first
FromCard(c) ==
    /\ pc = "published"
    /\ \E u \in Url, f \in ReadyFile :
          /\ ParsedUrl(u)
          /\ Begin(c, [New("connect", "fetch", f) EXCEPT !.url = {u}])
    /\ UNCHANGED <<fixed, lock, ready, proc, ticks, boot, stray>>

\* fetch_agent_card_with_signer: what does not get through is tried three
\* times; what arrives is a card, or it is not (status, type, length, JSON)
Fetch(c) ==
    /\ Command(c, "fetch")
    /\ \/ /\ session[c].attempt < 3
          /\ session' = [session EXCEPT ![c].attempt = @ + 1]
          /\ UNCHANGED lock
       \/ End(c)
       \/ \E k \in offer :
             /\ (\A u \in session[c].url : CardTrusted(u))
             /\ CardPlan(k) # NoPlan
             /\ session' = [session EXCEPT ![c].step = "lock", ![c].attempt = 1,
                                           ![c].url = {}, ![c].plan = CardPlan(k)]
             /\ UNCHANGED lock
    /\ UNCHANGED <<fixed, ready, proc, ticks, boot, stray, commands>>

\* cmd_connect for what is deployed from this host
FromHost(c) ==
    /\ pc = "published"
    /\ \E state \in HostState, f \in ReadyFile :
       \E only \in {"all"} \cup {s.id : s \in Range(state.services)} :
       \E replica \in {0} \cup UNION {DOMAIN s.replicas : s \in Range(state.services)} :
          LET plan == HostPlan(state, only, replica)
          IN  /\ replica # 0 => only # "all"
              /\ plan # NoPlan
              /\ Begin(c, [New("connect", "lock", f) EXCEPT !.plan = plan])
    /\ UNCHANGED <<fixed, lock, ready, proc, ticks, boot, stray>>

\* without `start` the command becomes TNG itself
Exec(c) ==
    /\ Command(c, "lock") /\ session[c].kind = "connect"
    /\ \E p \in Pid : Started(p, "other", session[c].plan, "nobody")
    /\ End(c)
    /\ UNCHANGED <<fixed, ready, boot, stray, commands>>

\* cmd_connect_start takes the lock of its ready file, as cmd_connect_stop does
Lock(c) ==
    /\ Command(c, "lock")
    /\ lock[session[c].file] = "free"
    /\ lock' = [lock EXCEPT ![session[c].file] = c]
    /\ To(c, IF session[c].kind = "stop" THEN "read" ELSE "guard")
    /\ UNCHANGED <<fixed, ready, proc, ticks, boot, stray, commands>>

\* guard_existing_connect_ready, then a check that the ports can be bound
Guard(c) ==
    /\ Command(c, "guard")
    /\ LET old == ready[session[c].file]
           free == session[c].plan.endpoints \cap Occupied = {}
       IN  IF free /\ old.form # "invalid" /\ ~Running(old.process)
           THEN To(c, "spawn") /\ UNCHANGED lock
           ELSE End(c)
    /\ UNCHANGED <<fixed, ready, proc, ticks, boot, stray, commands>>

\* PendingTunnel::spawn: the identity is captured, or the child is killed
Spawn(c) ==
    /\ Command(c, "spawn")
    /\ \/ \E p \in Pid :
             /\ Started(p, "tunnel", session[c].plan, c)
             /\ session' = [session EXCEPT ![c].step = "wait",
                   ![c].tunnel = [pid |-> p, start |-> ticks, boot |-> boot]]
             /\ UNCHANGED lock
       \/ End(c) /\ UNCHANGED <<proc, ticks>>
    /\ UNCHANGED <<fixed, ready, boot, stray, commands>>

\* wait_for_connect_endpoints: ready when TNG runs and something answers on
\* every port; TNG that exited, or the deadline, ends the wait
Wait(c) ==
    /\ Command(c, "wait")
    /\ \/ /\ Running(session[c].tunnel)
          /\ session[c].plan.endpoints \subseteq Occupied
          /\ To(c, "record")
       \/ To(c, "signal")
    /\ UNCHANGED <<fixed, lock, ready, proc, ticks, boot, stray, commands>>

\* faulty variant of Record: the tunnel is left before it is recorded
DetachThenRecord(c) ==
    /\ Command(c, "record")
    /\ \/ /\ ready' = [ready EXCEPT ![session[c].file] = [form |-> "v2", process |-> session[c].tunnel]]
          /\ To(c, "detach")
       \/ To(c, "detach") /\ UNCHANGED ready
    /\ UNCHANGED <<fixed, lock, proc, ticks, boot, stray, commands>>

\* write_json_atomic; if it fails the pending tunnel is dropped
Record(c) ==
    /\ Command(c, "record")
    /\ \/ /\ ready' = [ready EXCEPT ![session[c].file] = [form |-> "v2", process |-> session[c].tunnel]]
          /\ To(c, "detach")
       \/ To(c, "signal") /\ UNCHANGED ready
    /\ UNCHANGED <<fixed, lock, proc, ticks, boot, stray, commands>>

\* PendingTunnel::detach, and the command ends
Detach(c) ==
    /\ Command(c, "detach")
    /\ LET p == session[c].tunnel.pid
       IN  proc' = [proc EXCEPT ![p] =
                      IF @.state = "zombie" THEN NoProcess ELSE [@ EXCEPT !.parent = "nobody"]]
    /\ End(c)
    /\ UNCHANGED <<fixed, ready, ticks, boot, stray, commands>>

\* cmd_connect_stop
StopTunnel(c) ==
    /\ pc = "published"
    /\ \E f \in ReadyFile : Begin(c, New("stop", "lock", f))
    /\ UNCHANGED <<fixed, lock, ready, proc, ticks, boot, stray>>

Read(c) ==
    /\ Command(c, "read")
    /\ LET old == ready[session[c].file]
       IN  IF old.form = "v2"
           THEN /\ session' = [session EXCEPT ![c].step = "signal", ![c].tunnel = old.process]
                /\ UNCHANGED lock
           ELSE End(c)
    /\ UNCHANGED <<fixed, ready, proc, ticks, boot, stray, commands>>

\* ProcessIdentity::signal: a handle of the process that has the number now
Open(c) ==
    /\ Command(c, "signal")
    /\ LET id == session[c].tunnel
       IN  session' = [session EXCEPT
              ![c].step = IF Running(id) THEN "recheck" ELSE "gone",
              ![c].handle = IF Running(id) THEN Identity(id.pid) ELSE NoIdentity]
    /\ UNCHANGED <<fixed, lock, ready, proc, ticks, boot, stray, commands>>
Recheck(c) ==
    /\ Command(c, "recheck")
    /\ To(c, IF Running(session[c].tunnel) THEN "send" ELSE "gone")
    /\ UNCHANGED <<fixed, lock, ready, proc, ticks, boot, stray, commands>>

Signalled(c, id) ==
    /\ stray' = (stray \/ id # session[c].tunnel)
    /\ \/ proc' = [proc EXCEPT ![id.pid] = Ended(id.pid)]
       \/ session[c].signal = "TERM" /\ UNCHANGED proc

\* pidfd_send_signal reaches the process of the handle, if it is still there
Send(c) ==
    /\ Command(c, "send")
    /\ LET id == session[c].handle
       IN  IF Running(id) THEN Signalled(c, id) ELSE UNCHANGED <<proc, stray>>
    /\ To(c, "watch")
    /\ UNCHANGED <<fixed, lock, ready, ticks, boot, commands>>

\* ProcessIdentity::stop waits, and kills what does not terminate
Watch(c) ==
    /\ Command(c, "watch")
    /\ IF Running(session[c].tunnel)
       THEN session' = [session EXCEPT ![c].step = "signal", ![c].signal = "KILL"]
       ELSE To(c, "gone")
    /\ UNCHANGED <<fixed, lock, ready, proc, ticks, boot, stray, commands>>

\* a start that failed waits for its child; the ready file stays as it is
Gone(c) ==
    /\ Command(c, "gone")
    /\ proc' = [p \in Pid |-> Orphaned(p, c)]
    /\ End(c)
    /\ UNCHANGED <<fixed, ready, ticks, boot, stray, commands>>

----------------------------------------------------------------------------
(* What happens to the processes *)

\* TNG listens on all its ports, unless one is taken or a route has no address
Listen(p) ==
    /\ proc[p].kind # "none" /\ proc[p].state = "running"
    /\ proc[p].valid /\ proc[p].ports \cap Occupied = {}
    /\ proc' = [proc EXCEPT ![p].state = "listening"]
    /\ UNCHANGED <<fixed, session, lock, ready, ticks, boot, stray, commands>>

Exit(p) ==
    /\ proc[p].kind # "none" /\ proc[p].state # "zombie"
    /\ proc' = [proc EXCEPT ![p] = Ended(p)]
    /\ UNCHANGED <<fixed, session, lock, ready, ticks, boot, stray, commands>>

\* something else starts, and may listen on a port
Other(p) ==
    /\ pc = "published"
    /\ Started(p, "other", [endpoints |-> {1}, control |-> {}, valid |-> TRUE], "nobody")
    /\ UNCHANGED <<fixed, session, lock, ready, boot, stray, commands>>

\* a command is killed: its lock is free, and its tunnel goes on
Kill(c) ==
    /\ ~Command(c, "idle")
    /\ End(c)
    /\ proc' = [p \in Pid |-> Orphaned(p, c)]
    /\ UNCHANGED <<fixed, ready, ticks, boot, stray, commands>>

\* files stay, processes and locks do not; the clock starts again
Reboot ==
    /\ pc = "published" /\ boot < MaxBoots
    /\ boot' = boot + 1 /\ ticks' = 0
    /\ session' = [c \in Session |-> Idle]
    /\ lock' = [f \in ReadyFile |-> "free"]
    /\ proc' = [p \in Pid |-> NoProcess]
    /\ UNCHANGED <<fixed, ready, stray, commands>>

----------------------------------------------------------------------------

ConnectInit ==
    /\ Init
    /\ offer = {}
    /\ session = [c \in Session |-> Idle]
    /\ lock = [f \in ReadyFile |-> "free"]
    /\ \E form \in {"absent", "invalid"} :
          ready = [f \in ReadyFile |-> [form |-> form, process |-> NoIdentity]]
    /\ proc = [p \in Pid |-> NoProcess]
    /\ ticks = 0 /\ boot = 0 /\ stray = FALSE /\ commands = 0

ConnectNext ==
    \/ pc # "published" /\ Next /\ UNCHANGED host
    \/ Publish
    \/ \E c \in Session :
          \/ FromCard(c) \/ Fetch(c) \/ FromHost(c) \/ Exec(c) \/ Lock(c) \/ Guard(c) \/ Spawn(c)
          \/ Wait(c) \/ Record(c) \/ Detach(c)
          \/ StopTunnel(c) \/ Read(c) \/ Open(c) \/ Recheck(c) \/ Send(c) \/ Watch(c) \/ Gone(c)
          \/ Kill(c)
    \/ \E p \in Pid : Listen(p) \/ Exit(p) \/ Other(p)
    \/ Reboot
ConnectSpec == ConnectInit /\ [][ConnectNext]_connectVars

----------------------------------------------------------------------------
(* What is checked *)

\* Every tunnel that runs can be found and stopped: the ready file names it, or
\* the command that started it still holds it.  Only a command that was killed
\* leaves one behind.
TunnelsKept ==
    \A p \in Pid :
        proc[p].kind = "tunnel" /\ proc[p].state # "zombie" /\ ~proc[p].left =>
            \/ proc[p].parent # "nobody"
            \/ \E f \in ReadyFile : ready[f].process = Identity(p)

\* No command signals a process that is not the tunnel it started or read from
\* its ready file, whatever number that process has got, in this boot or a later
\* one.
SignalsItsOwn == ~stray

\* What a ready file announces is served by the process it names.  This does
\* not hold: between the check of the ports and TNG's own bind another process
\* can take a port, and it answers the wait instead.
ReadyServes ==
    \A f \in ReadyFile : \A p \in Pid :
        ready[f].process # NoIdentity /\ Running(ready[f].process) /\ ready[f].process.pid = p
            => proc[p].state = "listening"

=============================================================================
