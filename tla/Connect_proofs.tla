--------------------------- MODULE Connect_proofs ---------------------------
(* Every tunnel can be found and stopped, and no command signals another     *)
(* process, for any number of commands, ready files, processes and boots;    *)
(* init never deletes what it was told to use, whatever its arguments are;   *)
(* and what it accepts leads to a spec, a disk and a card that are accepted. *)
EXTENDS Connect, TLAPS

IdentityType == [pid : Pid, start : Nat, boot : Nat]
IsProcess(x) ==
    /\ DOMAIN x = {"kind", "start", "state", "parent", "left", "ports", "valid"}
    /\ x.kind \in {"tunnel", "other"} /\ x.start \in Nat
    /\ x.state \in {"running", "listening", "zombie"}
Holding == {"read", "guard", "spawn", "wait", "record", "detach", "signal", "recheck", "send",
            "watch", "gone"}
Steps == {"fetch", "lock"} \cup Holding
IsCommand(s) ==
    /\ s = [kind |-> s.kind, step |-> s.step, file |-> s.file, attempt |-> s.attempt,
            url |-> s.url, plan |-> s.plan, tunnel |-> s.tunnel, signal |-> s.signal,
            handle |-> s.handle]
    /\ s.step \in Steps /\ s.file \in ReadyFile
    /\ s.tunnel \in IdentityType \cup {NoIdentity}
ReadyType == [form : {"absent", "invalid", "v2"}, process : IdentityType \cup {NoIdentity}]

ProcType ==
    /\ proc = [p \in Pid |-> proc[p]]
    /\ \A p \in Pid : proc[p] = NoProcess \/ IsProcess(proc[p])
SessionType ==
    /\ session = [c \in Session |-> session[c]]
    /\ \A c \in Session : session[c] = Idle \/ IsCommand(session[c])
RestType ==
    /\ lock \in [ReadyFile -> Session \cup {"free"}]
    /\ ready \in [ReadyFile -> ReadyType]
    /\ ticks \in Nat /\ boot \in Nat

\* A process is named by what has been: no later process has the same name
Past(id) == id # NoIdentity => id.boot =< boot /\ (id.boot = boot => id.start < ticks)
ClockInv ==
    /\ \A p \in Pid : proc[p] # NoProcess => proc[p].start < ticks
    /\ \A f \in ReadyFile : Past(ready[f].process)

\* What a command relies on: it has the lock of its file; no running tunnel is
\* forgotten when it writes the file, which names the new one when it detaches
\* it; until then that is its child; and it has a handle of its tunnel
CommandOk(c) ==
    LET s == session[c] IN
    /\ s.step \in Holding => lock[s.file] = c
    /\ s # Idle => Past(s.tunnel)
    /\ s.step \in {"wait", "record", "detach"} =>
          /\ s.tunnel # NoIdentity /\ s.tunnel.boot = boot
          /\ proc[s.tunnel.pid].kind = "tunnel"
          /\ proc[s.tunnel.pid].start = s.tunnel.start
          /\ proc[s.tunnel.pid].parent = c
    /\ s.step \in {"spawn", "wait", "record"} => ~Running(ready[s.file].process)
    /\ s.step = "detach" => ready[s.file].process = s.tunnel
    /\ s.step \in {"recheck", "send"} => s.handle = s.tunnel

IInv ==
    /\ ProcType /\ SessionType /\ RestType /\ ClockInv
    /\ \A c \in Session : CommandOk(c)
    /\ TunnelsKept /\ SignalsItsOwn

----------------------------------------------------------------------------
(* What a step of a command leaves alone *)

Only(c) ==
    /\ session' = [d \in Session |-> session'[d]]
    /\ \A d \in Session \ {c} : session'[d] = session[d]
    /\ session'[c] = Idle \/ IsCommand(session'[c])
LockOnly(c) ==
    /\ lock' \in [ReadyFile -> Session \cup {"free"}]
    /\ \A f \in ReadyFile : lock[f] \notin {c, "free"} => lock'[f] = lock[f]
ReadyOnly(c) ==
    /\ ready' \in [ReadyFile -> ReadyType]
    /\ \A f \in ReadyFile : lock[f] # c => ready'[f] = ready[f]
    /\ \A f \in ReadyFile :
          \/ ready'[f].process = ready[f].process
          \/ (session[c] # Idle /\ ready'[f].process = session[c].tunnel)

\* A process goes on, ends or starts; c can end children of its own only
Goes(p) ==
    /\ proc'[p] = NoProcess \/ IsProcess(proc'[p])
    /\ proc'[p] # NoProcess =>
          \/ /\ proc[p] # NoProcess
             /\ proc'[p].start = proc[p].start
             /\ proc[p].state = "zombie" => proc'[p].state = "zombie"
          \/ proc[p] = NoProcess /\ proc'[p].start = ticks /\ ticks' > ticks
ProcOnly(c) ==
    /\ proc' = [p \in Pid |-> proc'[p]] /\ boot' = boot /\ ticks' \in Nat /\ ticks' >= ticks
    /\ \A p \in Pid : Goes(p)
    /\ \A p \in Pid : proc[p].kind = "tunnel" /\ proc[p].parent \notin {c, "nobody"} =>
          /\ proc'[p].kind = "tunnel" /\ proc'[p].start = proc[p].start
          /\ proc'[p].parent = proc[p].parent

Alone(x) == x.kind = "tunnel" /\ x.state # "zombie" /\ ~x.left /\ x.parent = "nobody"
TunnelsOnly ==
    \A p \in Pid : Alone(proc'[p]) =>
        \/ \E f \in ReadyFile :
              ready'[f].process = [pid |-> p, start |-> proc'[p].start, boot |-> boot']
        \/ /\ Alone(proc[p]) /\ proc'[p].start = proc[p].start
           /\ \A f \in ReadyFile : ready[f].process = Identity(p) => ready'[f] = ready[f]

LEMMA StaysPast ==
    ASSUME RestType, boot' = boot, ticks' \in Nat, ticks' >= ticks,
           NEW id \in IdentityType \cup {NoIdentity}, Past(id)
    PROVE  Past(id)'
BY DEF Past, RestType, IdentityType

LEMMA StaysGone ==
    ASSUME ProcType, RestType, ClockInv, NEW c, ProcOnly(c),
           NEW id \in IdentityType \cup {NoIdentity}, Past(id), ~Running(id)
    PROVE  ~Running(id)'
BY DEF Past, RestType, IdentityType, ClockInv, ProcOnly, Goes, Running, ProcType, NoProcess,
       IsProcess

LEMMA OthersGoOn ==
    ASSUME IInv, NEW c \in Session \cup {"nobody"}, LockOnly(c), ProcOnly(c),
           ready' \in [ReadyFile -> ReadyType],
           \A f \in ReadyFile : lock[f] # c => ready'[f] = ready[f],
           NEW d \in Session \ {c}, session'[d] = session[d]
    PROVE  CommandOk(d)'
<1> DEFINE s == session[d]
<1>0. CASE s = Idle
    BY <1>0 DEF CommandOk, Idle, Holding
<1>1. CASE IsCommand(s)
  <2>1. s.step \in Holding => lock'[s.file] = d /\ ready'[s.file] = ready[s.file]
      BY <1>1, ConnectAssumption DEF IInv, CommandOk, LockOnly, IsCommand
  <2>2. Past(s.tunnel)'
      BY <1>1, StaysPast DEF IInv, CommandOk, IsCommand, Idle, ProcOnly
  <2>3. s.step \in {"wait", "record", "detach"} =>
            /\ s.tunnel # NoIdentity /\ s.tunnel.boot = boot'
            /\ proc'[s.tunnel.pid].kind = "tunnel"
            /\ proc'[s.tunnel.pid].start = s.tunnel.start
            /\ proc'[s.tunnel.pid].parent = d
    <3> SUFFICES ASSUME s.step \in {"wait", "record", "detach"}
                 PROVE  /\ s.tunnel # NoIdentity /\ s.tunnel.boot = boot'
                        /\ proc'[s.tunnel.pid].kind = "tunnel"
                        /\ proc'[s.tunnel.pid].start = s.tunnel.start
                        /\ proc'[s.tunnel.pid].parent = d
        OBVIOUS
    <3>1. s.tunnel \in IdentityType /\ s.tunnel # NoIdentity
        BY <1>1 DEF IInv, CommandOk, IsCommand
    <3>2. s.tunnel.pid \in Pid
        BY <3>1 DEF IdentityType
    <3> QED
        BY <3>1, <3>2, ConnectAssumption DEF IInv, CommandOk, ProcOnly
  <2>4. s.step \in {"spawn", "wait", "record"} => ~Running(ready[s.file].process)'
    <3> SUFFICES ASSUME s.step \in {"spawn", "wait", "record"}
                 PROVE  ~Running(ready[s.file].process)'
        OBVIOUS
    <3>1. PICK id : id = ready[s.file].process
        OBVIOUS
    <3>2. id \in IdentityType \cup {NoIdentity} /\ Past(id) /\ ~Running(id)
        BY <1>1, <3>1 DEF IInv, IsCommand, ClockInv, CommandOk, RestType, ReadyType
    <3>3. ~Running(id)'
        BY <3>2, StaysGone DEF IInv
    <3>4. ready'[s.file].process = id /\ s' = s
        BY <3>1, <2>1 DEF Holding
    <3> QED  BY <3>3, <3>4 DEF Running
  <2> HIDE DEF s
  <2>5. s' = s
      BY DEF s
  <2> QED
      BY <1>1, <2>1, <2>2, <2>3, <2>4, <2>5 DEF s, IInv, CommandOk, Holding
<1> QED  BY <1>0, <1>1 DEF IInv, SessionType

LEMMA CommandStep ==
    ASSUME IInv, NEW c \in Session, Only(c), LockOnly(c), ReadyOnly(c), ProcOnly(c), TunnelsOnly,
           CommandOk(c)', ~stray'
    PROVE  IInv'
<1>1. ProcType'
    BY DEF ProcOnly, Goes, ProcType
<1>2. SessionType'
    BY DEF IInv, SessionType, Only
<1>3. RestType'
    BY DEF IInv, RestType, LockOnly, ReadyOnly, ProcOnly
<1>4. ClockInv'
  <2>1. \A p \in Pid : proc'[p] # NoProcess => proc'[p].start < ticks'
      BY DEF IInv, ClockInv, ProcOnly, Goes, ProcType, IsProcess, RestType
  <2>2. ASSUME NEW f \in ReadyFile PROVE Past(ready[f].process)'
    <3>1. PICK id : id = ready'[f].process
        OBVIOUS
    <3>2. id \in IdentityType \cup {NoIdentity} /\ Past(id)
        BY <3>1 DEF ReadyOnly, ReadyType, IInv, ClockInv, CommandOk, RestType, SessionType, IsCommand
    <3>3. Past(id)'
        BY <3>2, StaysPast DEF IInv, ProcOnly
    <3> QED  BY <3>1, <3>3
  <2> QED  BY <2>1, <2>2 DEF ClockInv
<1>5. \A d \in Session : CommandOk(d)'
    BY OthersGoOn DEF Only, ReadyOnly
<1>6. TunnelsKept'
    BY ConnectAssumption, ZenonT(40)
       DEF IInv, TunnelsKept, TunnelsOnly, Alone, ProcOnly, Identity
<1>7. SignalsItsOwn'
    BY DEF SignalsItsOwn
<1> QED  BY <1>1, <1>2, <1>3, <1>4, <1>5, <1>6, <1>7 DEF IInv

\* What most steps leave as it is
LEMMA Unchanged ==
    ASSUME IInv, NEW c \in Session
    PROVE  /\ UNCHANGED lock => LockOnly(c)
           /\ lock' = Unlocked(c) => LockOnly(c)
           /\ UNCHANGED ready => ReadyOnly(c)
           /\ UNCHANGED <<proc, ticks, boot>> => ProcOnly(c)
           /\ UNCHANGED <<proc, ready, boot>> => TunnelsOnly
<1>1. UNCHANGED lock => LockOnly(c)
    BY DEF IInv, RestType, LockOnly
<1>2. lock' = Unlocked(c) => LockOnly(c)
    BY DEF IInv, RestType, LockOnly, Unlocked
<1>3. UNCHANGED ready => ReadyOnly(c)
    BY DEF IInv, RestType, ReadyOnly
<1>4. UNCHANGED <<proc, ticks, boot>> => ProcOnly(c)
    BY DEF IInv, RestType, ProcType, ProcOnly, Goes
<1>5. UNCHANGED <<proc, ready, boot>> => TunnelsOnly
    BY DEF IInv, TunnelsKept, TunnelsOnly, Alone, Identity
<1> QED  BY <1>1, <1>2, <1>3, <1>4, <1>5

\* A command goes on, ends, or begins
LEMMA ToEffect ==
    ASSUME SessionType, NEW c \in Session, session[c] # Idle, NEW step \in Steps, To(c, step)
    PROVE  /\ Only(c) /\ session'[c] # Idle /\ session'[c].step = step
           /\ session'[c].file = session[c].file /\ session'[c].tunnel = session[c].tunnel
           /\ session'[c].handle = session[c].handle
BY DEF SessionType, Only, To, IsCommand, Idle, Steps, Holding

LEMMA EndEffect ==
    ASSUME IInv, NEW c \in Session, End(c)
    PROVE  Only(c) /\ LockOnly(c) /\ CommandOk(c)'
BY Unchanged DEF IInv, SessionType, Only, End, Idle, Holding, CommandOk

LEMMA BeginEffect ==
    ASSUME IInv, NEW c \in Session, NEW s, Begin(c, s), IsCommand(s), s.step \in {"fetch", "lock"},
           s.tunnel = NoIdentity
    PROVE  Only(c) /\ CommandOk(c)'
BY DEF IInv, SessionType, Only, Begin, CommandOk, Holding, Past, Idle, IsCommand

----------------------------------------------------------------------------
(* The steps of a command *)

LEMMA FromCardStep == ASSUME IInv, NEW c \in Session, FromCard(c) PROVE IInv'
<1>1. PICK u \in Url, f \in ReadyFile :
          Begin(c, [New("connect", "fetch", f) EXCEPT !.url = {u}])
    BY DEF FromCard
<1>2. Only(c) /\ CommandOk(c)'
    BY <1>1, BeginEffect DEF New, IsCommand, Steps, Holding
<1> QED  BY <1>2, Unchanged, CommandStep DEF FromCard, fixed, publisher, IInv, SignalsItsOwn

LEMMA FromHostStep == ASSUME IInv, NEW c \in Session, FromHost(c) PROVE IInv'
<1>1. PICK f \in ReadyFile :
          \E plan : Begin(c, [New("connect", "lock", f) EXCEPT !.plan = plan])
    BY DEF FromHost
<1>2. Only(c) /\ CommandOk(c)'
    BY <1>1, BeginEffect DEF New, IsCommand, Steps, Holding
<1> QED  BY <1>2, Unchanged, CommandStep DEF FromHost, fixed, publisher, IInv, SignalsItsOwn

LEMMA StopTunnelStep == ASSUME IInv, NEW c \in Session, StopTunnel(c) PROVE IInv'
<1>1. PICK f \in ReadyFile : Begin(c, New("stop", "lock", f))
    BY DEF StopTunnel
<1>2. Only(c) /\ CommandOk(c)'
    BY <1>1, BeginEffect DEF New, IsCommand, Steps, Holding
<1> QED  BY <1>2, Unchanged, CommandStep DEF StopTunnel, fixed, publisher, IInv, SignalsItsOwn

LEMMA FetchStep == ASSUME IInv, NEW c \in Session, Fetch(c) PROVE IInv'
<1>1. Only(c) /\ LockOnly(c) /\ CommandOk(c)'
  <2>1. CASE End(c)
      BY <2>1, EndEffect
  <2>2. ASSUME NEW t, IsCommand(t), t.step \in {"fetch", "lock"}, t.tunnel = session[c].tunnel,
               session' = [session EXCEPT ![c] = t], UNCHANGED lock
        PROVE  Only(c) /\ LockOnly(c) /\ CommandOk(c)'
    <3>1. Only(c) /\ session'[c] = t
        BY <2>2 DEF Only, IInv, SessionType
    <3>2. Past(t.tunnel)'
        BY <2>2 DEF Fetch, Command, IInv, CommandOk, Idle, Past, fixed
    <3> QED  BY <2>2, <3>1, <3>2, Unchanged DEF CommandOk, Holding
  <2>3. session[c] # Idle /\ IsCommand(session[c]) /\ session[c].step = "fetch"
    <3>1. session[c].step = "fetch"
        BY DEF Fetch, Command
    <3> QED  BY <3>1 DEF IInv, SessionType, Idle
  <2>4. CASE /\ session' = [session EXCEPT ![c].attempt = @ + 1]
             /\ UNCHANGED lock
    <3>1. PICK t : t = [session[c] EXCEPT !.attempt = @ + 1]
        OBVIOUS
    <3>2. IsCommand(t) /\ t.step = "fetch" /\ t.tunnel = session[c].tunnel
        BY <2>3, <3>1 DEF IsCommand
    <3>3. session' = [session EXCEPT ![c] = t]
        BY <2>4, <3>1
    <3> QED  BY <2>2, <2>4, <3>2, <3>3
  <2>5. ASSUME NEW k,
               /\ session' = [session EXCEPT ![c].step = "lock", ![c].attempt = 1,
                                             ![c].url = {}, ![c].plan = CardPlan(k)]
               /\ UNCHANGED lock
        PROVE Only(c) /\ LockOnly(c) /\ CommandOk(c)'
    <3>1. PICK t : t = [session[c] EXCEPT !.step = "lock", !.attempt = 1, !.url = {},
                                          !.plan = CardPlan(k)]
        OBVIOUS
    <3>2. IsCommand(t) /\ t.step = "lock" /\ t.tunnel = session[c].tunnel
        BY <2>3, <3>1 DEF IsCommand, Steps
    <3>3. session' = [session EXCEPT ![c] = t]
        BY <2>5, <3>1, <2>3 DEF IInv, SessionType
    <3> QED  BY <2>2, <2>5, <3>2, <3>3
  <2> QED  BY <2>1, <2>4, <2>5 DEF Fetch
<1> QED  BY <1>1, Unchanged, CommandStep DEF Fetch, fixed, publisher, IInv, SignalsItsOwn

LEMMA LockStep == ASSUME IInv, NEW c \in Session, Lock(c) PROVE IInv'
<1>1. Only(c) /\ LockOnly(c) /\ CommandOk(c)'
    BY ToEffect, ConnectAssumption DEF Lock, Command, IInv, SessionType, RestType, IsCommand,
           LockOnly, CommandOk, Holding, Steps, Idle, Past, fixed, publisher
<1> QED  BY <1>1, Unchanged, CommandStep DEF Lock, fixed, publisher, IInv, SignalsItsOwn

LEMMA GuardStep == ASSUME IInv, NEW c \in Session, Guard(c) PROVE IInv'
<1>1. Only(c) /\ LockOnly(c) /\ CommandOk(c)'
  <2>1. CASE End(c)
      BY <2>1, EndEffect
  <2>2. CASE To(c, "spawn") /\ UNCHANGED lock /\ ~Running(ready[session[c].file].process)
    <3>1. session[c] # Idle /\ session[c].step = "guard"
        BY DEF Guard, Command, Idle
    <3>2. /\ Only(c) /\ session'[c] # Idle /\ session'[c].step = "spawn"
          /\ session'[c].file = session[c].file /\ session'[c].tunnel = session[c].tunnel
        BY <2>2, <3>1, ToEffect DEF IInv, Steps, Holding
    <3>3. lock'[session'[c].file] = c /\ Past(session[c].tunnel)'
        BY <2>2, <3>1, <3>2 DEF Guard, IInv, CommandOk, Holding, Past, fixed
    <3>4. ~Running(ready[session[c].file].process)'
        BY <2>2, <3>2 DEF Guard, Running, fixed
    <3> QED  BY <2>2, <3>2, <3>3, <3>4, Unchanged DEF CommandOk, Holding
  <2> QED  BY <2>1, <2>2 DEF Guard
<1> QED  BY <1>1, Unchanged, CommandStep DEF Guard, fixed, publisher, IInv, SignalsItsOwn

LEMMA WaitStep == ASSUME IInv, NEW c \in Session, Wait(c) PROVE IInv'
<1>1. \E step \in {"record", "signal"} : To(c, step)
    BY DEF Wait
<1>2. session[c] # Idle /\ session[c].step = "wait" /\ UNCHANGED <<lock, ready, proc, boot, ticks>>
    BY DEF Wait, Command, Idle, fixed
<1>3. /\ Only(c) /\ session'[c].step \in {"record", "signal"} /\ session'[c] # Idle
      /\ session'[c].file = session[c].file /\ session'[c].tunnel = session[c].tunnel
    BY <1>1, <1>2, ToEffect DEF IInv, Steps, Holding
<1>4. CommandOk(c)'
    BY <1>2, <1>3 DEF IInv, CommandOk, Holding, Past, Running
<1> QED  BY <1>3, <1>4, Unchanged, CommandStep DEF Wait, fixed, publisher, IInv, SignalsItsOwn

LEMMA ReadStep == ASSUME IInv, NEW c \in Session, Read(c) PROVE IInv'
<1>1. Only(c) /\ LockOnly(c) /\ CommandOk(c)'
  <2>1. CASE End(c)
      BY <2>1, EndEffect
  <2>2. CASE /\ session' = [session EXCEPT ![c].step = "signal",
                                           ![c].tunnel = ready[session[c].file].process]
             /\ UNCHANGED lock
    <3>1. session[c] # Idle /\ IsCommand(session[c]) /\ session[c].step = "read"
        BY DEF Read, Command, IInv, SessionType, Idle
    <3>2. PICK t : t = [session[c] EXCEPT !.step = "signal",
                                          !.tunnel = ready[session[c].file].process]
        OBVIOUS
    <3>3. /\ t.tunnel = ready[session[c].file].process
          /\ t.tunnel \in IdentityType \cup {NoIdentity} /\ Past(t.tunnel)
          /\ t.step = "signal" /\ t.file = session[c].file
        BY <3>1, <3>2 DEF IsCommand, IInv, RestType, ReadyType, ClockInv
    <3>4. IsCommand(t)
        BY <3>1, <3>2, <3>3 DEF IsCommand, Steps, Holding
    <3>5. Only(c) /\ session'[c] = t
        BY <2>2, <3>1, <3>2, <3>4 DEF Only, IInv, SessionType
    <3>6. lock'[t.file] = c /\ Past(t.tunnel)'
        BY <2>2, <3>1, <3>3 DEF Read, IInv, CommandOk, Holding, Past, fixed
    <3> QED  BY <2>2, <3>3, <3>5, <3>6, Unchanged DEF CommandOk, Holding
  <2> QED  BY <2>1, <2>2 DEF Read
<1> QED  BY <1>1, Unchanged, CommandStep DEF Read, fixed, publisher, IInv, SignalsItsOwn

LEMMA RecheckStep == ASSUME IInv, NEW c \in Session, Recheck(c) PROVE IInv'
<1>1. session[c] # Idle /\ session[c].step = "recheck"
    BY DEF Recheck, Command, Idle
<1>2. PICK step \in {"send", "gone"} : To(c, step)
    BY DEF Recheck
<1>3. /\ Only(c) /\ session'[c] # Idle /\ session'[c].step = step
      /\ session'[c].file = session[c].file /\ session'[c].tunnel = session[c].tunnel
      /\ session'[c].handle = session[c].handle
    BY <1>1, <1>2, ToEffect DEF IInv, Steps, Holding
<1>4. CommandOk(c)'
    BY <1>1, <1>2, <1>3 DEF Recheck, IInv, CommandOk, Holding, Past, fixed
<1> QED  BY <1>3, <1>4, Unchanged, CommandStep DEF Recheck, fixed, publisher, IInv, SignalsItsOwn

LEMMA OpenStep == ASSUME IInv, NEW c \in Session, Open(c) PROVE IInv'
<1>1. session[c] # Idle /\ IsCommand(session[c]) /\ session[c].step = "signal"
  <2>1. session[c].step = "signal"
      BY DEF Open, Command
  <2> QED  BY <2>1 DEF IInv, SessionType, Idle
<1>2. PICK step \in {"recheck", "gone"} : \E handle :
          /\ session' = [session EXCEPT ![c].step = step, ![c].handle = handle]
          /\ step = "recheck" => handle = session[c].tunnel
  <2>1. CASE Running(session[c].tunnel)
    <3>1. session[c].tunnel \in IdentityType
        BY <1>1, <2>1 DEF Running, IsCommand
    <3>2. Identity(session[c].tunnel.pid) = session[c].tunnel
        BY <2>1, <3>1 DEF Running, Identity, IdentityType
    <3> QED  BY <2>1, <3>2 DEF Open
  <2>2. CASE ~Running(session[c].tunnel)
      BY <2>2 DEF Open
  <2> QED  BY <2>1, <2>2
<1>3. PICK handle :
          /\ session' = [session EXCEPT ![c].step = step, ![c].handle = handle]
          /\ step = "recheck" => handle = session[c].tunnel
    BY <1>2
<1>4. PICK t : t = [session[c] EXCEPT !.step = step, !.handle = handle]
    OBVIOUS
<1>5. IsCommand(t) /\ t.step = step /\ t.handle = handle /\ t.file = session[c].file
          /\ t.tunnel = session[c].tunnel
    BY <1>1, <1>4 DEF IsCommand, Steps, Holding
<1>6. Only(c) /\ session'[c] = t
    BY <1>1, <1>3, <1>4, <1>5 DEF Only, IInv, SessionType
<1>7. CommandOk(c)'
  <2>1. lock'[t.file] = c /\ Past(t.tunnel)'
      BY <1>1, <1>5 DEF Open, IInv, CommandOk, Holding, Past, fixed
  <2> QED  BY <1>3, <1>5, <1>6, <2>1 DEF CommandOk
<1> QED  BY <1>6, <1>7, Unchanged, CommandStep DEF Open, fixed, publisher, IInv, SignalsItsOwn

LEMMA WatchStep == ASSUME IInv, NEW c \in Session, Watch(c) PROVE IInv'
<1>1. session[c] # Idle /\ IsCommand(session[c]) /\ session[c].step = "watch"
  <2>1. session[c].step = "watch"
      BY DEF Watch, Command
  <2> QED  BY <2>1 DEF IInv, SessionType, Idle
<1>2. PICK t : /\ session' = [session EXCEPT ![c] = t]
               /\ \/ t = [session[c] EXCEPT !.step = "signal", !.signal = "KILL"]
                  \/ t = [session[c] EXCEPT !.step = "gone"]
  <2>1. CASE session' = [session EXCEPT ![c].step = "signal", ![c].signal = "KILL"]
    <3>1. PICK t : t = [session[c] EXCEPT !.step = "signal", !.signal = "KILL"]
        OBVIOUS
    <3>2. session' = [session EXCEPT ![c] = t]
        BY <1>1, <2>1, <3>1 DEF IInv, SessionType
    <3> QED  BY <3>1, <3>2
  <2>2. CASE To(c, "gone")
    <3>1. PICK t : t = [session[c] EXCEPT !.step = "gone"]
        OBVIOUS
    <3>2. session' = [session EXCEPT ![c] = t]
        BY <1>1, <2>2, <3>1 DEF IInv, SessionType, To
    <3> QED  BY <3>1, <3>2
  <2> QED  BY <2>1, <2>2 DEF Watch
<1>3. IsCommand(t) /\ t.step \in {"signal", "gone"} /\ t.file = session[c].file
          /\ t.tunnel = session[c].tunnel
    BY <1>1, <1>2 DEF IsCommand, Steps, Holding
<1>4. Only(c) /\ session'[c] = t
    BY <1>2, <1>3 DEF Only, IInv, SessionType
<1>5. CommandOk(c)'
    BY <1>1, <1>3, <1>4 DEF Watch, IInv, CommandOk, Holding, Past, fixed
<1> QED  BY <1>4, <1>5, Unchanged, CommandStep DEF Watch, fixed, publisher, IInv, SignalsItsOwn

LEMMA RecordStep == ASSUME IInv, NEW c \in Session, Record(c) PROVE IInv'
<1>1. session[c] # Idle /\ IsCommand(session[c]) /\ session[c].step = "record"
  <2>1. session[c].step = "record"
      BY DEF Record, Command
  <2> QED  BY <2>1 DEF IInv, SessionType, Idle
<1>0. PICK f, t : f = session[c].file /\ t = session[c].tunnel
    OBVIOUS
<1>2. /\ f \in ReadyFile /\ lock[f] = c /\ t \in IdentityType /\ t # NoIdentity /\ Past(t)
      /\ t.boot = boot /\ proc[t.pid].kind = "tunnel" /\ proc[t.pid].start = t.start
      /\ proc[t.pid].parent = c /\ ~Running(ready[f].process)
    BY <1>0, <1>1 DEF IInv, CommandOk, IsCommand, Holding
<1>3. CASE /\ ready' = [ready EXCEPT ![f] = [form |-> "v2", process |-> t]]
           /\ To(c, "detach")
  <2>1. /\ Only(c) /\ session'[c] # Idle /\ session'[c].step = "detach"
        /\ session'[c].file = f /\ session'[c].tunnel = t
      BY <1>0, <1>1, <1>3, ToEffect DEF IInv, Steps, Holding
  <2>2. ReadyOnly(c)
      BY <1>0, <1>1, <1>2, <1>3 DEF IInv, RestType, ReadyType, ReadyOnly
  <2>3. TunnelsOnly
    <3> SUFFICES ASSUME NEW p \in Pid, Alone(proc[p])
                 PROVE  \A g \in ReadyFile : ready[g].process = Identity(p) => ready'[g] = ready[g]
        BY DEF TunnelsOnly, Record, fixed
    <3>1. ready[f].process # Identity(p)
        BY <1>2 DEF Alone, Running, Identity, NoIdentity
    <3> QED  BY <1>3, <3>1 DEF IInv, RestType
  <2>4. Past(t)'
      BY <1>2 DEF Past, Record, fixed
  <2>5. CommandOk(c)'
      BY <1>2, <1>3, <2>1, <2>4 DEF Record, IInv, RestType, CommandOk, Holding, fixed
  <2> QED  BY <2>1, <2>2, <2>3, <2>5, Unchanged, CommandStep DEF Record, IInv, SignalsItsOwn
<1>4. CASE To(c, "signal") /\ UNCHANGED ready
  <2>1. /\ Only(c) /\ session'[c] # Idle /\ session'[c].step = "signal"
        /\ session'[c].file = f /\ session'[c].tunnel = t
      BY <1>0, <1>1, <1>4, ToEffect DEF IInv, Steps, Holding
  <2>2. Past(t)'
      BY <1>2 DEF Past, Record, fixed
  <2>3. CommandOk(c)'
      BY <1>2, <2>1, <2>2 DEF Record, CommandOk, Holding
  <2> QED  BY <1>4, <2>1, <2>3, Unchanged, CommandStep DEF Record, IInv, SignalsItsOwn
<1> QED  BY <1>0, <1>3, <1>4 DEF Record

\* Processes start, are orphaned and end
LEMMA StartEffect ==
    ASSUME IInv, NEW c, NEW p \in Pid, NEW kind \in {"tunnel", "other"}, NEW plan, NEW parent,
           kind = "tunnel" => parent # "nobody",
           Started(p, kind, plan, parent), UNCHANGED <<boot, ready>>
    PROVE  /\ ProcOnly(c) /\ TunnelsOnly
           /\ proc'[p].kind = kind /\ proc'[p].start = ticks /\ proc'[p].parent = parent
           /\ ticks' = ticks + 1
<1>1. proc[p] = NoProcess
    BY DEF IInv, ProcType, IsProcess, Started
<1>2. ticks \in Nat /\ ticks' = ticks + 1
    BY DEF IInv, RestType, Started
<1>3. PICK x : /\ x = [kind |-> kind, start |-> ticks, state |-> "running", parent |-> parent,
                       left |-> FALSE, ports |-> plan.endpoints \cup plan.control,
                       valid |-> plan.valid]
               /\ proc' = [proc EXCEPT ![p] = x]
    BY DEF Started
<1>4. /\ IsProcess(x) /\ x.kind = kind /\ x.start = ticks /\ x.parent = parent
      /\ ~Alone(x)
    BY <1>2, <1>3 DEF IsProcess, Alone
<1>5. proc' = [q \in Pid |-> proc'[q]] /\ proc'[p] = x /\ \A q \in Pid \ {p} : proc'[q] = proc[q]
    BY <1>3 DEF IInv, ProcType
<1>6. \A q \in Pid : Goes(q)
    BY <1>1, <1>2, <1>4, <1>5 DEF Goes, IInv, ProcType
<1>7. ProcOnly(c)
    BY <1>1, <1>2, <1>5, <1>6 DEF ProcOnly, NoProcess
<1>8. TunnelsOnly
    BY <1>4, <1>5 DEF TunnelsOnly
<1> QED  BY <1>2, <1>4, <1>5, <1>7, <1>8

LEMMA OrphanEffect ==
    ASSUME IInv, NEW c \in Session, proc' = [p \in Pid |-> Orphaned(p, c)],
           UNCHANGED <<boot, ready, ticks>>
    PROVE  ProcOnly(c) /\ TunnelsOnly
<1>1. ASSUME NEW p \in Pid
      PROVE  /\ Goes(p)
             /\ proc[p].kind = "tunnel" /\ proc[p].parent \notin {c, "nobody"} => proc'[p] = proc[p]
             /\ Alone(proc'[p]) => proc'[p] = proc[p]
  <2>1. proc'[p] = Orphaned(p, c)
      OBVIOUS
  <2>2. CASE proc[p].kind # "tunnel" \/ proc[p].parent # c
      BY <2>1, <2>2 DEF Orphaned, Goes, IInv, ProcType
  <2>3. CASE ~(proc[p].kind # "tunnel" \/ proc[p].parent # c)
    <3>1. IsProcess(proc[p])
        BY <2>3 DEF IInv, ProcType, NoProcess
    <3>2. CASE proc[p].state = "zombie"
        BY <2>1, <2>3, <3>2 DEF Orphaned, Goes, NoProcess, Alone
    <3>3. CASE proc[p].state # "zombie"
      <4>1. proc'[p] = [proc[p] EXCEPT !.parent = "nobody", !.left = TRUE]
          BY <2>1, <2>3, <3>3 DEF Orphaned
      <4>2. /\ IsProcess(proc'[p]) /\ proc'[p].start = proc[p].start
            /\ proc'[p].left
          BY <3>1, <4>1 DEF IsProcess
      <4> QED  BY <2>3, <3>1, <3>3, <4>2 DEF Goes, Alone, IsProcess, NoProcess
    <3> QED  BY <3>2, <3>3
  <2> QED  BY <2>2, <2>3
<1>2. ProcOnly(c)
    BY <1>1 DEF ProcOnly, IInv, RestType
<1>3. TunnelsOnly
    BY <1>1 DEF TunnelsOnly
<1> QED  BY <1>2, <1>3

LEMMA EndedEffect ==
    ASSUME IInv, NEW c \in Session \cup {"nobody"}, NEW p \in Pid, proc[p].kind # "none",
           proc' = [proc EXCEPT ![p] = Ended(p)], UNCHANGED <<boot, ready, ticks>>
    PROVE  ProcOnly(c) /\ TunnelsOnly
<1>1. IsProcess(proc[p])
    BY DEF IInv, ProcType, NoProcess
<1>2. \A q \in Pid \ {p} : proc'[q] = proc[q]
    BY DEF IInv, ProcType
<1>3. proc'[p] = Ended(p) /\ proc' = [q \in Pid |-> proc'[q]]
    BY DEF IInv, ProcType
<1>4. /\ Goes(p) /\ ~Alone(proc'[p])
      /\ proc[p].kind = "tunnel" /\ proc[p].parent \notin {c, "nobody"} =>
          /\ proc'[p].kind = "tunnel" /\ proc'[p].start = proc[p].start
          /\ proc'[p].parent = proc[p].parent
  <2>1. CASE proc[p].kind = "tunnel" /\ proc[p].parent # "nobody"
    <3>1. proc'[p] = [proc[p] EXCEPT !.state = "zombie", !.ports = {}]
        BY <1>3, <2>1 DEF Ended
    <3>2. /\ DOMAIN proc'[p] = DOMAIN proc[p] /\ proc'[p].start = proc[p].start
          /\ proc'[p].state = "zombie" /\ proc'[p].kind = proc[p].kind
          /\ proc'[p].parent = proc[p].parent
        BY <1>1, <3>1, ZenonT(40) DEF IsProcess
    <3>3. IsProcess(proc'[p])
        BY <1>1, <3>2 DEF IsProcess
    <3> QED  BY <1>1, <2>1, <3>2, <3>3 DEF Goes, Alone, NoProcess
  <2>2. CASE ~(proc[p].kind = "tunnel" /\ proc[p].parent # "nobody")
      BY <1>3, <2>2 DEF Ended, Goes, Alone, NoProcess
  <2> QED  BY <2>1, <2>2
<1>5. \A q \in Pid : Goes(q)
    BY <1>2, <1>4 DEF Goes, IInv, ProcType
<1>6. ProcOnly(c)
    BY <1>2, <1>3, <1>4, <1>5 DEF ProcOnly, IInv, RestType
<1>7. TunnelsOnly
    BY <1>2, <1>4 DEF TunnelsOnly
<1> QED  BY <1>6, <1>7

LEMMA ExecStep == ASSUME IInv, NEW c \in Session, Exec(c) PROVE IInv'
<1>1. PICK p \in Pid : Started(p, "other", session[c].plan, "nobody")
    BY DEF Exec
<1>2. ProcOnly(c) /\ TunnelsOnly
    BY <1>1, StartEffect DEF Exec, fixed
<1> QED  BY <1>2, EndEffect, Unchanged, CommandStep DEF Exec, IInv, SignalsItsOwn

LEMMA SpawnStep == ASSUME IInv, NEW c \in Session, Spawn(c) PROVE IInv'
<1>1. CASE End(c) /\ UNCHANGED <<proc, ticks>>
    BY <1>1, EndEffect, Unchanged, CommandStep DEF Spawn, IInv, SignalsItsOwn
<1>2. ASSUME NEW p \in Pid, Started(p, "tunnel", session[c].plan, c), UNCHANGED lock,
             session' = [session EXCEPT ![c].step = "wait",
                   ![c].tunnel = [pid |-> p, start |-> ticks, boot |-> boot]]
      PROVE  IInv'
  <2>1. /\ ProcOnly(c) /\ TunnelsOnly
        /\ proc'[p].kind = "tunnel" /\ proc'[p].start = ticks /\ proc'[p].parent = c
        /\ ticks' = ticks + 1
      BY <1>2, StartEffect, ConnectAssumption DEF Spawn
  <2>2. session[c] # Idle /\ IsCommand(session[c]) /\ session[c].step = "spawn"
    <3>1. session[c].step = "spawn"
        BY DEF Spawn, Command
    <3> QED  BY <3>1 DEF IInv, SessionType, Idle
  <2>3. PICK id : id = [pid |-> p, start |-> ticks, boot |-> boot]
      OBVIOUS
  <2>4. /\ id \in IdentityType /\ id.pid = p /\ id.start = ticks /\ id.boot = boot
        /\ id # NoIdentity
      BY <2>3 DEF IInv, RestType, IdentityType, NoIdentity
  <2>5. PICK t : t = [session[c] EXCEPT !.step = "wait", !.tunnel = id]
      OBVIOUS
  <2>6. IsCommand(t) /\ t.step = "wait" /\ t.tunnel = id /\ t.file = session[c].file
      BY <2>2, <2>4, <2>5 DEF IsCommand, Steps, Holding
  <2>7. Only(c) /\ session'[c] = t
      BY <1>2, <2>2, <2>3, <2>5, <2>6 DEF Only, IInv, SessionType
  <2>8. PICK old : old = ready[t.file].process
      OBVIOUS
  <2>9. old \in IdentityType \cup {NoIdentity} /\ Past(old) /\ ~Running(old)
      BY <2>2, <2>6, <2>8 DEF IInv, IsCommand, ClockInv, CommandOk, RestType, ReadyType
  <2>10. ~Running(old)'
      BY <2>1, <2>9, StaysGone DEF IInv
  <2>11. ~Running(ready[t.file].process)'
      BY <2>8, <2>10 DEF Spawn, Running
  <2>12. Past(id)'
      BY <2>1, <2>4 DEF Past, Spawn, IInv, RestType
  <2>13. lock'[t.file] = c
      BY <1>2, <2>2, <2>6 DEF IInv, CommandOk, Holding
  <2>14. CommandOk(c)'
      BY <2>1, <2>4, <2>6, <2>7, <2>11, <2>12, <2>13 DEF CommandOk, Spawn
  <2> QED  BY <1>2, <2>1, <2>7, <2>14, Unchanged, CommandStep DEF Spawn, IInv, SignalsItsOwn
<1> QED  BY <1>1, <1>2 DEF Spawn

LEMMA GoneStep == ASSUME IInv, NEW c \in Session, Gone(c) PROVE IInv'
BY OrphanEffect, EndEffect, Unchanged, CommandStep DEF Gone, IInv, SignalsItsOwn

LEMMA KillStep == ASSUME IInv, NEW c \in Session, Kill(c) PROVE IInv'
BY OrphanEffect, EndEffect, Unchanged, CommandStep DEF Kill, IInv, SignalsItsOwn

LEMMA SendStep == ASSUME IInv, NEW c \in Session, Send(c) PROVE IInv'
<1>1. session[c] # Idle /\ IsCommand(session[c]) /\ session[c].step = "send"
  <2>1. session[c].step = "send"
      BY DEF Send, Command
  <2> QED  BY <2>1 DEF IInv, SessionType, Idle
<1>2. PICK id : id = session[c].handle
    OBVIOUS
<1>3. id = session[c].tunnel
    BY <1>1, <1>2 DEF IInv, CommandOk
<1>4. /\ Only(c) /\ session'[c] # Idle /\ session'[c].step = "watch"
      /\ session'[c].file = session[c].file /\ session'[c].tunnel = id
    BY <1>1, <1>3, ToEffect DEF Send, IInv, Steps, Holding
<1>5. Past(id)'
    BY <1>1, <1>3 DEF Send, IInv, CommandOk, Past
<1>6. CommandOk(c)'
    BY <1>1, <1>4, <1>5 DEF Send, IInv, CommandOk, Holding
<1>7. ~stray'
    BY <1>2, <1>3 DEF Send, Signalled, IInv, SignalsItsOwn
<1>8. ProcOnly(c) /\ TunnelsOnly
  <2>1. CASE UNCHANGED proc
      BY <2>1, Unchanged DEF Send
  <2>2. CASE Running(id) /\ proc' = [proc EXCEPT ![id.pid] = Ended(id.pid)]
    <3>1. id.pid \in Pid /\ proc[id.pid].kind # "none"
        BY <1>1, <1>3, <2>2 DEF Running, IsCommand, IdentityType
    <3> QED  BY <2>2, <3>1, EndedEffect DEF Send
  <2> QED  BY <1>2, <2>1, <2>2 DEF Send, Signalled
<1> QED  BY <1>4, <1>6, <1>7, <1>8, Unchanged, CommandStep DEF Send

LEMMA DetachStep == ASSUME IInv, NEW c \in Session, Detach(c) PROVE IInv'
<1>1. session[c] # Idle /\ IsCommand(session[c]) /\ session[c].step = "detach"
  <2>1. session[c].step = "detach"
      BY DEF Detach, Command
  <2> QED  BY <2>1 DEF IInv, SessionType, Idle
<1>0. UNCHANGED <<ready, ticks, boot>>
    BY DEF Detach
<1>2. PICK t, p : t = session[c].tunnel /\ p = session[c].tunnel.pid
    OBVIOUS
<1>3. /\ p \in Pid /\ t \in IdentityType /\ t.pid = p /\ t.boot = boot
      /\ proc[p].kind = "tunnel" /\ proc[p].start = t.start /\ proc[p].parent = c
      /\ session[c].file \in ReadyFile /\ ready[session[c].file].process = t
    BY <1>1, <1>2 DEF IInv, CommandOk, IsCommand, IdentityType
<1>4. IsProcess(proc[p])
    BY <1>3 DEF IInv, ProcType, NoProcess
<1>5. /\ proc' = [q \in Pid |-> proc'[q]]
      /\ \A q \in Pid \ {p} : proc'[q] = proc[q]
      /\ proc'[p] = IF proc[p].state = "zombie" THEN NoProcess
                    ELSE [proc[p] EXCEPT !.parent = "nobody"]
    BY <1>2, <1>3 DEF Detach, IInv, ProcType
<1>6. \/ proc'[p] = NoProcess
      \/ /\ IsProcess(proc'[p]) /\ proc'[p].start = proc[p].start
         /\ proc'[p].state # "zombie" /\ proc[p].state # "zombie"
  <2>1. CASE proc[p].state = "zombie"
      BY <1>5, <2>1
  <2>2. CASE proc[p].state # "zombie"
    <3>1. proc'[p] = [proc[p] EXCEPT !.parent = "nobody"]
        BY <1>5, <2>2
    <3> QED  BY <1>4, <2>2, <3>1 DEF IsProcess
  <2> QED  BY <2>1, <2>2
<1>7. \A q \in Pid : Goes(q)
    BY <1>3, <1>4, <1>5, <1>6 DEF Goes, IInv, ProcType, IsProcess, NoProcess
<1>8. ProcOnly(c)
    BY <1>0, <1>3, <1>5, <1>7 DEF ProcOnly, IInv, RestType
<1>9. t = [pid |-> p, start |-> t.start, boot |-> t.boot]
    BY <1>3 DEF IdentityType
<1>10. TunnelsOnly
  <2>1. \A q \in Pid \ {p} : Alone(proc'[q]) => Alone(proc[q]) /\ proc'[q].start = proc[q].start
      BY <1>5
  <2>2. Alone(proc'[p]) =>
            ready'[session[c].file].process = [pid |-> p, start |-> proc'[p].start, boot |-> boot']
      BY <1>0, <1>3, <1>6, <1>9 DEF Alone, NoProcess
  <2> QED  BY <1>0, <1>3, <2>1, <2>2 DEF TunnelsOnly
<1> QED  BY <1>8, <1>10, EndEffect, Unchanged, CommandStep DEF Detach, IInv, SignalsItsOwn

----------------------------------------------------------------------------
(* The other steps *)

LEMMA HostStep ==
    ASSUME IInv, UNCHANGED <<session, lock, ready, stray>>, ProcOnly("nobody"), TunnelsOnly
    PROVE  IInv'
<1>1. ProcType'
    BY DEF ProcOnly, Goes, ProcType
<1>2. SessionType' /\ RestType'
    BY DEF IInv, SessionType, RestType, ProcOnly
<1>3. ClockInv'
  <2>1. \A p \in Pid : proc'[p] # NoProcess => proc'[p].start < ticks'
      BY DEF IInv, ClockInv, ProcOnly, Goes, ProcType, IsProcess, RestType
  <2>2. ASSUME NEW f \in ReadyFile PROVE Past(ready[f].process)'
    <3>1. PICK id : id = ready[f].process
        OBVIOUS
    <3>2. id \in IdentityType \cup {NoIdentity} /\ Past(id)
        BY <3>1 DEF ReadyType, IInv, ClockInv, RestType
    <3>3. Past(id)'
        BY <3>2, StaysPast DEF IInv, ProcOnly
    <3> QED  BY <3>1, <3>3
  <2> QED  BY <2>1, <2>2 DEF ClockInv
<1>4. ASSUME NEW d \in Session PROVE CommandOk(d)'
  <2>1. LockOnly("nobody")
      BY DEF IInv, RestType, LockOnly
  <2>2. d \in Session \ {"nobody"} /\ ready' \in [ReadyFile -> ReadyType]
      BY ConnectAssumption DEF IInv, RestType
  <2> QED  BY <2>1, <2>2, OthersGoOn
<1>5. TunnelsKept'
    BY ConnectAssumption DEF IInv, TunnelsKept, TunnelsOnly, Alone, ProcOnly, Identity
<1>6. SignalsItsOwn'
    BY DEF IInv, SignalsItsOwn
<1> QED  BY <1>1, <1>2, <1>3, <1>4, <1>5, <1>6 DEF IInv

LEMMA ListenStep == ASSUME IInv, NEW p \in Pid, Listen(p) PROVE IInv'
<1>1. IsProcess(proc[p])
    BY DEF Listen, IInv, ProcType, NoProcess
<1>2. /\ proc' = [q \in Pid |-> proc'[q]]
      /\ \A q \in Pid \ {p} : proc'[q] = proc[q]
      /\ proc'[p] = [proc[p] EXCEPT !.state = "listening"]
    BY DEF Listen, IInv, ProcType
<1>3. /\ IsProcess(proc'[p]) /\ proc'[p].kind = proc[p].kind /\ proc'[p].start = proc[p].start
      /\ proc'[p].parent = proc[p].parent /\ proc'[p].left = proc[p].left
    BY <1>1, <1>2 DEF IsProcess
<1>4. proc[p].state = "running"
    BY DEF Listen
<1>5. \A q \in Pid : Goes(q)
    BY <1>1, <1>2, <1>3, <1>4 DEF Goes, IInv, ProcType, IsProcess, NoProcess
<1>6. UNCHANGED <<session, lock, ready, ticks, boot, stray>>
    BY DEF Listen
<1>7. \A q \in Pid : /\ proc'[q].kind = proc[q].kind /\ proc'[q].start = proc[q].start
                       /\ proc'[q].parent = proc[q].parent
    BY <1>2, <1>3
<1>8. ProcOnly("nobody")
    BY <1>2, <1>5, <1>6, <1>7 DEF ProcOnly, IInv, RestType
<1>9. TunnelsOnly
  <2> SUFFICES ASSUME NEW q \in Pid, Alone(proc'[q])
               PROVE  Alone(proc[q]) /\ proc'[q].start = proc[q].start
      BY <1>6 DEF TunnelsOnly
  <2> QED  BY <1>2, <1>3, <1>4, ZenonT(40) DEF Alone
<1> QED  BY <1>6, <1>8, <1>9, HostStep

LEMMA ExitStep == ASSUME IInv, NEW p \in Pid, Exit(p) PROVE IInv'
BY EndedEffect, HostStep DEF Exit

LEMMA OtherStep == ASSUME IInv, NEW p \in Pid, Other(p) PROVE IInv'
<1>1. PICK plan : Started(p, "other", plan, "nobody")
    BY DEF Other
<1> QED  BY <1>1, StartEffect, HostStep DEF Other

LEMMA RebootStep == ASSUME IInv, Reboot PROVE IInv'
<1>1. ProcType' /\ SessionType' /\ RestType'
    BY DEF Reboot, IInv, ProcType, SessionType, RestType
<1>2. ClockInv'
  <2>1. ASSUME NEW f \in ReadyFile PROVE Past(ready[f].process)'
    <3>1. PICK id : id = ready[f].process
        OBVIOUS
    <3>2. Past(id) /\ id \in IdentityType \cup {NoIdentity}
        BY <3>1 DEF IInv, ClockInv, RestType, ReadyType
    <3> QED  BY <3>1, <3>2 DEF Past, Reboot, IInv, RestType, IdentityType
  <2> QED  BY <2>1 DEF ClockInv, Reboot
<1>3. \A c \in Session : CommandOk(c)'
    BY DEF Reboot, CommandOk, Idle, Holding
<1>4. TunnelsKept' /\ SignalsItsOwn'
    BY DEF Reboot, TunnelsKept, SignalsItsOwn, NoProcess, IInv
<1> QED  BY <1>1, <1>2, <1>3, <1>4 DEF IInv

LEMMA IdleStep ==
    ASSUME IInv, UNCHANGED <<session, lock, ready, proc, ticks, boot, stray>>
    PROVE  IInv'
<1>1. ProcOnly("nobody")
    BY DEF IInv, RestType, ProcType, ProcOnly, Goes
<1>2. TunnelsOnly
    BY DEF TunnelsOnly
<1> QED  BY <1>1, <1>2, HostStep

LEMMA InitIInv == ConnectInit => IInv
<1> SUFFICES ASSUME ConnectInit PROVE IInv
    OBVIOUS
<1>1. ProcType /\ SessionType /\ RestType
    BY DEF ConnectInit, ProcType, SessionType, RestType, ReadyType
<1>2. ClockInv /\ TunnelsKept /\ SignalsItsOwn
    BY DEF ConnectInit, ClockInv, Past, TunnelsKept, SignalsItsOwn, NoProcess
<1>3. \A c \in Session : CommandOk(c)
    BY DEF ConnectInit, CommandOk, Idle, Holding
<1> QED  BY <1>1, <1>2, <1>3 DEF IInv

LEMMA NextIInv == IInv /\ [ConnectNext]_connectVars => IInv'
<1> SUFFICES ASSUME IInv, [ConnectNext]_connectVars PROVE IInv'
    OBVIOUS
<1>1. CASE UNCHANGED connectVars \/ Publish \/ (Next /\ UNCHANGED host)
    BY <1>1, IdleStep DEF connectVars, host, Publish
<1>2. ASSUME NEW c \in Session,
             \/ FromCard(c) \/ Fetch(c) \/ FromHost(c) \/ Exec(c) \/ Lock(c) \/ Guard(c)
             \/ Spawn(c) \/ Wait(c) \/ Record(c) \/ Detach(c)
             \/ StopTunnel(c) \/ Read(c) \/ Open(c) \/ Recheck(c) \/ Send(c) \/ Watch(c)
             \/ Gone(c) \/ Kill(c)
      PROVE  IInv'
    BY <1>2, FromCardStep, FetchStep, FromHostStep, ExecStep, LockStep, GuardStep, SpawnStep,
       WaitStep, RecordStep, DetachStep, StopTunnelStep, ReadStep, OpenStep, RecheckStep,
       SendStep, WatchStep, GoneStep, KillStep
<1>3. ASSUME NEW p \in Pid, Listen(p) \/ Exit(p) \/ Other(p) PROVE IInv'
    BY <1>3, ListenStep, ExitStep, OtherStep
<1>4. CASE Reboot
    BY <1>4, RebootStep
<1> QED  BY <1>1, <1>2, <1>3, <1>4 DEF ConnectNext

\* Every tunnel that runs is named by its ready file or held by the command that
\* started it, for any commands, files and processes and any number of deaths and
\* reboots (native_process.rs, commands.rs cmd_connect_start).
THEOREM TunnelsStayKept == ConnectSpec => []TunnelsKept
<1>1. IInv => TunnelsKept
    BY DEF IInv
<1> QED  BY <1>1, InitIInv, NextIInv, PTL DEF ConnectSpec

\* No command signals a process that is not its tunnel: a number that was used
\* again, in this boot or a later one, never passes for it (ProcessIdentity).
THEOREM SignalsStayOwn == ConnectSpec => []SignalsItsOwn
<1>1. IInv => SignalsItsOwn
    BY DEF IInv
<1> QED  BY <1>1, InitIInv, NextIInv, PTL DEF ConnectSpec

----------------------------------------------------------------------------
(* init and the files it was given *)

\* Nothing lies in a directory that is not there, and a command that replaces
\* the directory was not given anything in it
GivenInv ==
    /\ pc \in {"idle", "guard", "keys", "write", "finish", "check", "failed", "generated",
               "editing", "created", "delivered", "undelivered", "published"}
    /\ DOMAIN place = Inputs
    /\ dir = "absent" => \A f \in Inputs : place[f] # "inside"
    /\ pc = "guard" => \A f \in args.named \cap {"release", "key"} : place[f] # "inside"

LEMMA InitGivenInv == ConnectInit => GivenInv
<1> SUFFICES ASSUME ConnectInit PROVE GivenInv
    OBVIOUS
<1>1. PICK within \in Inside :
          /\ dir # "dir" => within = {}
          /\ place = [f \in Inputs |-> IF f \in within THEN "inside" ELSE "outside"]
    BY DEF ConnectInit, Init
<1> QED  BY <1>1 DEF ConnectInit, Init, GivenInv

LEMMA AcceptedOutside ==
    ASSUME NEW a \in Argument, ArgumentsAccepted(a), GivenInv
    PROVE  \A f \in a.named \cap {"release", "key"} : place[f] # "inside"
<1>1. a.stage \in {"none", "build", "deploy"}
    BY InitAssumption DEF Arguments
<1>2. StageAccepted(a)
    BY DEF ArgumentsAccepted
<1>3. CASE a.stage \in {"none", "build"}
    BY <1>2, <1>3 DEF StageAccepted, NoInstance
<1>4. CASE a.stage = "deploy"
  <2>1. InputsOutside(a)
      BY <1>2, <1>4 DEF StageAccepted
  <2> QED  BY <2>1 DEF InputsOutside, GivenInv, Inputs
<1> QED  BY <1>1, <1>3, <1>4

\* What a step does to the project: nothing, or a step of ProjectInit, or Publish
LEMMA PublisherSteps ==
    ASSUME [ConnectNext]_connectVars, ~UNCHANGED publisher
    PROVE  \/ pc = "idle" /\ \E a \in Argument : Start(a)
           \/ Replace \/ Stop \/ Publish
           \/ Keys \/ WriteProject \/ Finish \/ Check \/ Break \/ Edit \/ Deploy \/ Deliver
<1>1. UNCHANGED connectVars => UNCHANGED publisher
    BY DEF connectVars
<1>2. ASSUME NEW c \in Session,
             \/ FromCard(c) \/ Fetch(c) \/ FromHost(c) \/ Exec(c) \/ Lock(c) \/ Guard(c)
             \/ Spawn(c) \/ Wait(c) \/ Record(c) \/ Detach(c)
             \/ StopTunnel(c) \/ Read(c) \/ Open(c) \/ Recheck(c) \/ Send(c) \/ Watch(c)
             \/ Gone(c) \/ Kill(c)
      PROVE  UNCHANGED publisher
    BY <1>2 DEF fixed, FromCard, Fetch, FromHost, Exec, Lock, Guard, Spawn, Wait, Record, Detach,
       StopTunnel, Read, Open, Recheck, Send, Watch, Gone, Kill
<1>3. ASSUME NEW p \in Pid, Listen(p) \/ Exit(p) \/ Other(p) PROVE UNCHANGED publisher
    BY <1>3 DEF fixed, Listen, Exit, Other
<1>4. Reboot => UNCHANGED publisher
    BY DEF fixed, Reboot
<1> QED  BY <1>1, <1>2, <1>3, <1>4 DEF ConnectNext, Next

LEMMA NextGivenInv == GivenInv /\ [ConnectNext]_connectVars => GivenInv'
<1> SUFFICES ASSUME GivenInv, [ConnectNext]_connectVars PROVE GivenInv'
    OBVIOUS
<1>1. CASE UNCHANGED publisher
    BY <1>1 DEF GivenInv, publisher
<1>2. CASE Publish
    BY <1>2 DEF GivenInv, Publish
<1>3. CASE pc = "idle" /\ \E a \in Argument : Start(a)
    BY <1>3, AcceptedOutside DEF GivenInv, Start
<1>4. CASE Replace
    BY <1>4 DEF GivenInv, Replace
<1>5. CASE Stop
    BY <1>5 DEF GivenInv, Stop
<1>6. CASE Keys \/ WriteProject \/ Finish \/ Check \/ Break \/ Edit \/ Deploy \/ Deliver
    BY <1>6 DEF GivenInv, Keys, WriteProject, Finish, Check, Break, Edit, Deploy, Deliver
<1> QED  BY <1>1, <1>2, <1>3, <1>4, <1>5, <1>6, PublisherSteps

\* --force never deletes the release or the trusted key that init was told to
\* use, whatever its arguments are (staged.rs validate_args, guard_output_dir).
THEOREM InputsStayKept == ConnectSpec => InputsKept
<1>1. GivenInv /\ [ConnectNext]_connectVars =>
          [\A f \in {"release", "key"} :
              args # NoArguments /\ f \in args.named /\ place[f] # "gone" => place'[f] # "gone"]_vars
  <2> SUFFICES ASSUME GivenInv, [ConnectNext]_connectVars, ~UNCHANGED vars,
                      NEW f \in {"release", "key"},
                      args # NoArguments, f \in args.named, place[f] # "gone"
               PROVE  place'[f] # "gone"
      OBVIOUS
  <2>1. CASE UNCHANGED place
      BY <2>1
  <2>2. CASE Replace
      BY <2>2 DEF GivenInv, Replace, Inputs
  <2>3. CASE Stop
      BY <2>3 DEF Stop, Inputs
  <2>4. CASE Publish
      BY <2>4 DEF Publish, Inputs
  <2>5. CASE pc = "idle" /\ \E a \in Argument : Start(a)
      BY <2>1, <2>5 DEF Start
  <2>6. CASE Keys \/ WriteProject \/ Finish \/ Check \/ Break \/ Edit \/ Deploy \/ Deliver
      BY <2>1, <2>6 DEF Keys, WriteProject, Finish, Check, Break, Edit, Deploy, Deliver
  <2>7. UNCHANGED publisher => UNCHANGED vars
      BY DEF publisher, vars
  <2> QED  BY <2>2, <2>3, <2>4, <2>5, <2>6, <2>7, PublisherSteps
<1> QED  BY <1>1, InitGivenInv, NextGivenInv, PTL DEF ConnectSpec, InputsKept

----------------------------------------------------------------------------
(* What one stage accepts, the next one accepts: the spec that init makes, of *)
(* every target at every stage                                                *)

\* What is left of the checks of init once the files it was given are not
\* looked at any more
Accepted(a) ==
    /\ a \in Argument /\ Given(a)
    /\ a.replicas > 0
    /\ a.stage # "none" => Disk(a) > BaseDisk(a.target)
    /\ a.stage = "deploy" => a.manifest # "short" /\ (HasPort(a) \/ a.replicas = 1)
    /\ a.target = "allinone" => Disk(a) >= 120
    /\ a.target \in {"openclaw-vllm", "vllm-inference"} => a.variants # {}

Fields == {"written", "id", "app", "imageName", "packages", "repos", "releaseKey", "zone",
   "mode", "ports", "connect", "mcp", "ssh", "sources", "release", "debug", "variant", "image",
   "container", "resize", "disk", "replicas", "slb", "references", "rekor", "resources", "a2a"}

\* What all templates have in common, and their stages keep
Fixed == {"id", "zone", "mode", "mcp", "releaseKey", "container", "disk", "references"}
Unsigned(s) == \A x \in s.a2a : /\ x.name = "text" /\ x.ttl = 1 /\ x.interfaces = <<>>
                                /\ ~x.signing.required
Common(s, a) ==
    /\ DOMAIN s = Fields /\ \A f \in Fixed : s[f] = CodexYaml(a)[f]
    /\ s.app \subseteq {"text"} /\ s.resources \subseteq AsResources(Secrets(a)) /\ Unsigned(s)

\* The port of the service, with the balancer of its replicas
Port == <<[port |-> 1, encryption |-> "rats-tls"]>>
OhttpPort == <<[port |-> 1, encryption |-> "ohttp"]>>
Ported(s, a) ==
    \/ s.ports = <<1>> /\ s.connect \in {Port, OhttpPort}
    \/ s.ports = <<>> /\ s.connect = <<>> /\ (a.stage = "deploy" => a.replicas = 1)
Balanced(s, replicas) ==
    \/ s.replicas = 1 /\ s.slb = {}
    \/ /\ s.replicas = replicas /\ replicas > 1
       /\ s.slb = {[enabled |-> TRUE, type |-> "alb"]} /\ s.connect = OhttpPort

\* The image that is built, or the one that is reused and nothing built
Buildable(s, a) ==
    /\ s.image = {} /\ s.imageName = "text"
    /\ s.repos \in {<<>>, <<[name |-> "os", https |-> TRUE]>>}
    /\ s.resize = Resize(BaseDisk(a.target)) /\ s.rekor = RekorBlock(a)
    /\ \/ s.variant = "release" /\ s.release
       \/ s.variant = "debug" /\ s.debug = {TRUE} /\ ~s.ssh

\* A spec that was made from another one by changing some fields
From(s, t, changed) == DOMAIN s = Fields /\ \A f \in Fields \ changed : s[f] = t[f]

LEMMA ClaudeFrom ==
    ASSUME NEW a
    PROVE  LET s == ClaudeCodeYaml(a)  IN
           /\ From(s, CodexYaml(a), {"app", "ports", "connect"})
           /\ s.app = {} /\ s.ports = <<>> /\ s.connect = <<>>
<1>1. DOMAIN CodexYaml(a) = Fields
    BY DEF CodexYaml, Fields
<1> QED  BY <1>1 DEF ClaudeCodeYaml, From, None, Fields

LEMMA OpenclawFrom ==
    ASSUME NEW a
    PROVE  LET s == OpenclawYaml(a)  IN
           /\ From(s, CodexYaml(a), {"sources", "a2a"})
           /\ s.sources = IF a.pep THEN Copied(a) ELSE Copied(a) \ {"skill"}
           /\ \A x \in s.a2a : /\ x.name = "text" /\ x.ttl = 1 /\ x.interfaces = <<>>
                               /\ ~x.signing.required
<1>1. DOMAIN CodexYaml(a) = Fields
    BY DEF CodexYaml, Fields
<1>2. CodexYaml(a).sources = Copied(a)
    BY DEF CodexYaml
<1>3. LET s == OpenclawYaml(a)  IN
      From(s, CodexYaml(a), {"sources", "a2a"})
    BY <1>1 DEF OpenclawYaml, From, Fields
<1>4. OpenclawYaml(a).sources = IF a.pep THEN Copied(a) ELSE Copied(a) \ {"skill"}
    BY <1>1, <1>2 DEF OpenclawYaml, Fields
<1>5. OpenclawYaml(a).a2a =
        {[enabled |-> TRUE, name |-> "text", description |-> Some("text"), ttl |-> 1,
          interfaces |-> <<>>,
          signing |-> [required |-> FALSE, keyless |-> FALSE, issuer |-> "blank",
                       subject |-> "blank"]]}
    BY <1>1 DEF OpenclawYaml, Fields, Some
<1>6. \A x \in OpenclawYaml(a).a2a :
         x.name = "text" /\ x.ttl = 1 /\ x.interfaces = <<>> /\ ~x.signing.required
    BY <1>5
<1> QED  BY <1>3, <1>4, <1>6

LEMMA DeployFrom ==
    ASSUME NEW a, NEW t, DOMAIN t = Fields
    PROVE  LET s == FinishDeploy(t, a)  IN
           /\ From(s, t, {"imageName", "sources", "packages", "repos", "release", "debug",
                          "resize", "variant", "ssh", "replicas", "slb", "rekor", "image"})
           /\ s.imageName = "blank" /\ s.sources = {} /\ s.packages = <<>> /\ s.repos = <<>>
           /\ s.release /\ s.debug = {} /\ s.resize = {}
           /\ s.variant = "release" /\ s.ssh /\ s.replicas = a.replicas /\ s.rekor = {}
           /\ s.slb = IF a.replicas > 1 /\ t.slb = {}
                      THEN {[enabled |-> TRUE, type |-> "nlb"]} ELSE t.slb
           /\ s.image = {[release |-> TRUE, key |-> ~a.unverified, unverified |-> a.unverified,
                          manifest |-> a.manifest, imageId |-> a.imageId]}
BY DEF FinishDeploy, WithoutBuild, From, Fields, None, Some

LEMMA BuildFrom ==
    ASSUME NEW a, NEW t, DOMAIN t = Fields
    PROVE  LET s == FinishBuild(t, a)  IN
           /\ From(s, t, {"sources", "packages", "variant", "ssh", "release", "debug",
                          "resources", "replicas", "slb"})
           /\ s.variant = "release" /\ s.ssh /\ s.release /\ s.debug = {}
           /\ s.resources = {} /\ s.replicas = 1 /\ s.slb = {}
BY DEF FinishBuild, ManagementSsh, From, Fields, None

\* The management SSH of a build
LEMMA BuildAdds ==
    ASSUME NEW a, NEW t, DOMAIN t = Fields
    PROVE  LET s == FinishBuild(t, a)  IN
           /\ a.target = "allinone" => s.sources = t.sources /\ s.packages = t.packages
           /\ a.target # "allinone" => /\ s.sources = t.sources \cup {"ssh"}
                                       /\ s.packages = Append(t.packages, "openssh-server")
BY DEF FinishBuild, ManagementSsh, Fields

LEMMA CodexFrom ==
    ASSUME NEW a
    PROVE  LET s == CodexYaml(a)  IN
           /\ DOMAIN s = Fields /\ s.id = "text" /\ s.app = {"text"} /\ s.imageName = "text"
           /\ s.packages = <<"git", "jq">> /\ s.repos = <<>> /\ s.releaseKey = FALSE
           /\ s.zone = a.zone /\ s.mode = "challenge"
           /\ s.ports = <<1>> /\ s.connect = <<[port |-> 1, encryption |-> "rats-tls"]>>
           /\ s.mcp = <<>> /\ ~s.ssh /\ s.sources = Copied(a) /\ ~s.release
           /\ s.debug = {TRUE} /\ s.variant = "debug" /\ s.image = {} /\ s.container = {}
           /\ s.resize = Resize(30) /\ s.disk = {Disk(a)} /\ s.replicas = 1 /\ s.slb = {}
           /\ s.references = a.references /\ s.rekor = RekorBlock(a)
           /\ s.resources = AsResources(Secrets(a)) /\ s.a2a = {}
BY DEF CodexYaml, Fields, None, Some

LEMMA VllmFrom ==
    ASSUME NEW a
    PROVE  LET s == VllmInferenceYaml(a)  IN
           /\ From(s, CodexYaml(a), {"resize", "connect", "replicas", "slb",
                                     "repos", "release", "debug", "variant"})
           /\ s.resize = Resize(80) /\ s.connect = <<[port |-> 1, encryption |-> "ohttp"]>>
           /\ s.replicas = a.replicas
           /\ s.slb = IF a.replicas > 1 THEN {[enabled |-> TRUE, type |-> "alb"]} ELSE {}
           /\ s.repos = <<[name |-> "os", https |-> TRUE]>>
           /\ s.release = ("release" \in a.variants)
           /\ s.debug = IF "debug" \in a.variants THEN {TRUE} ELSE {}
           /\ s.variant = IF "debug" \in a.variants THEN "debug" ELSE "release"
<1>1. DOMAIN CodexYaml(a) = Fields
    BY CodexFrom
<1> QED  BY <1>1 DEF VllmInferenceYaml, Variants, From, Fields, None, Some

LEMMA OpenclawVllmFrom ==
    ASSUME NEW a
    PROVE  LET s == OpenclawVllmYaml(a)  IN
           /\ From(s, OpenclawYaml(a), {"resize", "repos", "release", "debug", "variant"})
           /\ s.resize = Resize(160) /\ s.repos = <<[name |-> "os", https |-> TRUE]>>
           /\ s.release = ("release" \in a.variants)
           /\ s.debug = IF "debug" \in a.variants THEN {TRUE} ELSE {}
           /\ s.variant = IF "debug" \in a.variants THEN "debug" ELSE "release"
<1>1. DOMAIN OpenclawYaml(a) = Fields
    BY OpenclawFrom DEF From
<1> QED  BY <1>1 DEF OpenclawVllmYaml, Variants, From, Fields, None, Some

LEMMA AllinoneFrom ==
    ASSUME NEW a
    PROVE  LET s == AllinoneSpec(a)  IN
           IF a.stage # "deploy"
           THEN /\ From(s, CodexYaml(a), {"app", "ports", "connect", "repos", "ssh", "release",
                                          "debug", "variant", "resize", "resources"})
                /\ s.app = {"text"} /\ s.ports = <<>> /\ s.connect = <<>>
                /\ s.repos = <<[name |-> "os", https |-> TRUE]>>
                /\ s.ssh /\ s.release /\ s.debug = {} /\ s.variant = "release"
                /\ s.resize = Resize(80) /\ s.resources = {}
           ELSE /\ From(s, CodexYaml(a), {"app", "ports", "connect", "repos", "ssh", "release",
                                          "debug", "variant", "resize", "imageName", "sources",
                                          "packages", "rekor"})
                /\ s.app = {"text"}
                /\ s.ports = IF HasPort(a) THEN <<1>> ELSE <<>>
                /\ s.connect = IF HasPort(a) THEN CodexYaml(a).connect ELSE <<>>
<1>1. DOMAIN ClaudeCodeYaml(a) = Fields /\ From(ClaudeCodeYaml(a), CodexYaml(a), {"app", "ports", "connect"})
      /\ ClaudeCodeYaml(a).ports = <<>> /\ ClaudeCodeYaml(a).connect = <<>>
    BY ClaudeFrom DEF From
<1> QED  BY <1>1 DEF AllinoneSpec, WithoutBuild, From, Fields, None, Some

LEMMA FromCommon ==
    ASSUME NEW s, NEW t, NEW changed, NEW a, From(s, t, changed), Common(t, a),
           changed \cap Fixed = {},
           "app" \in changed => s.app \subseteq {"text"},
           "resources" \in changed => s.resources \subseteq AsResources(Secrets(a)),
           "a2a" \in changed => Unsigned(s)
    PROVE  Common(s, a)
<1>1. \A f \in Fixed : s[f] = t[f]
    BY DEF From, Fixed, Fields
<1>2. s.app \subseteq {"text"}
    BY DEF From, Fields, Common
<1>3. s.resources \subseteq AsResources(Secrets(a))
    BY DEF From, Fields, Common
<1>4. Unsigned(s)
  <2>1. CASE "a2a" \in changed
      BY <2>1
  <2>2. CASE "a2a" \notin changed
    <3>1. s.a2a = t.a2a
        BY <2>2 DEF From, Fields
    <3> QED  BY <3>1 DEF Common, Unsigned
  <2> QED  BY <2>1, <2>2
<1> QED  BY <1>1, <1>2, <1>3, <1>4 DEF Common, From

LEMMA TemplateCommon ==
    ASSUME NEW a, Accepted(a)
    PROVE  LET s == Template(a)  IN Common(s, a) /\ Ported(s, a) /\ Balanced(s, a.replicas)
<1> DEFINE s == Template(a)  c == CodexYaml(a)
<1>1. a.target \in Targets /\ a.replicas \in Nat \ {0}
      /\ (a.stage = "deploy" => HasPort(a) \/ a.replicas = 1)
    BY InitAssumption DEF Accepted, Arguments
<1>2. Common(c, a) /\ c.ports = <<1>> /\ c.connect = Port /\ c.replicas = 1 /\ c.slb = {}
    BY CodexFrom DEF Common, Port, Unsigned
<1>3. CASE a.target \in {"codex", "hermes"}
    BY <1>2, <1>3 DEF Template, HermesYaml, Ported, Balanced
<1>4. CASE a.target = "claudecode"
  <2>1. s = ClaudeCodeYaml(a)
      BY <1>4 DEF Template
  <2>2. Common(s, a)
      BY <2>1, <1>2, ClaudeFrom, FromCommon DEF Fixed
  <2>3. From(s, c, {"app", "ports", "connect"})
      BY <2>1, ClaudeFrom
  <2>4. s.replicas = c.replicas /\ s.slb = c.slb
      BY <2>3 DEF From, Fields
  <2> QED  BY <1>1, <1>2, <1>4, <2>1, <2>2, <2>4, ClaudeFrom DEF Ported, Balanced, HasPort
<1>5. CASE a.target = "openclaw"
  <2>1. s = OpenclawYaml(a)
      BY <1>5 DEF Template
  <2>2. Common(s, a)
      BY <2>1, <1>2, OpenclawFrom, FromCommon DEF Fixed, Unsigned
  <2>3. From(s, c, {"sources", "a2a"})
      BY <2>1, OpenclawFrom
  <2>4. s.ports = c.ports /\ s.connect = c.connect /\ s.replicas = c.replicas /\ s.slb = c.slb
      BY <2>3 DEF From, Fields
  <2> QED  BY <1>2, <2>2, <2>4 DEF Ported, Balanced
<1>6. CASE a.target = "openclaw-vllm"
  <2> DEFINE o == OpenclawYaml(a)
  <2>1. s = OpenclawVllmYaml(a)
      BY <1>6 DEF Template
  <2>2. Common(o, a)
      BY <1>2, OpenclawFrom, FromCommon DEF Fixed, Unsigned
  <2>3. Common(s, a)
      BY <2>1, <2>2, OpenclawVllmFrom, FromCommon DEF Fixed
  <2>4. /\ From(s, o, {"resize", "repos", "release", "debug", "variant"})
        /\ From(o, c, {"sources", "a2a"})
      BY <2>1, OpenclawFrom, OpenclawVllmFrom
  <2>5. o.ports = c.ports /\ o.connect = c.connect /\ o.replicas = c.replicas /\ o.slb = c.slb
      BY <2>4 DEF From, Fields
  <2>6. s.ports = o.ports /\ s.connect = o.connect /\ s.replicas = o.replicas /\ s.slb = o.slb
      BY <2>4 DEF From, Fields
  <2> QED  BY <1>2, <2>3, <2>5, <2>6 DEF Ported, Balanced
<1>7. CASE a.target = "vllm-inference"
  <2>1. s = VllmInferenceYaml(a)
      BY <1>7 DEF Template
  <2>2. Common(s, a)
      BY <2>1, <1>2, VllmFrom, FromCommon DEF Fixed
  <2>3. s.ports = c.ports
    <3>1. From(s, c, {"resize", "connect", "replicas", "slb",
                      "repos", "release", "debug", "variant"})
        BY <2>1, VllmFrom
    <3> QED  BY <3>1 DEF From, Fields
  <2>4. s.connect = OhttpPort /\ s.replicas = a.replicas
        /\ s.slb = IF a.replicas > 1 THEN {[enabled |-> TRUE, type |-> "alb"]} ELSE {}
      BY <2>1, VllmFrom DEF OhttpPort
  <2> QED  BY <1>1, <1>2, <2>2, <2>3, <2>4 DEF Ported, Balanced
<1>8. CASE a.target = "allinone"
  <2>1. s = AllinoneSpec(a)
      BY <1>8 DEF Template
  <2>2. Common(s, a)
      BY <2>1, <1>2, AllinoneFrom, FromCommon DEF Fixed
  <2>3. s.replicas = c.replicas /\ s.slb = c.slb
    <3>1. CASE a.stage # "deploy"
      <4>1. From(s, c, {"app", "ports", "connect", "repos", "ssh", "release",
                        "debug", "variant", "resize", "resources"})
          BY <2>1, <3>1, AllinoneFrom
      <4> QED  BY <4>1 DEF From, Fields
    <3>2. CASE a.stage = "deploy"
      <4>1. From(s, c, {"app", "ports", "connect", "repos", "ssh", "release",
                        "debug", "variant", "resize", "imageName", "sources",
                        "packages", "rekor"})
          BY <2>1, <3>2, AllinoneFrom
      <4> QED  BY <4>1 DEF From, Fields
    <3> QED  BY <3>1, <3>2
  <2>4. \/ s.ports = <<>> /\ s.connect = <<>> /\ (a.stage = "deploy" => ~HasPort(a))
        \/ s.ports = <<1>> /\ s.connect = Port
      BY <2>1, <1>2, AllinoneFrom
  <2> QED  BY <1>1, <1>2, <2>2, <2>3, <2>4 DEF Ported, Balanced
<1> QED  BY <1>1, <1>3, <1>4, <1>5, <1>6, <1>7, <1>8 DEF Targets

LEMMA TemplateBuildable ==
    ASSUME NEW a, Accepted(a), a.stage # "deploy"
    PROVE  Buildable(Template(a), a) /\ Template(a).packages = <<"git", "jq">>
<1> DEFINE s == Template(a)  c == CodexYaml(a)
<1>1. a.target \in Targets /\ a.variants \subseteq {"release", "debug"}
      /\ (a.target \in {"openclaw-vllm", "vllm-inference"} => a.variants # {})
    BY InitAssumption DEF Accepted, Arguments
<1>2. /\ c.image = {} /\ c.imageName = "text" /\ c.packages = <<"git", "jq">> /\ c.repos = <<>>
      /\ c.resize = Resize(30) /\ c.rekor = RekorBlock(a)
      /\ c.variant = "debug" /\ c.debug = {TRUE} /\ ~c.ssh
    BY CodexFrom
<1>3. CASE a.target \in {"codex", "hermes"}
    BY <1>2, <1>3 DEF Template, HermesYaml, Buildable, BaseDisk
<1>4. CASE a.target = "claudecode"
  <2>1. s = ClaudeCodeYaml(a) /\ From(s, c, {"app", "ports", "connect"})
      BY <1>4, ClaudeFrom DEF Template
  <2>2. /\ s.image = c.image /\ s.imageName = c.imageName /\ s.packages = c.packages
        /\ s.repos = c.repos /\ s.resize = c.resize /\ s.rekor = c.rekor
        /\ s.variant = c.variant /\ s.debug = c.debug /\ s.ssh = c.ssh
      BY <2>1 DEF From, Fields
  <2> QED  BY <1>2, <1>4, <2>2 DEF Buildable, BaseDisk
<1>5. CASE a.target = "openclaw"
  <2>1. s = OpenclawYaml(a) /\ From(s, c, {"sources", "a2a"})
      BY <1>5, OpenclawFrom DEF Template
  <2>2. /\ s.image = c.image /\ s.imageName = c.imageName /\ s.packages = c.packages
        /\ s.repos = c.repos /\ s.resize = c.resize /\ s.rekor = c.rekor
        /\ s.variant = c.variant /\ s.debug = c.debug /\ s.ssh = c.ssh
      BY <2>1 DEF From, Fields
  <2> QED  BY <1>2, <1>5, <2>2 DEF Buildable, BaseDisk
<1>6. CASE a.target = "openclaw-vllm"
  <2> DEFINE o == OpenclawYaml(a)
  <2>1. /\ s = OpenclawVllmYaml(a) /\ From(o, c, {"sources", "a2a"})
        /\ From(s, o, {"resize", "repos", "release", "debug", "variant"})
      BY <1>6, OpenclawFrom, OpenclawVllmFrom DEF Template
  <2>2. /\ o.image = c.image /\ o.imageName = c.imageName /\ o.packages = c.packages
        /\ o.rekor = c.rekor /\ o.ssh = c.ssh
      BY <2>1 DEF From, Fields
  <2>3. /\ s.image = o.image /\ s.imageName = o.imageName /\ s.packages = o.packages
        /\ s.rekor = o.rekor /\ s.ssh = o.ssh
      BY <2>1 DEF From, Fields
  <2>4. /\ s.resize = Resize(160) /\ s.repos = <<[name |-> "os", https |-> TRUE]>>
        /\ \/ s.variant = "release" /\ s.release
           \/ s.variant = "debug" /\ s.debug = {TRUE}
    <3>1. CASE "debug" \in a.variants
        BY <2>1, <3>1, OpenclawVllmFrom
    <3>2. CASE "debug" \notin a.variants
      <4>1. "release" \in a.variants
          BY <1>1, <1>6, <3>2
      <4> QED  BY <2>1, <3>2, <4>1, OpenclawVllmFrom
    <3> QED  BY <3>1, <3>2
  <2> QED  BY <1>2, <1>6, <2>2, <2>3, <2>4 DEF Buildable, BaseDisk
<1>7. CASE a.target = "vllm-inference"
  <2>1. /\ s = VllmInferenceYaml(a)
        /\ From(s, c, {"resize", "connect", "replicas", "slb",
                       "repos", "release", "debug", "variant"})
      BY <1>7, VllmFrom DEF Template
  <2>2. /\ s.image = c.image /\ s.imageName = c.imageName /\ s.packages = c.packages
        /\ s.rekor = c.rekor /\ s.ssh = c.ssh
      BY <2>1 DEF From, Fields
  <2>3. /\ s.resize = Resize(80) /\ s.repos = <<[name |-> "os", https |-> TRUE]>>
        /\ \/ s.variant = "release" /\ s.release
           \/ s.variant = "debug" /\ s.debug = {TRUE}
    <3>1. CASE "debug" \in a.variants
        BY <2>1, <3>1, VllmFrom
    <3>2. CASE "debug" \notin a.variants
      <4>1. "release" \in a.variants
          BY <1>1, <1>7, <3>2
      <4> QED  BY <2>1, <3>2, <4>1, VllmFrom
    <3> QED  BY <3>1, <3>2
  <2> QED  BY <1>2, <1>7, <2>2, <2>3 DEF Buildable, BaseDisk
<1>8. CASE a.target = "allinone"
  <2>1. /\ s = AllinoneSpec(a)
        /\ From(s, c, {"app", "ports", "connect", "repos", "ssh", "release",
                       "debug", "variant", "resize", "resources"})
      BY <1>8, AllinoneFrom DEF Template
  <2>2. /\ s.image = c.image /\ s.imageName = c.imageName /\ s.packages = c.packages
        /\ s.rekor = c.rekor
      BY <2>1 DEF From, Fields
  <2>3. /\ s.resize = Resize(80) /\ s.repos = <<[name |-> "os", https |-> TRUE]>>
        /\ s.variant = "release" /\ s.release
      BY <2>1, AllinoneFrom
  <2> QED  BY <1>2, <1>8, <2>2, <2>3 DEF Buildable, BaseDisk
<1> QED  BY <1>1, <1>3, <1>4, <1>5, <1>6, <1>7, <1>8 DEF Targets

\* The project that was generated
Generated(a) == Finished(Template(a), a)

LEMMA GeneratedCommon ==
    ASSUME NEW a, Accepted(a)
    PROVE  LET s == Generated(a)  IN
           /\ Common(s, a) /\ Ported(s, a)
           /\ a.stage # "deploy" => Buildable(s, a)
           /\ a.stage # "deploy" =>
                 s.packages \in {<<"git", "jq">>, Append(<<"git", "jq">>, "openssh-server")}
<1> DEFINE t == Template(a)  s == Generated(a)
<1>1. a.stage \in {"none", "build", "deploy"}
    BY InitAssumption DEF Accepted, Arguments
<1>2. Common(t, a) /\ Ported(t, a) /\ DOMAIN t = Fields
    BY TemplateCommon DEF Common
<1>3. CASE a.stage = "none"
  <2>1. s = t
      BY <1>3 DEF Generated, Finished
  <2> QED  BY <1>2, <1>3, <2>1, TemplateBuildable
<1>4. CASE a.stage = "build"
  <2> DEFINE changed == {"sources", "packages", "variant", "ssh", "release", "debug",
                         "resources", "replicas", "slb"}
  <2>1. s = FinishBuild(t, a)
      BY <1>4 DEF Generated, Finished
  <2>2. From(s, t, changed)
      BY <1>2, <2>1, BuildFrom
  <2>9. s.resources = {} /\ s.variant = "release" /\ s.release
      BY <1>2, <2>1, BuildFrom
  <2>3. Common(s, a)
      BY <1>2, <2>2, <2>9, FromCommon DEF Fixed
  <2>4. /\ s.ports = t.ports /\ s.connect = t.connect /\ s.image = t.image
        /\ s.imageName = t.imageName /\ s.repos = t.repos /\ s.resize = t.resize
        /\ s.rekor = t.rekor
      BY <2>2 DEF From, Fields
  <2>5. Buildable(t, a) /\ t.packages = <<"git", "jq">>
      BY <1>4, TemplateBuildable
  <2>6. s.packages \in {t.packages, Append(t.packages, "openssh-server")}
      BY <1>2, <2>1, BuildAdds
  <2>7. Ported(s, a)
      BY <1>2, <2>4 DEF Ported
  <2>8. Buildable(s, a)
      BY <2>4, <2>5, <2>9 DEF Buildable
  <2> QED  BY <2>3, <2>5, <2>6, <2>7, <2>8
<1>5. CASE a.stage = "deploy"
  <2>1. s = FinishDeploy(t, a)
      BY <1>5 DEF Generated, Finished
  <2>2. From(s, t, {"imageName", "sources", "packages", "repos", "release", "debug",
                    "resize", "variant", "ssh", "replicas", "slb", "rekor", "image"})
      BY <1>2, <2>1, DeployFrom
  <2>3. Common(s, a)
      BY <1>2, <2>2, FromCommon DEF Fixed
  <2>4. s.ports = t.ports /\ s.connect = t.connect
      BY <2>2 DEF From, Fields
  <2> QED  BY <1>2, <1>5, <2>3, <2>4 DEF Ported
<1> QED  BY <1>1, <1>3, <1>4, <1>5

\* Replicas are balanced, and the balancer suits the port
LEMMA GeneratedReplicas ==
    ASSUME NEW a, Accepted(a)
    PROVE  ReplicasAccepted(Generated(a))
<1> DEFINE t == Template(a)  s == Generated(a)
<1>1. a.stage \in {"none", "build", "deploy"} /\ a.replicas \in Nat \ {0}
    BY InitAssumption DEF Accepted, Arguments
<1>2. Balanced(t, a.replicas) /\ DOMAIN t = Fields
    BY TemplateCommon DEF Common
<1>3. Ported(s, a)
    BY GeneratedCommon
<1>4. \/ s.replicas = 1 /\ s.slb = {}
      \/ /\ s.replicas = a.replicas /\ a.replicas > 1
         /\ \/ s.slb = {[enabled |-> TRUE, type |-> "nlb"]} /\ s.connect # <<>>
            \/ s.slb = {[enabled |-> TRUE, type |-> "alb"]} /\ s.connect = OhttpPort
  <2>1. CASE a.stage = "none"
    <3>1. s = t
        BY <2>1 DEF Generated, Finished
    <3> QED  BY <1>2, <3>1 DEF Balanced
  <2>2. CASE a.stage = "build"
    <3>1. s = FinishBuild(t, a)
        BY <2>2 DEF Generated, Finished
    <3> QED  BY <1>2, <3>1, BuildFrom
  <2>3. CASE a.stage = "deploy"
    <3>1. s = FinishDeploy(t, a)
        BY <2>3 DEF Generated, Finished
    <3>2. /\ s.replicas = a.replicas
          /\ s.slb = IF a.replicas > 1 /\ t.slb = {}
                     THEN {[enabled |-> TRUE, type |-> "nlb"]} ELSE t.slb
        BY <1>2, <3>1, DeployFrom
    <3>3. From(s, t, {"imageName", "sources", "packages", "repos", "release", "debug",
                      "resize", "variant", "ssh", "replicas", "slb", "rekor", "image"})
        BY <1>2, <3>1, DeployFrom
    <3>4. s.connect = t.connect
        BY <3>3 DEF From, Fields
    <3>5. a.replicas > 1 => s.connect # <<>>
        BY <1>3, <2>3 DEF Ported, Port, OhttpPort
    <3> QED  BY <1>1, <1>2, <3>2, <3>4, <3>5 DEF Balanced
  <2> QED  BY <1>1, <2>1, <2>2, <2>3
<1>5. s.connect \in {<<>>, Port, OhttpPort}
    BY <1>3 DEF Ported
<1>6. \A i, j \in DOMAIN s.connect : i = j
    BY <1>5 DEF Port, OhttpPort
<1>7. s.connect = OhttpPort =>
          s.connect # <<>> /\ \A x \in Range(s.connect) : x.encryption = "ohttp"
    BY DEF OhttpPort, Range
<1>8. CASE s.replicas = 1 /\ s.slb = {}
    BY <1>8 DEF ReplicasAccepted, None
<1>9. CASE s.replicas = a.replicas /\ a.replicas > 1 /\ s.connect # <<>>
           /\ s.slb = {[enabled |-> TRUE, type |-> "nlb"]}
    BY <1>1, <1>6, <1>9 DEF ReplicasAccepted, None
<1>10. CASE s.replicas = a.replicas /\ a.replicas > 1 /\ s.connect = OhttpPort
            /\ s.slb = {[enabled |-> TRUE, type |-> "alb"]}
    BY <1>1, <1>6, <1>7, <1>10 DEF ReplicasAccepted, None
<1> QED  BY <1>4, <1>8, <1>9, <1>10

LEMMA RoundedUp ==
    ASSUME NEW n \in Nat, NEW m \in Nat \ {0}, NEW k \in Nat, n =< k * m
    PROVE  (n + m - 1) \div m =< k
OBVIOUS

LEMMA GeneratedResize ==
    ASSUME NEW a, Accepted(a)
    PROVE  Generated(a).resize \subseteq Resize(BaseDisk(a.target))
<1>1. CASE a.stage # "deploy"
    BY <1>1, GeneratedCommon DEF Buildable
<1>2. CASE a.stage = "deploy"
  <2>1. DOMAIN Template(a) = Fields
      BY TemplateCommon DEF Common
  <2>2. Generated(a) = FinishDeploy(Template(a), a)
      BY <1>2 DEF Generated, Finished
  <2> QED  BY <2>1, <2>2, DeployFrom
<1> QED  BY <1>1, <1>2

LEMMA DiskTyped ==
    ASSUME NEW a, Accepted(a)
    PROVE  Disk(a) \in Nat /\ BaseDisk(a.target) \in Nat /\ BaseDisk(a.target) >= 30
<1>1. a.target \in Targets /\ a.disk \subseteq Nat
    BY InitAssumption DEF Accepted, Arguments
<1>2. DefaultDisk(a) \in Nat
    BY <1>1 DEF DefaultDisk, Targets
<1>3. a.disk # {} => (CHOOSE d \in a.disk : TRUE) \in a.disk
    OBVIOUS
<1>4. BaseDisk(a.target) \in Nat /\ BaseDisk(a.target) >= 30
    BY <1>1 DEF BaseDisk, Targets
<1> QED  BY <1>1, <1>2, <1>3, <1>4 DEF Disk, None

\* An image of so many decimal gigabytes fits on a disk of as many binary ones
LEMMA GeneratedDisk ==
    ASSUME NEW a, Accepted(a), Disk(a) >= BaseDisk(a.target)
    PROVE  DiskAccepted(Generated(a))
<1> DEFINE s == Generated(a)
<1>2. Disk(a) \in Nat
    BY DiskTyped
<1>3. BaseDisk(a.target) \in Nat /\ BaseDisk(a.target) >= 30
    BY DiskTyped
<1>4. s.disk = {Disk(a)}
    BY GeneratedCommon, CodexFrom DEF Common, Fixed
<1>5. s.resize \subseteq Resize(BaseDisk(a.target))
    BY GeneratedResize
<1>6. ASSUME NEW size \in s.resize PROVE ImageDisk(size) =< Disk(a)
  <2> DEFINE n == BaseDisk(a.target)
  <2>1. size.number = n /\ size.unit = "GB"
      BY <1>5, <1>6 DEF Resize, Some
  <2>2. Bytes(size) = n * GB
      BY <2>1 DEF Bytes
  <2>3. n * GB \in Nat /\ n * GB =< n * GiB
      BY <1>3, UnitsAssumption
  <2> HIDE DEF n
  <2>4. ImageDisk(size) =< n
      BY <1>3, <2>2, <2>3, RoundedUp, UnitsAssumption DEF ImageDisk, n
  <2>5. ImageDisk(size) \in Int
      BY <2>2, <2>3, UnitsAssumption DEF ImageDisk
  <2> QED  BY <1>2, <1>3, <2>4, <2>5 DEF n
<1>7. \A d \in s.disk : d >= 20 /\ \A size \in s.resize : d >= ImageDisk(size)
  <2>1. \A size \in s.resize : ImageDisk(size) \in Int
      BY <1>5, <1>3, UnitsAssumption DEF ImageDisk, Bytes, Resize, Some
  <2> QED  BY <1>2, <1>3, <1>4, <1>6, <2>1
<1> QED  BY <1>7 DEF DiskAccepted

LEMMA GeneratedImage ==
    ASSUME NEW a, Accepted(a), a.stage = "deploy"
    PROVE  LET s == Generated(a)  IN
           /\ s.imageName = "blank" /\ s.sources = {} /\ s.packages = <<>> /\ s.repos = <<>>
           /\ s.debug = {} /\ s.resize = {} /\ s.variant = "release" /\ s.rekor = {}
           /\ s.image = {[release |-> TRUE, key |-> ~a.unverified, unverified |-> a.unverified,
                          manifest |-> a.manifest, imageId |-> a.imageId]}
<1>1. DOMAIN Template(a) = Fields
    BY TemplateCommon DEF Common
<1>2. Generated(a) = FinishDeploy(Template(a), a)
    BY DEF Generated, Finished
<1> QED  BY <1>1, <1>2, DeployFrom

\* What is validated: the paths resolved, and nothing else changed
LEMMA ResolvedFrom ==
    ASSUME NEW s, DOMAIN s = Fields
    PROVE  LET r == ResolvePaths(s)  IN
           /\ From(r, s, {"sources", "resources"})
           /\ r.sources = {ResolvedPath(f) : f \in s.sources}
           /\ \A x \in r.resources : \E y \in s.resources :
                 x = [y EXCEPT !.source = ResolvedPath(y.source)]
BY DEF ResolvePaths, From, Fields

LEMMA SecretsAccepted ==
    ASSUME NEW a, a.target \in Targets, NEW y \in AsResources(Secrets(a))
    PROVE  y.name \notin Reserved /\ y.absolute /\ DOMAIN y = {"name", "source", "absolute"}
<1>1. PICK f \in Secrets(a) : y = [name |-> f, source |-> f, absolute |-> TRUE]
    BY DEF AsResources
<1>2. HarnessSecrets(a) \subseteq {"config.toml", "app-server-token", "config.yaml",
                                   "openclaw.json", "claude.json", "opencode.json"}
  <2>1. CASE a.harness \in {"codex", "hermes", "openclaw", "claude-code", "opencode"}
      BY <2>1 DEF HarnessSecrets
  <2>2. CASE a.harness \notin {"codex", "hermes", "openclaw", "claude-code", "opencode"}
      BY <2>2 DEF HarnessSecrets
  <2> QED  BY <2>1, <2>2
<1>3. f \notin Reserved
    BY <1>2 DEF Secrets, Targets, Reserved
<1> QED  BY <1>1, <1>3

LEMMA GeneratedValid ==
    ASSUME NEW a, Accepted(a), StagedRekor = FALSE, Disk(a) >= BaseDisk(a.target),
           a.zone # "blank", a.imageId # "bad"
    PROVE  Validate(Generated(a))
<1> DEFINE s == Generated(a)  r == ResolvePaths(s)
<1>1. a.stage \in {"none", "build", "deploy"} /\ a.references \in {"sample", "rekor"}
      /\ a.unverified \in BOOLEAN /\ a.target \in Targets
    BY InitAssumption DEF Accepted, Arguments
<1>2. Common(s, a) /\ Ported(s, a) /\ DOMAIN s = Fields
    BY GeneratedCommon DEF Common
<1>3. From(r, s, {"sources", "resources"})
    BY <1>2, ResolvedFrom
<1> HIDE DEF s, r
<1>4. /\ r.id = s.id /\ r.app = s.app /\ r.imageName = s.imageName /\ r.packages = s.packages
      /\ r.repos = s.repos /\ r.releaseKey = s.releaseKey /\ r.zone = s.zone
      /\ r.mode = s.mode /\ r.ports = s.ports /\ r.connect = s.connect /\ r.mcp = s.mcp
      /\ r.ssh = s.ssh /\ r.release = s.release /\ r.debug = s.debug
    BY <1>3 DEF From, Fields
<1>5. /\ r.variant = s.variant /\ r.image = s.image /\ r.container = s.container
      /\ r.resize = s.resize /\ r.disk = s.disk /\ r.replicas = s.replicas /\ r.slb = s.slb
      /\ r.references = s.references /\ r.rekor = s.rekor /\ r.a2a = s.a2a
    BY <1>3 DEF From, Fields
<1>6. /\ s.id = "text" /\ s.zone = a.zone /\ s.mode = "challenge" /\ s.mcp = <<>>
      /\ ~s.releaseKey /\ s.container = {} /\ s.references = a.references
    BY <1>2, CodexFrom DEF Common, Fixed
<1>7. IdAccepted(r) /\ "blank" \notin r.app /\ r.zone # "blank"
    BY <1>2, <1>4, <1>6 DEF IdAccepted, Common
<1>8. DiskAccepted(r)
    BY <1>5, GeneratedDisk DEF DiskAccepted, s
<1>9. ReplicasAccepted(r)
    BY <1>4, <1>5, GeneratedReplicas DEF ReplicasAccepted, s
<1>10. PortsAccepted(r)
  <2>1. /\ r.mcp = <<>>
        /\ \/ r.ports = <<1>> /\ r.connect \in {Port, OhttpPort}
           \/ r.ports = <<>> /\ r.connect = <<>>
      BY <1>2, <1>4, <1>6 DEF Ported
  <2>2. Range(r.mcp) = {} /\ Distinct(r.mcp)
      BY <2>1 DEF Range, Distinct, IsInjective
  <2>3. CASE r.ports = <<1>> /\ r.connect \in {Port, OhttpPort}
    <3>1. Range(r.ports) = {1} /\ Distinct(r.ports)
        BY <2>3 DEF Range, Distinct, IsInjective
    <3>2. Ports(r.connect) = {1} /\ \A i, j \in DOMAIN r.connect : i = j
        BY <2>3 DEF Port, OhttpPort, Ports, Range
    <3> QED  BY <2>2, <3>1, <3>2 DEF PortsAccepted
  <2>4. CASE r.ports = <<>> /\ r.connect = <<>>
    <3>1. Range(r.ports) = {} /\ Distinct(r.ports)
        BY <2>4 DEF Range, Distinct, IsInjective
    <3>2. Ports(r.connect) = {} /\ \A i, j \in DOMAIN r.connect : i = j
        BY <2>4 DEF Ports, Range
    <3> QED  BY <2>2, <3>1, <3>2 DEF PortsAccepted
  <2> QED  BY <2>1, <2>3, <2>4
<1>11. ContainerAccepted(r)
    BY <1>5, <1>6 DEF ContainerAccepted
<1>12. ResourcesAccepted(r)
  <2> SUFFICES ASSUME NEW x \in r.resources
               PROVE  x.name \notin Reserved /\ x.source # "blank" /\ x.absolute
      BY DEF ResourcesAccepted
  <2>1. PICK y \in s.resources : x = [y EXCEPT !.source = ResolvedPath(y.source)]
      BY <1>2, ResolvedFrom DEF r
  <2>2. y \in AsResources(Secrets(a))
      BY <1>2 DEF Common
  <2>3. y.name \notin Reserved /\ y.absolute /\ DOMAIN y = {"name", "source", "absolute"}
      BY <1>1, <2>2, SecretsAccepted
  <2> QED  BY <2>1, <2>3 DEF ResolvedPath
<1>13. A2aAccepted(r)
  <2> SUFFICES ASSUME NEW x \in s.a2a
               PROVE  x.name # "blank" /\ x.ttl > 0 /\ InterfacesAccepted(r, x) /\ SigningAccepted(x)
      BY <1>5 DEF A2aAccepted
  <2>1. x.name = "text" /\ x.ttl = 1 /\ x.interfaces = <<>> /\ ~x.signing.required
      BY <1>2 DEF Common, Unsigned
  <2> QED  BY <2>1 DEF InterfacesAccepted, SigningAccepted, Range
<1>14. CASE a.stage # "deploy"
  <2>1. Buildable(s, a) /\ s.packages \in {<<"git", "jq">>, Append(<<"git", "jq">>, "openssh-server")}
      BY <1>14, GeneratedCommon DEF s
  <2>2. SshAccepted(r) /\ VariantAccepted(r)
      BY <1>4, <1>5, <1>6, <2>1 DEF SshAccepted, VariantAccepted, Buildable, None
  <2>3. ImageAccepted(r)
    <3>1. "blank" \notin r.sources
        BY <1>2, ResolvedFrom DEF ResolvedPath, r
    <3> QED  BY <1>4, <1>5, <2>1, <3>1 DEF ImageAccepted, Buildable, None
  <2>4. PackagesAccepted(r)
    <3>1. Range(r.packages) \subseteq {"git", "jq", "openssh-server"}
        BY <1>4, <2>1 DEF Range
    <3> QED  BY <3>1 DEF PackagesAccepted, Substituted
  <2>5. ReposAccepted(r)
      BY <1>4, <2>1 DEF ReposAccepted, Buildable, Range
  <2>6. RekorAccepted(r)
    <3>1. r.rekor = RekorBlock(a) /\ r.references = a.references
        BY <1>5, <1>6, <2>1 DEF Buildable
    <3>2. CASE a.references = "sample"
        BY <3>1, <3>2 DEF RekorAccepted, RekorBlock, None
    <3>3. CASE a.references = "rekor"
        BY <3>1, <3>3 DEF RekorAccepted, RekorBlock, None, Some
    <3> QED  BY <1>1, <3>2, <3>3
  <2> QED  BY <1>7, <1>8, <1>9, <1>10, <1>11, <1>12, <1>13, <2>2, <2>3, <2>4, <2>5, <2>6
           DEF Validate, Rules, r, s
<1>15. CASE a.stage = "deploy"
  <2>1. /\ s.imageName = "blank" /\ s.sources = {} /\ s.packages = <<>> /\ s.repos = <<>>
        /\ s.debug = {} /\ s.resize = {} /\ s.variant = "release" /\ s.rekor = {}
        /\ s.image = {[release |-> TRUE, key |-> ~a.unverified, unverified |-> a.unverified,
                       manifest |-> a.manifest, imageId |-> a.imageId]}
      BY <1>15, GeneratedImage DEF s
  <2>2. a.manifest # "short" /\ a.references = "sample"
      BY <1>1, <1>15 DEF Accepted, Given
  <2>3. SshAccepted(r) /\ VariantAccepted(r)
      BY <1>4, <1>5, <1>6, <2>1 DEF SshAccepted, VariantAccepted, None
  <2>4. ImageAccepted(r)
    <3>1. r.sources = {}
        BY <1>2, <2>1, ResolvedFrom DEF r
    <3>2. ~Built(r)
        BY <1>4, <1>5, <1>6, <2>1, <3>1 DEF Built, None
    <3>3. r.image = {[release |-> TRUE, key |-> ~a.unverified, unverified |-> a.unverified,
                      manifest |-> a.manifest, imageId |-> a.imageId]}
        BY <1>5, <2>1
    <3>4. \A i \in r.image : /\ i.release /\ (i.key \/ i.unverified)
                            /\ i.manifest # "short" /\ i.imageId # "bad"
      <4> SUFFICES ASSUME NEW i \in r.image
                   PROVE  /\ i.release /\ (i.key \/ i.unverified)
                          /\ i.manifest # "short" /\ i.imageId # "bad"
          OBVIOUS
      <4>1. i = [release |-> TRUE, key |-> ~a.unverified, unverified |-> a.unverified,
                 manifest |-> a.manifest, imageId |-> a.imageId]
          BY <3>3
      <4>2. i.release /\ i.key = ~a.unverified /\ i.unverified = a.unverified
            /\ i.manifest = a.manifest /\ i.imageId = a.imageId
          BY <4>1
      <4> QED  BY <1>1, <2>2, <4>2
    <3> QED  BY <3>2, <3>3, <3>4 DEF ImageAccepted, None
  <2>5. PackagesAccepted(r) /\ ReposAccepted(r)
      BY <1>4, <2>1 DEF PackagesAccepted, ReposAccepted, Range
  <2>6. RekorAccepted(r)
      BY <1>5, <1>6, <2>1, <2>2 DEF RekorAccepted
  <2> QED  BY <1>7, <1>8, <1>9, <1>10, <1>11, <1>12, <1>13, <2>3, <2>4, <2>5, <2>6
           DEF Validate, Rules, r, s
<1> QED  BY <1>14, <1>15

LEMMA TemplateSources ==
    ASSUME NEW a, Accepted(a), a.stage # "deploy"
    PROVE  Template(a).sources \subseteq Copied(a)
<1> DEFINE s == Template(a)  c == CodexYaml(a)
<1>1. a.target \in Targets
    BY InitAssumption DEF Accepted, Arguments
<1>2. c.sources = Copied(a)
    BY CodexFrom
<1>3. CASE a.target \in {"codex", "hermes"}
    BY <1>2, <1>3 DEF Template, HermesYaml
<1>4. CASE a.target = "claudecode"
  <2>1. From(s, c, {"app", "ports", "connect"})
      BY <1>4, ClaudeFrom DEF Template
  <2> QED  BY <1>2, <2>1 DEF From, Fields
<1>5. CASE a.target = "openclaw"
    BY <1>5, OpenclawFrom DEF Template
<1>6. CASE a.target = "openclaw-vllm"
  <2> DEFINE o == OpenclawYaml(a)
  <2>1. From(s, o, {"resize", "repos", "release", "debug", "variant"})
      BY <1>6, OpenclawVllmFrom DEF Template
  <2>2. s.sources = o.sources
      BY <2>1 DEF From, Fields
  <2> QED  BY <2>2, OpenclawFrom
<1>7. CASE a.target = "vllm-inference"
  <2>1. From(s, c, {"resize", "connect", "replicas", "slb",
                    "repos", "release", "debug", "variant"})
      BY <1>7, VllmFrom DEF Template
  <2> QED  BY <1>2, <2>1 DEF From, Fields
<1>8. CASE a.target = "allinone"
  <2>1. From(s, c, {"app", "ports", "connect", "repos", "ssh", "release",
                    "debug", "variant", "resize", "resources"})
      BY <1>8, AllinoneFrom DEF Template
  <2> QED  BY <1>2, <2>1 DEF From, Fields
<1> QED  BY <1>1, <1>3, <1>4, <1>5, <1>6, <1>7, <1>8 DEF Targets

\* What the writer of a project and the end of its stage have written
Written(a) ==
    (IF a.stage = "deploy" THEN {} ELSE Copied(a)) \cup (IF a.stage = "build" THEN {} ELSE Secrets(a))

LEMMA GeneratedFiles ==
    ASSUME NEW a, Accepted(a)
    PROVE  LET s == Generated(a)  IN
           s.sources \cup {r.source : r \in s.resources}
               \cup (IF \E i \in s.image : i.release THEN {"image-release.json"} ELSE {})
               \cup (IF \E i \in s.image : i.key THEN {"publisher.pem"} ELSE {})
           \subseteq Written(a) \cup FinishFiles(a)
<1> DEFINE t == Template(a)  s == Generated(a)
<1>1. a.stage \in {"none", "build", "deploy"} /\ a.unverified \in BOOLEAN
    BY InitAssumption DEF Accepted, Arguments
<1>2. Common(s, a)
    BY GeneratedCommon
<1>3. {r.source : r \in s.resources} \subseteq Secrets(a)
    BY <1>2 DEF Common, AsResources
<1>4. DOMAIN t = Fields
    BY TemplateCommon DEF Common
<1>5. CASE a.stage = "none"
  <2>1. s.sources \subseteq Copied(a)
      BY <1>5, TemplateSources DEF Generated, Finished
  <2>2. s.image = {}
      BY <1>5, GeneratedCommon DEF Buildable
  <2> QED  BY <1>3, <1>5, <2>1, <2>2 DEF Written
<1>6. CASE a.stage = "build"
  <2>1. s = FinishBuild(t, a)
      BY <1>6 DEF Generated, Finished
  <2>2. s.sources \subseteq Copied(a) \cup FinishFiles(a)
    <3>1. t.sources \subseteq Copied(a)
        BY <1>6, TemplateSources
    <3> QED  BY <1>4, <1>6, <2>1, <3>1, BuildAdds DEF FinishFiles
  <2>3. s.image = {} /\ s.resources = {}
      BY <1>4, <1>6, <2>1, GeneratedCommon, BuildFrom DEF Buildable
  <2> QED  BY <1>6, <2>2, <2>3 DEF Written
<1>7. CASE a.stage = "deploy"
  <2>1. /\ s.sources = {}
        /\ s.image = {[release |-> TRUE, key |-> ~a.unverified, unverified |-> a.unverified,
                       manifest |-> a.manifest, imageId |-> a.imageId]}
      BY <1>7, GeneratedImage
  <2>2. ASSUME NEW i \in s.image, i.key PROVE ~a.unverified
    <3>1. i = [release |-> TRUE, key |-> ~a.unverified, unverified |-> a.unverified,
               manifest |-> a.manifest, imageId |-> a.imageId]
        BY <2>1
    <3>2. i.key = ~a.unverified
        BY <3>1
    <3> QED  BY <1>1, <2>2, <3>2
  <2>3. FinishFiles(a) = {"image-release.json"} \cup (IF a.unverified THEN {} ELSE {"publisher.pem"})
      BY <1>7 DEF FinishFiles
  <2> QED  BY <1>3, <1>7, <2>1, <2>2, <2>3 DEF Written
<1> QED  BY <1>1, <1>5, <1>6, <1>7

----------------------------------------------------------------------------
(* The spec that is edited, and the card *)

\* The fields that the disk and the card are made from
ConnectPort == [port : Nat, encryption : {"rats-tls", "ohttp"}]
Shaped(s) ==
    /\ DOMAIN s = Fields
    /\ s.connect \in Seq(ConnectPort)
    /\ s.disk \subseteq Nat /\ s.resize \subseteq Size
    /\ \A x, y \in s.resize : x = y

LEMMA GeneratedShaped ==
    ASSUME NEW a, Accepted(a)
    PROVE  Shaped(Generated(a))
<1> DEFINE s == Generated(a)
<1>2. Common(s, a) /\ Ported(s, a)
    BY GeneratedCommon
<1>3. s.connect \in Seq(ConnectPort)
  <2>1. [port |-> 1, encryption |-> "rats-tls"] \in ConnectPort
        /\ [port |-> 1, encryption |-> "ohttp"] \in ConnectPort
      BY DEF ConnectPort
  <2>2. \A p \in ConnectPort : <<p>> \in Seq(ConnectPort)
      OBVIOUS
  <2>3. Port \in Seq(ConnectPort) /\ OhttpPort \in Seq(ConnectPort)
      BY <2>1, <2>2 DEF Port, OhttpPort
  <2>4. <<>> \in Seq(ConnectPort)
      OBVIOUS
  <2> QED  BY <1>2, <2>3, <2>4 DEF Ported
<1>4. s.disk = {Disk(a)}
    BY <1>2, CodexFrom DEF Common, Fixed
<1>5. Disk(a) \in Nat
    BY DiskTyped
<1>6. s.resize \subseteq Resize(BaseDisk(a.target))
    BY GeneratedResize
<1>7. BaseDisk(a.target) \in Nat
    BY DiskTyped
<1>8. s.resize \subseteq Size /\ \A x, y \in s.resize : x = y
    BY <1>6, <1>7 DEF Resize, Some, Size
<1> QED  BY <1>2, <1>3, <1>4, <1>5, <1>8 DEF Shaped, Common

Has(f, x, v) == x \in DOMAIN f /\ f[x] = v

LEMMA WithKeeps ==
    ASSUME NEW f, NEW g, NEW x, NEW v, Has(f, x, v)
    PROVE  Has(With(f, g), x, v)
BY DEF With, Has

LEMMA WithGains ==
    ASSUME NEW f, NEW g, NEW x, NEW v, x \notin DOMAIN f, Has(g, x, v)
    PROVE  Has(With(f, g), x, v)
BY DEF With, Has

LEMMA EditedFields ==
    /\ AgentSpec.connect = Seq(ConnectPort)
    /\ AgentSpec.disk = SUBSET Nat /\ AgentSpec.resize = SUBSET Size
<1> DEFINE b == With(ServiceSpec, BuildSpec)
<1>1. /\ Has(ServiceSpec, "connect", Seq(ConnectPort))
      /\ "resize" \notin DOMAIN ServiceSpec /\ "disk" \notin DOMAIN ServiceSpec
    BY DEF ServiceSpec, ConnectPort, Has
<1>2. Has(BuildSpec, "resize", SUBSET Size) /\ "disk" \notin DOMAIN BuildSpec
    BY DEF BuildSpec, Has
<1>3. Has(DeploySpec, "disk", SUBSET Nat)
    BY DEF DeploySpec, Has
<1>4. /\ Has(b, "connect", Seq(ConnectPort)) /\ Has(b, "resize", SUBSET Size)
      /\ "disk" \notin DOMAIN b
  <2>1. "disk" \notin DOMAIN b
      BY <1>1, <1>2 DEF With
  <2> QED  BY <1>1, <1>2, <2>1, WithKeeps, WithGains, Zenon
<1> HIDE DEF b
<1>5. AgentSpec = With(With(With(b, DeploySpec), AttestationSpec), A2aSpec)
    BY DEF AgentSpec, b
<1>6. Has(AgentSpec, "connect", Seq(ConnectPort))
    BY <1>4, <1>5, WithKeeps, Zenon
<1>7. Has(AgentSpec, "resize", SUBSET Size)
    BY <1>4, <1>5, WithKeeps, Zenon
<1>8. Has(AgentSpec, "disk", SUBSET Nat)
  <2>1. Has(With(b, DeploySpec), "disk", SUBSET Nat)
      BY <1>3, <1>4, WithGains, Zenon
  <2> QED  BY <1>5, <2>1, WithKeeps, Zenon
<1> QED  BY <1>6, <1>7, <1>8 DEF Has

LEMMA EditShaped ==
    ASSUME NEW field \in DOMAIN Edited, NEW v \in Edited[field], Shaped(spec)
    PROVE  Shaped([spec EXCEPT ![field] = v])
<1> DEFINE s == [spec EXCEPT ![field] = v]
<1>1. Edited[field] \subseteq AgentSpec[field]
    BY InitAssumption
<1>2. DOMAIN s = Fields /\ \A f \in Fields : s[f] = IF f = field THEN v ELSE spec[f]
    BY DEF Shaped
<1>3. s.connect = IF field = "connect" THEN v ELSE spec.connect
    BY <1>2 DEF Fields
<1>4. s.disk = IF field = "disk" THEN v ELSE spec.disk
    BY <1>2 DEF Fields
<1>5. s.resize = IF field = "resize" THEN v ELSE spec.resize
    BY <1>2 DEF Fields
<1>6. field = "resize" => \A x, y \in v : x = y
    BY InitAssumption DEF Optional
<1> QED  BY <1>1, <1>2, <1>3, <1>4, <1>5, <1>6, EditedFields DEF Shaped

\* What is accepted: the disk holds the image
LEMMA ResolvedFields ==
    ASSUME NEW s, DOMAIN s = Fields
    PROVE  LET r == ResolvePaths(s)  IN
           /\ r.disk = s.disk /\ r.resize = s.resize /\ r.connect = s.connect
           /\ r.ports = s.ports /\ r.a2a = s.a2a
<1>1. From(ResolvePaths(s), s, {"sources", "resources"})
    BY ResolvedFrom
<1> QED  BY <1>1 DEF From, Fields

LEMMA ImageDiskHolds ==
    ASSUME NEW size \in Size
    PROVE  ImageDisk(size) \in Nat /\ ImageDisk(size) * GiB >= Bytes(size) /\ Bytes(size) \in Nat
<1>1. Bytes(size) \in Nat
    BY UnitsAssumption DEF Bytes, Size
<1>2. ASSUME NEW n \in Nat, NEW m \in Nat \ {0} PROVE (n + m - 1) \div m \in Nat /\ ((n + m - 1) \div m) * m >= n
    OBVIOUS
<1> QED  BY <1>1, <1>2, UnitsAssumption DEF ImageDisk

LEMMA DiskHolds ==
    ASSUME NEW s, Shaped(s), Validate(s), NEW size \in s.resize
    PROVE  DeploymentDisk(s) * GiB >= Bytes(size)
<1>1. DiskAccepted(s)
    BY ResolvedFields DEF Validate, Rules, DiskAccepted, Shaped
<1>2. size \in Size /\ s.resize = {size}
    BY DEF Shaped
<1>3. ImageDisk(size) \in Nat /\ ImageDisk(size) * GiB >= Bytes(size) /\ Bytes(size) \in Nat
    BY <1>2, ImageDiskHolds
<1>4. DeploymentDisk(s) \in Nat /\ DeploymentDisk(s) >= ImageDisk(size)
  <2>1. CASE s.disk # None
    <3>1. (CHOOSE d \in s.disk : TRUE) \in s.disk
        BY <2>1 DEF None
    <3> QED  BY <1>1, <2>1, <3>1 DEF DeploymentDisk, DiskAccepted, Shaped
  <2>2. CASE s.disk = None
    <3> DEFINE D == {32} \cup {ImageDisk(z) : z \in s.resize}
    <3>1. D = {32, ImageDisk(size)}
        BY <1>2
    <3>2. \E d \in D : \A e \in D : d >= e
        BY <1>3, <3>1
    <3>3. DeploymentDisk(s) = CHOOSE d \in D : \A e \in D : d >= e
        BY <2>2 DEF DeploymentDisk
    <3>4. DeploymentDisk(s) \in D /\ \A e \in D : DeploymentDisk(s) >= e
        BY <3>2, <3>3
    <3> QED  BY <1>3, <3>1, <3>4
  <2> QED  BY <2>1, <2>2
<1>5. \A d \in Nat, k \in Nat, m \in Nat : d >= k => d * m >= k * m
    OBVIOUS
<1> QED  BY <1>3, <1>4, <1>5, UnitsAssumption

\* A card that is rendered from it passes the check of the peers
LEMMA CardFrom ==
    ASSUME NEW s, Shaped(s), Validate(s), NEW a \in s.a2a, NEW rekorMeta, Renderable(s, a, rekorMeta),
           RenderAgentCard(s, a).description # "blank"
    PROVE  CardAccepted(RenderAgentCard(s, a))
<1> DEFINE c == RenderAgentCard(s, a)
<1>1. A2aAccepted(ResolvePaths(s)) /\ PortsAccepted(ResolvePaths(s))
    BY DEF Validate, Rules
<1>2. /\ a.name # "blank"
      /\ \A i \in Range(a.interfaces) : i.binding # "blank"
      /\ 0 \notin Ports(s.connect)
  <2>1. 0 \notin Ports(s.connect)
      BY <1>1, ResolvedFields DEF PortsAccepted, Shaped
  <2>2. a \in ResolvePaths(s).a2a
      BY ResolvedFields DEF Shaped
  <2>3. a.name # "blank" /\ InterfacesAccepted(ResolvePaths(s), a)
      BY <1>1, <2>2 DEF A2aAccepted
  <2> QED  BY <2>1, <2>3 DEF InterfacesAccepted
<1>3. s.connect \in Seq(ConnectPort) /\ s.connect # <<>> /\ 1 \in DOMAIN s.connect
    BY DEF Shaped, Renderable
<1>4. Ports(s.connect) # {}
    BY <1>3 DEF Ports, Range
<1>5. CardInterfaces(s, a) # <<>> /\ \A i \in Range(CardInterfaces(s, a)) : i.binding # "blank"
  <2>1. CASE a.interfaces # <<>>
      BY <1>2, <2>1 DEF CardInterfaces
  <2>2. CASE a.interfaces = <<>>
    <3> DEFINE f == [i \in DOMAIN s.connect |-> [port |-> s.connect[i].port, binding |-> "text"]]
    <3>1. CardInterfaces(s, a) = f
        BY <2>2 DEF CardInterfaces
    <3>2. DOMAIN f = DOMAIN s.connect /\ \A i \in DOMAIN f : f[i].binding = "text"
        OBVIOUS
    <3>3. f # <<>>
        BY <1>3, <3>2
    <3>4. \A i \in Range(f) : i.binding # "blank"
        BY <3>2 DEF Range
    <3> QED  BY <3>1, <3>3, <3>4
  <2> QED  BY <2>1, <2>2
<1>6. /\ c.name = a.name /\ c.interfaces = CardInterfaces(s, a) /\ c.ports = Ports(s.connect)
    BY DEF RenderAgentCard
<1> QED  BY <1>2, <1>4, <1>5, <1>6 DEF CardAccepted

\* What init has at each of its steps, and what is known of the spec afterwards
AcceptedInv ==
    /\ pc \in {"guard", "keys", "write", "finish", "check", "generated"} => Accepted(args)
    /\ pc = "finish" => spec = Template(args) /\ files = Written(args)
    /\ pc \in {"check", "generated"} =>
          spec = Generated(args) /\ files = Written(args) \cup FinishFiles(args)
    /\ pc \in {"editing", "created", "delivered", "undelivered"} => Shaped(spec)
    /\ pc \in {"created", "delivered", "undelivered"} => Validate(spec)
    /\ RenderedAccepted

LEMMA StartAccepted ==
    ASSUME NEW a \in Argument, Given(a), ArgumentsAccepted(a), NEW answered, Resolved(a, answered)
    PROVE  Accepted(a)
<1>1. a.stage \in {"none", "build", "deploy"}
    BY InitAssumption DEF Arguments
<1>2. StageAccepted(a)
    BY DEF ArgumentsAccepted
<1>3. a.stage # "none" => Staged(a)
    BY <1>1, <1>2 DEF StageAccepted
<1>4. a.stage = "deploy" => a.manifest # "short" /\ (HasPort(a) \/ a.replicas = 1)
    BY <1>2 DEF StageAccepted
<1> QED  BY <1>3, <1>4 DEF Accepted, ArgumentsAccepted, Resolved, Staged

LEMMA InitAcceptedInv == ConnectInit => AcceptedInv
BY DEF ConnectInit, Init, AcceptedInv, RenderedAccepted, None

LEMMA NextAcceptedInv == AcceptedInv /\ [ConnectNext]_connectVars => AcceptedInv'
<1> SUFFICES ASSUME AcceptedInv, [ConnectNext]_connectVars PROVE AcceptedInv'
    OBVIOUS
<1>0. UNCHANGED card => RenderedAccepted'
    BY DEF AcceptedInv, RenderedAccepted
<1>1. CASE UNCHANGED publisher
    BY <1>0, <1>1 DEF AcceptedInv, publisher
<1>2. CASE Publish
    BY <1>2 DEF AcceptedInv, Publish, RenderedAccepted, None
<1>3. CASE pc = "idle" /\ \E a \in Argument : Start(a)
  <2>1. PICK a \in Argument : Start(a)
      BY <1>3
  <2>2. PICK answered \in BOOLEAN :
            IF ArgumentsAccepted(a) /\ Resolved(a, answered)
            THEN pc' = "guard" /\ args' = a
            ELSE pc' = "failed" /\ UNCHANGED args
      BY <2>1 DEF Start
  <2>3. pc' = "guard" => Accepted(args')
      BY <2>1, <2>2, StartAccepted DEF Start
  <2>4. pc' \in {"guard", "failed"} /\ UNCHANGED card
      BY <2>1, <2>2 DEF Start
  <2> QED  BY <1>0, <2>3, <2>4 DEF AcceptedInv
<1>4. CASE Replace
    BY <1>0, <1>4 DEF AcceptedInv, Replace
<1>5. CASE Keys
    BY <1>0, <1>5 DEF AcceptedInv, Keys
<1>6. CASE WriteProject
    BY <1>0, <1>6 DEF AcceptedInv, WriteProject, Written
<1>7. CASE Finish
    BY <1>0, <1>7 DEF AcceptedInv, Finish, Generated
<1>8. CASE Check
    BY <1>0, <1>8 DEF AcceptedInv, Check
<1>9. CASE Break
    BY <1>0, <1>9 DEF AcceptedInv, Break
<1>10. CASE Stop
  <2>1. pc = "generated" => Shaped(spec)
      BY GeneratedShaped DEF AcceptedInv
  <2>2. CASE pc = "failed"
      BY <1>0, <1>10, <2>2 DEF AcceptedInv, Stop
  <2>3. CASE pc = "generated"
      BY <1>0, <1>10, <2>1, <2>3 DEF AcceptedInv, Stop
  <2> QED  BY <1>10, <2>2, <2>3 DEF Stop
<1>11. CASE Edit
  <2>0. PICK field \in DOMAIN Edited : \E v \in Edited[field] : spec' = [spec EXCEPT ![field] = v]
      BY <1>11 DEF Edit
  <2>1. PICK v \in Edited[field] : spec' = [spec EXCEPT ![field] = v]
      BY <2>0
  <2>2. Shaped(spec)
      BY <1>11 DEF AcceptedInv, Edit
  <2>3. Shaped([spec EXCEPT ![field] = v])
      BY <2>2, EditShaped
  <2>4. Shaped(spec)'
      BY <2>1, <2>3
  <2> QED  BY <1>0, <1>11, <2>4 DEF AcceptedInv, Edit
<1>12. CASE Deploy
    BY <1>0, <1>12 DEF AcceptedInv, Deploy
<1>13. CASE Deliver
  <2>1. Shaped(spec) /\ Validate(spec) /\ spec' = spec /\ pc' \in {"delivered", "undelivered"}
      BY <1>13 DEF AcceptedInv, Deliver
  <2>2. RenderedAccepted'
    <3>1. CASE UNCHANGED card
        BY <1>0, <3>1
    <3>2. CASE card' # card
      <4>1. PICK rekorMeta, cosign :
                /\ \A a \in spec.a2a : a.enabled => Renderable(spec, a, rekorMeta) /\ Signed(a, cosign)
                /\ card' = {RenderAgentCard(spec, a) : a \in {b \in spec.a2a : b.enabled}}
          BY <1>13, <3>2 DEF Deliver
      <4> SUFFICES ASSUME NEW c \in card', c.description # "blank" PROVE CardAccepted(c)
          BY DEF RenderedAccepted
      <4>2. PICK a \in spec.a2a : a.enabled /\ c = RenderAgentCard(spec, a)
          BY <4>1
      <4>3. Renderable(spec, a, rekorMeta)
          BY <4>1, <4>2
      <4> QED  BY <2>1, <4>2, <4>3, CardFrom
    <3> QED  BY <3>1, <3>2
  <2> QED  BY <2>1, <2>2 DEF AcceptedInv
<1> QED  BY <1>1, <1>2, <1>3, <1>4, <1>5, <1>6, <1>7, <1>8, <1>9, <1>10, <1>11, <1>12, <1>13,
            PublisherSteps

LEMMA AcceptedFacts == AcceptedInv => NamedFilesWritten /\ RenderedAccepted /\ DiskHoldsImage
<1> SUFFICES ASSUME AcceptedInv PROVE NamedFilesWritten /\ RenderedAccepted /\ DiskHoldsImage
    OBVIOUS
<1>1. NamedFilesWritten
    BY GeneratedFiles DEF AcceptedInv, NamedFilesWritten
<1>2. DiskHoldsImage
    BY DiskHolds DEF AcceptedInv, DiskHoldsImage
<1> QED  BY <1>1, <1>2 DEF AcceptedInv

\* Whatever init is given and the operator edits, the spec that was generated
\* finds its files, an accepted spec has a disk that holds its image (spec.rs
\* configured_image_disk_gb, deployment_disk_gb) and a card that the peers accept
\* (agent_card.rs).
THEOREM AcceptedSpecServes ==
    ConnectSpec => [](NamedFilesWritten /\ RenderedAccepted /\ DiskHoldsImage)
BY InitAcceptedInv, NextAcceptedInv, AcceptedFacts, PTL DEF ConnectSpec

\* And the arguments that init accepted make a spec that validation accepts, when
\* it is already too late to keep the old project: but for what init hands on
\* without a look (Unchecked: a disk smaller than the image of a target that is
\* not staged, a blank zone, region or instance type, a malformed ID of the cloud
\* image), and for an instance that is staged for Rekor reference values
\* (init.rs cmd_init, resolve_project, staged.rs validate_args, finish).
THEOREM AcceptedStaysAccepted ==
    ASSUME StagedRekor = FALSE
    PROVE  ConnectSpec => []AcceptedOnward
<1>1. AcceptedInv => AcceptedOnward
  <2> SUFFICES ASSUME AcceptedInv PROVE AcceptedOnward
      OBVIOUS
  <2>1. GeneratedAccepted
    <3> SUFFICES ASSUME pc = "check", ~Unchecked(args)
                 PROVE  Validate(spec)
        BY DEF GeneratedAccepted
    <3>1. Accepted(args) /\ spec = Generated(args)
        BY DEF AcceptedInv
    <3>2. Disk(args) >= BaseDisk(args.target)
        BY <3>1, DiskTyped DEF Accepted, Unchecked
    <3>3. args.zone # "blank" /\ args.imageId # "bad"
        BY DEF Unchecked
    <3> QED  BY <3>1, <3>2, <3>3, GeneratedValid
  <2> QED  BY <2>1, AcceptedFacts DEF AcceptedOnward
<1> QED  BY <1>1, InitAcceptedInv, NextAcceptedInv, PTL DEF ConnectSpec

=============================================================================
