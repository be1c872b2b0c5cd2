------------------------------ MODULE GuestMesh ------------------------------
(* The mesh loop of confidential-agentd (daemon/src/app.rs): one guest turns
   the mesh bundles it receives into local endpoints for its applications.
   A peer's port r gets a local endpoint that is reserved for it for ever in
   the persistent daemon state; behind it the gateway process forwards to a
   listener of the TNG process, whose ports are allocated anew by every plan,
   and TNG connects to the peer.  Directory, gateway and TNG are updated one
   after the other, each step can fail, the daemon can die between any two of
   them, the guest can lose power, and the state file can be damaged: then the
   daemon goes into management recovery until the operator restores it.

   A bundle is [generation, self: ports of this service, routes: ports of the
   active peers, connect: the routes their peers offer in connect mode].      *)
EXTENDS Naturals

CONSTANTS
    Peer,            \* services, numbered in the order of their ids
    Declared,        \* ports a service may declare
    Control,         \* ports of the daemon itself and of TNG's control socket
    EgressBase, GatewayBase, IngressBase, ClientBase, Last,
    Offer,           \* contents of the bundles the host may deliver
    Boot,            \* application ports a delivered bootstrap may declare
    None, Missing, Damaged,
    MaxDeliveries, MaxDeaths, MaxFailures, MaxDamage   \* bounds

Port == 1..Last
Route == Peer \X Declared
Bundle == [generation : 1..MaxDeliveries, self : SUBSET Declared,
           routes : SUBSET Route, connect : SUBSET Route]

ASSUME GuestAssumption ==
    /\ Peer \subseteq Nat
    /\ Last \in Nat /\ Declared \subseteq Port /\ Control \subseteq Port
    /\ {EgressBase, GatewayBase, IngressBase, ClientBase} \subseteq Port
    /\ Boot \subseteq SUBSET Declared
    /\ Offer \subseteq [self : SUBSET Declared, routes : SUBSET Route, connect : SUBSET Route]
    /\ None \notin Boot /\ None \notin Bundle /\ Missing # Damaged
    /\ {MaxDeliveries, MaxDeaths, MaxFailures, MaxDamage} \subseteq Nat

VARIABLES
    bundle,      \* the mesh bundle in the resource tree, or None
    boot,        \* the ports of the bootstrap in the resource tree, or None
    sent,        \* what the host delivered last
    booted,      \* history: the ports of every bootstrap delivered
    stateFile,   \* state.json: a daemon state, Missing or Damaged
    initialized, \* the marker file, or mesh outputs, exist
    saved,       \* the state last written completely: what an operator can restore
    pc,          \* where the daemon is
    state,       \* DaemonState in memory
    active,      \* active_bootstrap: ports of the applied bootstrap, or None
    plan,        \* the port plan in progress
    directory,   \* service-directory.json
    files,       \* gateway.json and TNG's config.json
    running,     \* the gateway and TNG processes
    promised,    \* history: every entry a directory ever had
    spent        \* used up bounds

disk == <<stateFile, initialized, saved>>
services == <<directory, files, running, promised>>
inputs == <<bundle, boot, sent, booted>>
vars == <<inputs, disk, pc, state, active, plan, services, spent>>

Nothing == [r \in Route |-> 0]
Values(f) == {f[r] : r \in Route} \ {0}
Extends(f, g) == \A r \in Route : g[r] # 0 => f[r] = g[r]

\* DaemonState, as far as the mesh needs it: mesh_client_ports, and what the
\* two services were last started with.
NoGateway == [generation |-> 0, routes |-> {}]
FreshState == [ports |-> Nothing, gateway |-> NoGateway, tng |-> {}]
ASSUME FreshAssumption == None # FreshState
Stopped == [up |-> FALSE, serving |-> {}]
NoPlan == [bundle |-> None, ports |-> Nothing, self |-> {}, ingress |-> Nothing,
           todo |-> {}, selfTodo |-> {}]

Spend(what) == spent' = [spent EXCEPT ![what] = @ + 1]

-----------------------------------------------------------------------------
(* The persistent state *)

Readable(f) == f \notin {Missing, Damaged}

\* write_daemon_state: the marker first, then the state, replaced atomically
WriteState(s) ==
    /\ initialized' = TRUE
    /\ stateFile' = s
    /\ saved' = s

\* read_daemon_state
ReadStateTrusting ==
    IF Readable(stateFile) THEN stateFile
    ELSE IF stateFile = Missing THEN FreshState
    ELSE None
ReadState ==
    IF Readable(stateFile) THEN stateFile
    ELSE IF stateFile = Missing /\ ~initialized THEN FreshState
    ELSE None

Start ==
    /\ pc = "down"
    /\ IF ReadState # None
       THEN /\ state' = ReadState /\ WriteState(ReadState)
            /\ pc' = "idle" /\ UNCHANGED running
       ELSE /\ pc' = "recovery" /\ UNCHANGED <<state, disk>>
            \* stopping the services may fail and is only reported
            /\ running' \in {running, [gateway |-> Stopped, tng |-> Stopped]}
    /\ UNCHANGED <<inputs, active, plan, directory, files, promised, spent>>

\* recover_daemon_state tries again until the state can be read
Recover ==
    /\ pc = "recovery"
    /\ ReadState # None
    /\ state' = ReadState /\ WriteState(ReadState)
    /\ pc' = "idle"
    /\ UNCHANGED <<inputs, active, plan, services, spent>>

-----------------------------------------------------------------------------
(* One round of run_daemon: apply the bootstrap, plan, persist, publish, save *)

\* validate_mesh_client_reservations
PortsFree(ports) == ports \cap Values(state.ports) = {}

\* apply_bootstrap, without the resources: a bootstrap whose ports are already
\* reserved for a peer is refused and the previous one stays active.
ApplyBootstrap ==
    /\ pc = "idle"
    /\ active' = IF boot # None /\ PortsFree(boot) THEN boot ELSE active
    /\ pc' = IF active' = None THEN "save" ELSE "sync"
    /\ UNCHANGED <<inputs, disk, state, plan, services, spent>>

\* sync_mesh without a bundle publishes an empty mesh; with one it checks the
\* reservations against the bootstrap and the bundle, and plans on a copy.
SyncMesh ==
    /\ pc = "sync"
    /\ IF bundle = None
       THEN pc' = "directory" /\ plan' = [NoPlan EXCEPT !.ports = state.ports]
            /\ UNCHANGED initialized
       ELSE /\ initialized' = TRUE    \* the bundle is cached
            /\ IF PortsFree(active) /\ PortsFree(bundle.self)
               THEN pc' = "plan" /\ plan' = [NoPlan EXCEPT
                        !.bundle = bundle, !.ports = state.ports,
                        !.todo = bundle.routes, !.selfTodo = bundle.self]
               ELSE pc' = "save" /\ UNCHANGED plan
    /\ UNCHANGED <<inputs, stateFile, saved, state, active, services, spent>>

Least(S) == CHOOSE p \in S : \A q \in S : p <= q
Precedes(r, q) == r[1] < q[1] \/ (r[1] = q[1] /\ r[2] <= q[2])
FirstRoute(S) == CHOOSE r \in S : \A q \in S : Precedes(r, q)

\* `used' of runtime_port_plan_with_registry: what an internal listener must avoid
Inner(p) == {s.egress : s \in p.self} \cup {s.gateway : s \in p.self} \cup Values(p.ingress)
Used(p) == Control \cup p.bundle.self \cup {r[2] : r \in p.bundle.routes}
           \cup Values(p.ports) \cup Inner(p)
\* `client_ports': what a client endpoint must avoid
Done(p) == p.bundle.routes \ p.todo
ClientPorts(p) == Control \cup p.bundle.self \cup {p.ports[r] : r \in Done(p)}

\* allocate_internal_port: the lowest free port of a pool
Free(base, used) == (base..Last) \ used

\* One port of this service: a TNG egress listener and a gateway listener
PlanSelf(port) ==
    LET egress == Free(EgressBase, Used(plan))
        gateway == Free(GatewayBase, Used(plan) \cup {Least(egress)})
    IN  IF egress = {} \/ gateway = {}
        THEN pc' = "save" /\ plan' = NoPlan
        ELSE pc' = pc /\ plan' = [plan EXCEPT !.selfTodo = @ \ {port},
                !.self = @ \cup {[port |-> port, egress |-> Least(egress),
                                  gateway |-> Least(gateway)]}]

\* The local endpoint of a route: its reservation, or else the peer's own port
\* when no reservation and no listener of the guest has it, or else a free one
LocalPorts(r) ==
    IF plan.ports[r] # 0 THEN {plan.ports[r]} \ ClientPorts(plan)
    ELSE IF r[2] \notin Values(plan.ports) \cup ClientPorts(plan) THEN {r[2]}
    ELSE Free(ClientBase, Used(plan))

IngressPorts(r, local) ==
    IF r \in plan.bundle.connect THEN {local}
    ELSE Free(IngressBase, Used(plan) \cup {local})

PlanPeer(r) ==
    LET local == Least(LocalPorts(r))
        ingress == IngressPorts(r, local)
    IN  IF LocalPorts(r) = {} \/ ingress = {}
        THEN pc' = "save" /\ plan' = NoPlan
        ELSE pc' = pc /\ plan' = [plan EXCEPT !.todo = @ \ {r}, !.ports[r] = local,
                                              !.ingress[r] = Least(ingress)]

PlanStep ==
    /\ pc = "plan"
    /\ IF plan.selfTodo # {} THEN PlanSelf(Least(plan.selfTodo))
       ELSE plan.todo # {} /\ PlanPeer(FirstRoute(plan.todo))
    /\ UNCHANGED <<inputs, disk, state, active, services, spent>>

Persisting == pc = "plan" /\ plan.selfTodo = {} /\ plan.todo = {}

\* "Persist reservations before replacing listeners"
PersistLater ==
    /\ Persisting
    /\ state' = [state EXCEPT !.ports = plan.ports]
    /\ pc' = "directory"
    /\ UNCHANGED <<inputs, disk, active, plan, services, spent>>
Persist ==
    /\ Persisting
    /\ state' = [state EXCEPT !.ports = plan.ports]
    /\ WriteState(state')
    /\ pc' = "directory"
    /\ UNCHANGED <<inputs, active, plan, services, spent>>

\* What the gateway and TNG are told of the plan.  TNG's file also holds the
\* reference values of the peers, which cause more restarts with the same
\* listeners; that difference is left out.
Routes(p) == IF p.bundle = None THEN {} ELSE p.bundle.routes
DirectoryOf(p) == {[listen |-> p.ports[r], route |-> r] : r \in Routes(p)}
GatewayConfig(p) ==
    IF p.bundle = None THEN NoGateway
    ELSE [generation |-> p.bundle.generation,
          routes |-> {[listen |-> p.ports[r], out |-> p.ingress[r], route |-> r] :
                        r \in p.bundle.routes \ p.bundle.connect}]
TngConfig(p) == {[listen |-> p.ingress[r], route |-> r, direct |-> r \in p.bundle.connect] :
                        r \in Routes(p)}

WriteServiceDirectory ==
    /\ pc = "directory"
    /\ directory' = DirectoryOf(plan)
    /\ promised' = promised \cup directory'
    /\ initialized' = TRUE
    /\ pc' = "gateway"
    /\ UNCHANGED <<inputs, stateFile, saved, state, active, plan, files, running, spent>>

\* A process binds the listeners of its configuration that nobody else has
Serve(config, other) ==
    [up |-> TRUE, serving |-> {e \in config : \A x \in other.serving : x.listen # e.listen}]

\* sync_gateway_service: restarted when the file changed, when it was last
\* started with something else, or when it is not active
SyncGatewayOnChange ==
    /\ pc = "gateway"
    /\ LET config == GatewayConfig(plan) IN
       /\ files' = [files EXCEPT !.gateway = config]
       /\ state' = [state EXCEPT !.gateway = config]
       /\ running' = IF files.gateway = config THEN running
                     ELSE [running EXCEPT !.gateway = Serve(config.routes, running.tng)]
    /\ pc' = "tng"
    /\ UNCHANGED <<inputs, disk, active, plan, directory, promised, spent>>
SyncGateway ==
    /\ pc = "gateway"
    /\ LET config == GatewayConfig(plan) IN
       /\ files' = [files EXCEPT !.gateway = config]
       /\ state' = [state EXCEPT !.gateway = config]
       /\ running' = IF files.gateway = config /\ state.gateway = config /\ running.gateway.up
                     THEN running
                     ELSE [running EXCEPT !.gateway = Serve(config.routes, running.tng)]
    /\ pc' = "tng"
    /\ UNCHANGED <<inputs, disk, active, plan, directory, promised, spent>>

SyncTng ==
    /\ pc = "tng"
    /\ LET config == TngConfig(plan) IN
       /\ files' = [files EXCEPT !.tng = config]
       /\ state' = [state EXCEPT !.tng = config]
       /\ running' = IF files.tng = config /\ state.tng = config /\ running.tng.up
                     THEN running
                     ELSE [running EXCEPT !.tng = Serve(config, running.gateway)]
    /\ pc' = "save"
    /\ UNCHANGED <<inputs, disk, active, plan, directory, promised, spent>>

\* The end of the round
SaveState ==
    /\ pc = "save"
    /\ WriteState(state)
    /\ plan' = NoPlan
    /\ pc' = "idle"
    /\ UNCHANGED <<inputs, state, active, services, spent>>

-----------------------------------------------------------------------------
(* What goes wrong *)

\* A step that replaces a service's file and restarts it ends half way: the old
\* file, or the new file and the service stopped, restarted or still as it was.
HalfDone ==
    \/ UNCHANGED <<files, running>>
    \/ /\ pc = "gateway"
       /\ files' = [files EXCEPT !.gateway = GatewayConfig(plan)]
       /\ \E g \in {running.gateway, Stopped, Serve(files'.gateway.routes, running.tng)} :
             running' = [running EXCEPT !.gateway = g]
    \/ /\ pc = "tng"
       /\ files' = [files EXCEPT !.tng = TngConfig(plan)]
       /\ \E t \in {running.tng, Stopped, Serve(files'.tng, running.gateway)} :
             running' = [running EXCEPT !.tng = t]

\* A write or a restart fails and the round ends with an error
Fail ==
    /\ spent.failures < MaxFailures /\ Spend("failures")
    /\ Persisting \/ pc \in {"directory", "gateway", "tng", "save"}
    /\ HalfDone
    /\ state' = IF Persisting THEN [state EXCEPT !.ports = plan.ports] ELSE state
    /\ plan' = IF pc = "save" THEN NoPlan ELSE plan
    /\ pc' = IF pc = "save" THEN "idle" ELSE "save"
    /\ UNCHANGED <<inputs, disk, active, directory, promised>>

\* The very first start dies after the marker and before the state
StartInterrupted ==
    /\ pc = "down" /\ stateFile = Missing /\ ~initialized
    /\ spent.deaths < MaxDeaths /\ Spend("deaths")
    /\ initialized' = TRUE
    /\ UNCHANGED <<inputs, stateFile, saved, pc, state, active, plan, services>>

Die ==
    /\ pc # "down"
    /\ spent.deaths < MaxDeaths /\ Spend("deaths")
    /\ pc' = "down" /\ active' = None /\ plan' = NoPlan /\ state' = FreshState

\* The daemon dies; the gateway and TNG go on
Crash ==
    /\ Die /\ HalfDone
    /\ UNCHANGED <<inputs, disk, directory, promised>>

\* The guest loses power, and with it the resource tree in /run.  A state that
\* was being written may be damaged; the services start from their files, in
\* either order.
PowerLoss ==
    /\ Die
    /\ \/ UNCHANGED files
       \/ pc = "gateway" /\ files' = [files EXCEPT !.gateway = GatewayConfig(plan)]
       \/ pc = "tng" /\ files' = [files EXCEPT !.tng = TngConfig(plan)]
    /\ IF pc = "save" \/ Persisting
       THEN initialized' = TRUE /\ stateFile' \in {stateFile, Damaged}
       ELSE UNCHANGED <<initialized, stateFile>>
    /\ LET gateway == Serve(files'.gateway.routes, Stopped)
           tng == Serve(files'.tng, Stopped)
       IN  running' \in {[gateway |-> gateway, tng |-> Serve(files'.tng, gateway)],
                         [gateway |-> Serve(files'.gateway.routes, tng), tng |-> tng]}
    /\ bundle' = None /\ boot' = None
    /\ UNCHANGED <<sent, booted, saved, directory, promised>>

\* Somebody damages or deletes state.json
Damage ==
    /\ spent.damage < MaxDamage /\ Spend("damage")
    /\ initialized
    /\ \E f \in {Missing, Damaged} : stateFile' = f
    /\ UNCHANGED <<inputs, initialized, saved, pc, state, active, plan, services>>

\* The operator restores the original state, over the recovery SSH
Restore ==
    /\ pc = "recovery" /\ ~Readable(stateFile)
    /\ stateFile' = saved
    /\ UNCHANGED <<inputs, initialized, saved, pc, state, active, plan, services, spent>>

-----------------------------------------------------------------------------
(* What the host delivers, in any order and at any time *)

DeliverBootstrap ==
    /\ spent.deliveries < MaxDeliveries /\ Spend("deliveries")
    /\ \E b \in Boot \ {sent.boot} :
          boot' = b /\ sent' = [sent EXCEPT !.boot = b] /\ booted' = booted \cup {b}
    /\ UNCHANGED <<bundle, disk, pc, state, active, plan, services>>

\* Bundles are rendered from the service states on the host, which follow the
\* bootstrap: they may still list this service's previous ports.  Every mesh
\* sync has the next generation.
DeliverMesh ==
    /\ spent.deliveries < MaxDeliveries /\ Spend("deliveries")
    /\ \E o \in {x \in Offer : x.self \in booted} :
          bundle' = [generation |-> IF sent.bundle = None THEN 1 ELSE sent.bundle.generation + 1,
                     self |-> o.self, routes |-> o.routes, connect |-> o.connect]
    /\ sent' = [sent EXCEPT !.bundle = bundle']
    /\ UNCHANGED <<boot, booted, disk, pc, state, active, plan, services>>

\* What was delivered is fetched again from Trustee, or injected once more
Fetch ==
    /\ \/ boot' = sent.boot /\ UNCHANGED bundle
       \/ bundle' = sent.bundle /\ UNCHANGED boot
    /\ <<bundle', boot'>> # <<bundle, boot>>
    /\ UNCHANGED <<sent, booted, disk, pc, state, active, plan, services, spent>>

Init ==
    /\ bundle = None /\ boot = None /\ sent = [bundle |-> None, boot |-> None] /\ booted = {}
    /\ stateFile = Missing /\ initialized = FALSE /\ saved = FreshState
    /\ pc = "down" /\ state = FreshState /\ active = None /\ plan = NoPlan
    /\ directory = {} /\ promised = {}
    /\ files = [gateway |-> NoGateway, tng |-> {}]
    /\ running = [gateway |-> Stopped, tng |-> Stopped]
    /\ spent = [deliveries |-> 0, deaths |-> 0, failures |-> 0, damage |-> 0]

Daemon ==
    \/ Start \/ Recover \/ ApplyBootstrap \/ SyncMesh \/ PlanStep \/ Persist
    \/ WriteServiceDirectory \/ SyncGateway \/ SyncTng \/ SaveState

Next ==
    \/ Daemon \/ Fail \/ StartInterrupted \/ Crash \/ PowerLoss \/ Damage \/ Restore
    \/ DeliverBootstrap \/ DeliverMesh \/ Fetch

Spec == Init /\ [][Next]_vars

\* The daemon's loop goes on by itself (its wait has a timeout), systemd starts
\* it again when it dies, what was lost with the power is fetched or injected
\* again, and the operator restores a damaged state.
FairSpec == Spec /\ WF_vars(Daemon) /\ WF_vars(Fetch) /\ WF_vars(Restore)

-----------------------------------------------------------------------------
(* The data path *)

\* Where a connection to a local port ends: through the gateway and one of
\* TNG's hidden listeners, where the receiving gateway compares the token's
\* audience with its own service and port (verify_service_token), or directly
\* through TNG in connect mode.
AcceptsAny(g, t) == TRUE
Accepts(g, t) == t.direct \/ t.route = g.route
Reached(port) ==
    LET via == {g \in running.gateway.serving : g.listen = port}
        at(p) == {t \in running.tng.serving : t.listen = p}
    IN  {t.route : t \in {x \in at(port) : x.direct}}
        \cup {t.route : t \in UNION {{x \in at(g.out) : Accepts(g, x)} : g \in via}}

-----------------------------------------------------------------------------
(* Properties *)

Registry == [Route -> 0..Last]
Entry == [listen : Port, route : Route]
GatewayEntry == [listen : Port, out : Port, route : Route]
TngEntry == [listen : Port, route : Route, direct : BOOLEAN]
GatewayFile == [generation : 0..MaxDeliveries, routes : SUBSET GatewayEntry]
TngFile == SUBSET TngEntry
Process(entries) == [up : BOOLEAN, serving : SUBSET entries]
Services == [gateway : Process(GatewayEntry), tng : Process(TngEntry)]
DaemonState == [ports : Registry, gateway : GatewayFile, tng : TngFile]
Plan == [bundle : Bundle \cup {None}, ports : Registry, ingress : Registry,
         self : SUBSET [port : Declared, egress : Port, gateway : Port],
         todo : SUBSET Route, selfTodo : SUBSET Declared]
TypeOK ==
    /\ bundle \in Bundle \cup {None} /\ boot \in Boot \cup {None}
    /\ sent \in [bundle : Bundle \cup {None}, boot : Boot \cup {None}]
    /\ booted \subseteq Boot /\ active \in Boot \cup {None}
    /\ initialized \in BOOLEAN
    /\ stateFile \in DaemonState \cup {Missing, Damaged}
    /\ saved \in DaemonState /\ state \in DaemonState
    /\ pc \in {"down", "recovery", "idle", "sync", "plan", "directory", "gateway", "tng", "save"}
    /\ plan \in Plan
    /\ directory \subseteq Entry /\ promised \subseteq Entry
    /\ files \in [gateway : GatewayFile, tng : TngFile]
    /\ running \in Services

\* A local endpoint that was ever published belongs to one port of one peer for
\* ever, and that port keeps its endpoint: whatever bundles arrive, however the
\* publishing steps fail, and across deaths, power loss and damaged state
\* ("Even a failed restart must never give a previously published endpoint to
\* a different peer").
EndpointKeepsPeer ==
    \A e, f \in promised : e.listen = f.listen <=> e.route = f.route

\* An application that uses a published endpoint, however old, reaches the peer
\* it was published for or nobody, while gateway and TNG are between two
\* configurations or one of them could not be restarted.
ReachesTarget == \A e \in promised : Reached(e.listen) \subseteq {e.route}

\* The listeners of a finished plan do not collide: endpoints, hidden TNG and
\* gateway listeners, application and control ports are pairwise different,
\* except that a connect route's endpoint is TNG's listener.
ListenersDistinct ==
    pc \in {"directory", "gateway", "tng"} /\ plan.bundle # None =>
        LET routes == plan.bundle.routes
            own == Control \cup plan.bundle.self
            ends == {plan.ports[r] : r \in routes}
            hidden == {plan.ingress[r] : r \in routes \ plan.bundle.connect}
        IN  /\ \A r, q \in routes : plan.ports[r] = plan.ports[q]
                                     \/ plan.ingress[r] = plan.ingress[q] => r = q
            /\ ends \cap (own \cup hidden) = {} /\ hidden \cap own = {}
            /\ \A s, t \in plan.self :
                   /\ {s.egress, s.gateway} \cap (own \cup ends \cup hidden) = {}
                   /\ s.egress # t.gateway
                   /\ (s.egress = t.egress \/ s.gateway = t.gateway) => s = t

\* No reservation that was written is lost or changed by any later write: a
\* guest whose state was damaged or deleted is never rebuilt from nothing.
ReservationsKept == [][Extends(saved'.ports, saved.ports)]_vars

\* The application's own ports are never reserved for a peer
AppKeepsPorts == active # None => PortsFree(active)

\* A service runs something else than its file and the fingerprint of its last
\* acknowledged start, which agree: the daemon will not restart it.  It takes a
\* configuration that comes back and two steps that end half way.
Misled ==
    \/ /\ state.gateway = files.gateway /\ running.gateway.up
       /\ ~(running.gateway.serving \subseteq files.gateway.routes)
    \/ /\ state.tng = files.tng /\ running.tng.up
       /\ ~(running.tng.serving \subseteq files.tng)

\* Once the host stops delivering and nothing fails any more, every route of
\* the last bundle is in the directory and its endpoint is being served, unless
\* the daemon is misled.
Served ==
    /\ {e.route : e \in directory} = Routes(sent)
    /\ \A e \in directory : Reached(e.listen) = {e.route}
EventuallyServed == <>[](sent.boot # None => Served \/ Misled)

-----------------------------------------------------------------------------
(* What the proofs need: an inductive invariant *)

Injective(f) == \A r, q \in Route : f[r] # 0 /\ f[r] = f[q] => r = q

SpentInv ==
    /\ spent \in [deliveries : Nat, deaths : Nat, failures : Nat, damage : Nat]
    /\ sent.bundle # None =>
           /\ sent.bundle.generation <= spent.deliveries
           /\ spent.deliveries <= MaxDeliveries

\* What is on disk is what was last saved, or nothing; only a fresh guest is
\* not marked; and the memory never forgets a saved reservation.
DiskInv ==
    /\ stateFile \in {saved, Missing, Damaged}
    /\ ~initialized => stateFile = Missing /\ saved = FreshState /\ promised = {}
                       /\ pc # "recovery"
    /\ Injective(saved.ports) /\ Injective(state.ports)
    /\ pc \notin {"down", "recovery"} => Extends(state.ports, saved.ports)

Writing == pc \in {"directory", "gateway", "tng"}
Avoided(p) == Control \cup p.bundle.self \cup {r[2] : r \in p.bundle.routes}
Hidden(p) == Done(p) \ p.bundle.connect

EndpointsInv(p) ==
    /\ p.todo \subseteq p.bundle.routes
    /\ \A r \in Done(p) : p.ports[r] # 0 /\ p.ports[r] \notin Control \cup p.bundle.self
HiddenInv(p) ==
    /\ \A r \in Route \ Done(p) : p.ingress[r] = 0
    /\ \A r \in Done(p) : p.ingress[r] # 0
    /\ \A r \in Done(p) \cap p.bundle.connect : p.ingress[r] = p.ports[r]
    /\ \A r \in Hidden(p) : p.ingress[r] \notin Avoided(p) \cup Values(p.ports)
    /\ \A r, q \in Hidden(p) : p.ingress[r] = p.ingress[q] => r = q
SelfInv(p) ==
    /\ \A s \in p.self :
           {s.egress, s.gateway} \cap (Avoided(p) \cup Values(p.ports) \cup Values(p.ingress)) = {}
    /\ \A s, t \in p.self :
           /\ s.egress # t.gateway
           /\ (s.egress = t.egress \/ s.gateway = t.gateway) => s = t

PlanInv ==
    /\ pc = "plan" => plan.bundle # None
    /\ pc = "plan" \/ Writing =>
           /\ Extends(plan.ports, state.ports) /\ Injective(plan.ports)
           /\ plan.bundle # None => EndpointsInv(plan) /\ HiddenInv(plan) /\ SelfInv(plan)
    /\ Writing /\ plan.bundle # None => plan.todo = {} /\ saved.ports = plan.ports

PromisedInv == \A e \in promised : saved.ports[e.route] = e.listen

IInv == TypeOK /\ SpentInv /\ DiskInv /\ PlanInv /\ PromisedInv

\* What the two processes serve, and what their files would make them serve
GatewayEntries == running.gateway.serving \cup files.gateway.routes
TngEntries == running.tng.serving \cup files.tng

\* An endpoint leads to a route only when it is the route's reservation
ReservedInv ==
    /\ \A g \in GatewayEntries : saved.ports[g.route] = g.listen
    /\ \A t \in TngEntries : t.direct => saved.ports[t.route] = t.listen

\* The newest bundle that anything can have been done for: generations only
\* grow, except that without a bundle everything is taken down
Mesh == IF plan.bundle # None THEN plan.bundle ELSE sent.bundle
Acknowledged == {state.gateway.generation, saved.gateway.generation}
MeshInv ==
    /\ bundle \in {None, sent.bundle}
    /\ plan.bundle # None =>
           /\ sent.bundle # None
           /\ plan.bundle = sent.bundle \/ plan.bundle.generation < sent.bundle.generation
    /\ \A n \in Acknowledged \ {0} : Mesh # None /\ n <= Mesh.generation

\* A gateway that was started for the newest bundle is not restarted for it
\* again, so what it serves must agree with every plan of that bundle: the
\* reservations are complete and no hidden listener it uses is one of them.
Started == Mesh # None /\ Mesh.generation \in Acknowledged
StartedInv ==
    Started =>
        /\ \A r \in Mesh.routes : saved.ports[r] # 0
        /\ pc \notin {"down", "recovery"} => state.ports = saved.ports
        /\ \A g \in GatewayEntries : g.out \notin Values(saved.ports)

PlannedInv ==
    /\ pc = "plan" => \A r \in Route \ plan.bundle.routes : plan.ports[r] = state.ports[r]
    /\ Writing => state.ports = plan.ports
    /\ pc = "tng" => state.gateway = GatewayConfig(plan)

\* No gateway forwards to a port where TNG connects without asking for the
\* audience of the token.
ApartInv == \A g \in GatewayEntries, t \in TngEntries : t.direct => t.listen # g.out

ReachInv == ReservedInv /\ MeshInv /\ StartedInv /\ PlannedInv /\ ApartInv

=============================================================================
