-------------------------- MODULE ServiceLifecycle --------------------------
(***************************************************************************)
(* The host CLI's management of several services from one state directory: *)
(* every command is a process that takes the operation lock of its service *)
(* and, for its short transactions, the state-directory lock; it can die   *)
(* between any two steps, and only files, cloud and Trustee survive.       *)
(*                                                                         *)
(* Trustee transactions are atomic here except that a sync can die half    *)
(* done (`pending'); module TrusteePolicy opens them up.                   *)
(***************************************************************************)
EXTENDS Naturals, FiniteSets, FiniteSetsExt, Peerings

CONSTANTS
    Service, Proc, NoService, NoProc,
    TrusteeMode,   \* the services whose AppSpec selects Trustee attestation
    MaxCommands,   \* bound: commands other than destroy
    MaxCrashes,    \* bound: commands that die
    DieAt,         \* the program points at which a command can die
    Redeploy,      \* TRUE: a deleted service may be deployed without a build
    WithSsh,       \* the services that run sshd
    Named,         \* the services whose mesh address is a load balancer's name
    Operator,      \* the host the commands run on
    FirstPeerings, \* the entries of peerings.yaml to begin with,
    NewPeerings,   \* those that may be added
    OldSecurity    \* and those migrate makes of an old deploy.security

ASSUME LifecycleAssumption ==
    /\ NoService \notin Service /\ NoProc \notin Proc
    /\ TrusteeMode \subseteq Service /\ Named \subseteq Service
    /\ IsFiniteSet(Service) /\ Operator \notin Service /\ ValidFile(FirstPeerings)
    /\ MaxCommands \in Nat /\ MaxCrashes \in Nat /\ Redeploy \in BOOLEAN

VARIABLES
    phase, meshGen,        \* services/<id>/state.json
    bundle,                \* mesh-bundle.json: generation and members
    entry, pendingSync,    \* trustee/state.json
    infra, firewall,       \* the cloud: instance, whom its firewall admits
    guest,                 \* the bundle last delivered to the guests of a service
    proc,                  \* the running commands
    opLock, stateLock,     \* flock owners
    peerings,              \* peerings.yaml
    applied,               \* history: not edited since the last `peering apply'
    commands, crashes, faulty

files == <<phase, meshGen, bundle, entry, pendingSync>>
cloud == <<infra, firewall, guest>>
locks == <<opLock, stateLock>>
admission == <<peerings, applied>>
rest  == <<admission, commands, crashes, faulty>>
vars  == <<files, cloud, proc, locks, rest>>

Recorded == {"deploying", "deployed", "activating", "active", "destroying"}
Phase == {"none", "built", "deleted"} \cup Recorded
NoBundle == [gen |-> 0, members |-> {}]
Idle == [cmd |-> "none", svc |-> NoService, pc |-> "idle", todo |-> {}, seen |-> 0,
         held |-> {}]

-----------------------------------------------------------------------------
Members == {s \in Service : phase[s] \in {"activating", "active"}}
ActivePeers(s) == Members \ {s}
Managed(s) == entry[s] # "none" \/ pendingSync = s
TrusteeFreeOfAny(s) == pendingSync = NoService
TrusteeFree(s) == pendingSync \in {NoService, s}

At(p, points) == proc[p].pc \in points
Goto(p, pc) == proc' = [proc EXCEPT ![p].pc = pc]
\* The services still to be delivered to, or refreshed
Visit(p, pc, services) ==
    proc' = [proc EXCEPT ![p] = [@ EXCEPT !.pc = pc, !.todo = services]]
ReleaseOperation(p) ==
    opLock' = [s \in Service |-> IF opLock[s] = p THEN NoProc ELSE opLock[s]]
End(p) ==
    /\ proc' = [proc EXCEPT ![p] = Idle]
    /\ ReleaseOperation(p)
    /\ stateLock' = IF stateLock = p THEN NoProc ELSE stateLock

\* A command takes the operation lock and looks at the state file
Start(p, s, cmd, pc) ==
    /\ proc[p] = Idle
    /\ opLock[s] = NoProc
    /\ opLock' = [opLock EXCEPT ![s] = p]
    /\ proc' = [proc EXCEPT ![p] =
                 [cmd |-> cmd, svc |-> s, pc |-> pc, todo |-> ActivePeers(s),
                  seen |-> IF cmd \in {"inject", "destroy"} THEN meshGen[s] ELSE 0,
                  held |-> IF cmd \in {"deploy", "bare"} THEN peerings ELSE {}]]
    /\ UNCHANGED <<files, cloud, stateLock, admission, crashes, faulty>>
Budget == commands < MaxCommands /\ commands' = commands + 1

\* Every service has been built before
Init ==
    /\ phase = [s \in Service |-> "built"]
    /\ meshGen = [s \in Service |-> 0]
    /\ bundle = NoBundle
    /\ entry = [s \in Service |-> "none"] /\ pendingSync = NoService
    /\ infra = [s \in Service |-> FALSE]
    /\ firewall = [s \in Service |-> Closed]
    /\ guest = [s \in Service |-> NoBundle]
    /\ proc = [p \in Proc |-> Idle]
    /\ opLock = [s \in Service |-> NoProc] /\ stateLock = NoProc
    /\ peerings = FirstPeerings /\ applied = TRUE
    /\ commands = 0 /\ crashes = 0 /\ faulty = FALSE

-----------------------------------------------------------------------------
(* build, forget, and the commands that only deliver *)

BuildStart(p, s) ==
    /\ Budget
    /\ phase[s] \notin Recorded
    /\ Start(p, s, "build", "build")

BuildCommit(p) ==
    /\ At(p, {"build"}) /\ stateLock = NoProc
    /\ phase' = [phase EXCEPT ![proc[p].svc] = "built"]
    /\ meshGen' = [meshGen EXCEPT ![proc[p].svc] = 0]
    /\ End(p)
    /\ UNCHANGED <<bundle, entry, pendingSync, cloud, rest>>

Forget(p, s) ==
    /\ Budget
    /\ proc[p] = Idle /\ opLock[s] = NoProc /\ stateLock = NoProc
    /\ ~Managed(s)
    /\ phase[s] \in {"built", "deleted"}
    /\ phase' = [phase EXCEPT ![s] = "none"]
    /\ meshGen' = [meshGen EXCEPT ![s] = 0]
    /\ UNCHANGED <<bundle, entry, pendingSync, cloud, proc, locks, admission, crashes, faulty>>

MeshSync(p, s) ==
    /\ Budget
    /\ proc[p] = Idle
    /\ s # NoService => s \in Members
    /\ proc' = [proc EXCEPT ![p] =
                 [Idle EXCEPT !.cmd = "mesh", !.svc = s, !.pc = "mesh"]]
    /\ UNCHANGED <<files, cloud, locks, admission, crashes, faulty>>

TrusteeSyncUnlocked(p, s) ==
    /\ Budget
    /\ phase[s] \notin {"none", "deleted"}
    /\ s \in TrusteeMode /\ Managed(s)
    /\ proc[p] = Idle
    /\ proc' = [proc EXCEPT ![p] = [Idle EXCEPT !.cmd = "sync", !.svc = s, !.pc = "sync"]]
    /\ UNCHANGED <<files, cloud, locks, admission, crashes, faulty>>

TrusteeSync(p, s) ==
    /\ Budget
    /\ phase[s] \notin {"none", "deleted"}
    /\ s \in TrusteeMode /\ Managed(s)
    /\ Start(p, s, "sync", "sync")

-----------------------------------------------------------------------------
(* deploy, deploy --resume and inject *)

\* verify_operator_peering_for_direct_injection, not skipped
OperatorPeered(s) == s \in TrusteeMode \/ DirectInjectionAllowed(peerings, Operator)

\* "bare" is deploy --skip-inject, of a challenge service only; the peerings
\* and the peers are read before the Trustee is brought up to date
DeployStart(p, s) ==
    /\ Budget
    /\ phase[s] = "built" \/ (Redeploy /\ phase[s] = "deleted")
    /\ \/ OperatorPeered(s)
          /\ Start(p, s, "deploy", IF s \in TrusteeMode THEN "sync" ELSE "record")
       \/ s \notin TrusteeMode /\ Start(p, s, "bare", "record")

ResumeStart(p, s) ==
    /\ Budget
    /\ phase[s] \in {"deployed", "activating"}
    /\ \/ OperatorPeered(s) /\ Start(p, s, "resume", "observe")
       \/ s \notin TrusteeMode /\ Start(p, s, "bare", "observe")

InjectStart(p, s) ==
    /\ Budget
    /\ phase[s] \in {"active", "deployed", "activating"}
    /\ OperatorPeered(s)
    /\ Start(p, s, "inject", IF s \in TrusteeMode THEN "sync" ELSE "mesh")

\* reconcile_service holds the state lock from its first write to its last
SyncBegin(p) ==
    /\ At(p, {"sync"}) /\ stateLock = NoProc
    /\ TrusteeFree(proc[p].svc)
    /\ pendingSync' = proc[p].svc
    /\ stateLock' = p
    /\ Goto(p, "syncing")
    /\ UNCHANGED <<phase, meshGen, bundle, entry, cloud, opLock, rest>>

SyncCommit(p) ==
    LET s == proc[p].svc IN
    /\ At(p, {"syncing"})
    /\ entry' = [entry EXCEPT ![s] = "enabled"]
    /\ pendingSync' = NoService
    /\ stateLock' = NoProc
    /\ Goto(p, IF proc[p].cmd = "deploy" /\ phase[s] \in {"built", "deleted"}
               THEN "record" ELSE "mesh")
    /\ IF proc[p].cmd = "sync" THEN ReleaseOperation(p) ELSE UNCHANGED opLock
    /\ UNCHANGED <<phase, meshGen, bundle, cloud, rest>>

RecordNothing(p) ==
    /\ At(p, {"record"})
    /\ Goto(p, "launch")
    /\ UNCHANGED <<files, cloud, locks, rest>>

RecordAttempt(p) ==
    /\ At(p, {"record"}) /\ stateLock = NoProc
    /\ phase' = [phase EXCEPT ![proc[p].svc] = "deploying"]
    /\ meshGen' = [meshGen EXCEPT ![proc[p].svc] = 0]
    /\ Goto(p, "launch")
    /\ UNCHANGED <<bundle, entry, pendingSync, cloud, locks, rest>>

\* Shelter creates the instance behind the security group rendered for the
\* peerings, and the members, of when the command started
Launch(p) ==
    /\ At(p, {"launch"})
    /\ infra' = [infra EXCEPT ![proc[p].svc] = TRUE]
    /\ firewall' = [firewall EXCEPT ![proc[p].svc] = 
                      SecurityGroup(proc[p].held, proc[p].todo, proc[p].svc \in WithSsh)]
    /\ proc' = [proc EXCEPT ![p] = [@ EXCEPT !.pc = "observe", !.held = {}]]
    /\ UNCHANGED <<files, guest, locks, rest>>

Observe(p) ==
    LET s == proc[p].svc IN
    /\ At(p, {"observe"}) /\ stateLock = NoProc
    /\ phase' = [phase EXCEPT ![s] = "deployed"]
    /\ meshGen' = [meshGen EXCEPT ![s] = 0]
    /\ IF proc[p].cmd = "bare" THEN End(p)
       ELSE Goto(p, IF s \in TrusteeMode THEN "sync" ELSE "mesh") /\ UNCHANGED locks
    /\ UNCHANGED <<bundle, entry, pendingSync, cloud, rest>>

\* A port of the instance that the command's host can connect to
Open(s, scope) == infra[s] /\ Operator \in firewall[s][scope]
ReplicasAnswer(s) == Open(s, "status")

ActivateAfterListing(p) ==
    LET s == proc[p].svc IN
    /\ At(p, {"activate"}) /\ stateLock = NoProc
    /\ ReplicasAnswer(s)
    /\ phase[s] = "activating"
    /\ phase' = [phase EXCEPT ![s] = "active"]
    /\ Visit(p, "refresh", {t \in Service : phase[t] = "active"})
    /\ ReleaseOperation(p)
    /\ UNCHANGED <<meshGen, bundle, entry, pendingSync, cloud, stateLock, rest>>

\* complete_activation, after the daemon of every replica answered that it is
\* this service and ready - not that it has taken the bundle just delivered;
\* the operation lock is dropped before other services are refreshed
Activate(p) ==
    LET s == proc[p].svc IN
    /\ At(p, {"activate"}) /\ stateLock = NoProc
    /\ ReplicasAnswer(s)
    /\ phase[s] = "activating"
    /\ phase' = [phase EXCEPT ![s] = "active"]
    /\ Visit(p, "refresh", {t \in Service : phase'[t] = "active"})
    /\ ReleaseOperation(p)
    /\ UNCHANGED <<meshGen, bundle, entry, pendingSync, cloud, stateLock, rest>>

-----------------------------------------------------------------------------
(* sync_mesh_for_services, under the state lock from its first read to its *)
(* last write; deploy and inject bring their own service as a candidate.   *)

Candidate(p) ==
    IF proc[p].cmd \in {"deploy", "resume", "inject"} THEN {proc[p].svc} ELSE {}
Filter(p) == IF proc[p].cmd \in {"mesh", "sync"} THEN {proc[p].svc} \ {NoService} ELSE {}

\* The candidate's generation is that of the state the command read first
Carried(p, s) == IF s \in Candidate(p) THEN proc[p].seen ELSE meshGen[s]

NextGeneration(p) == 1 + Max({bundle.gen} \cup {Carried(p, s) : s \in Service})

\* inject_resources, and the first answer of a new instance's daemon
Reached(p) ==
    \A s \in Candidate(p) :
        /\ s \notin TrusteeMode => Open(s, "control")
        /\ proc[p].cmd \in {"deploy", "resume"} => Open(s, "status")

AfterMesh(p) ==
    CASE proc[p].cmd = "destroy" ->
           /\ Visit(p, "refresh", {t \in Service : phase[t] = "active"})
           /\ ReleaseOperation(p)
           /\ stateLock' = NoProc
      [] Candidate(p) # {} ->
           /\ Goto(p, "activate")
           /\ stateLock' = NoProc
           /\ UNCHANGED opLock
      [] OTHER -> End(p)

MeshBegin(p) ==
    LET members == Members \cup Candidate(p) IN
    /\ At(p, {"mesh"}) /\ stateLock \in {NoProc, p}
    /\ Filter(p) \subseteq Members
    /\ Reached(p)
    /\ IF members = {}
       THEN bundle' = NoBundle /\ AfterMesh(p)
       ELSE /\ bundle' = [gen |-> NextGeneration(p), members |-> members]
            /\ stateLock' = p
            /\ Visit(p, "deliver", IF Filter(p) = {} THEN members ELSE Filter(p))
            /\ UNCHANGED opLock
    /\ UNCHANGED <<phase, meshGen, entry, pendingSync, cloud, rest>>

\* put_dynamic_resource for a Trustee service, injection into the guests else
Deliverable(t) ==
    IF t \in TrusteeMode THEN entry[t] = "enabled" /\ pendingSync = NoService
    ELSE Open(t, "control")

Deliver(p) ==
    /\ At(p, {"deliver"})
    /\ \E t \in proc[p].todo :
         /\ Deliverable(t)
         /\ guest' = [guest EXCEPT ![t] = bundle]
         /\ proc' = [proc EXCEPT ![p].todo = @ \ {t}]
    /\ UNCHANGED <<files, infra, firewall, locks, rest>>

\* update_mesh_generation, then the candidate's own state file
MeshCommit(p) ==
    LET delivered == IF Filter(p) = {} THEN bundle.members ELSE Filter(p) IN
    /\ At(p, {"deliver"}) /\ proc[p].todo = {}
    /\ meshGen' = [s \in Service |-> IF s \in delivered THEN bundle.gen ELSE meshGen[s]]
    /\ phase' = [s \in Service |-> IF s \in Candidate(p) THEN "activating" ELSE phase[s]]
    /\ AfterMesh(p)
    /\ UNCHANGED <<bundle, entry, pendingSync, cloud, rest>>

\* render_service_config_from_state: the members' recorded addresses and the
\* peerings, both read anew
Rendered(t) == SecurityGroup(peerings, ActivePeers(t), t \in WithSsh)

\* refresh_active_shelter_deploys: one active service after the other, each
\* under its own operation lock and from freshly read state
Refresh(p) ==
    /\ At(p, {"refresh"})
    /\ \E t \in proc[p].todo :
         /\ opLock[t] = NoProc
         /\ firewall' = IF phase[t] = "active"
                        THEN [firewall EXCEPT ![t] = Rendered(t)] ELSE firewall
         /\ proc' = [proc EXCEPT ![p].todo = @ \ {t}]
    /\ UNCHANGED <<files, infra, guest, locks, rest>>

RefreshDone(p) ==
    /\ At(p, {"refresh"}) /\ proc[p].todo = {}
    /\ End(p)
    /\ UNCHANGED <<files, cloud, rest>>

-----------------------------------------------------------------------------
(* peering add, remove and apply, and migrate *)

Edited(P) == peerings' = P /\ applied' = (applied /\ P = peerings)

PeeringAdd ==
    /\ Budget /\ stateLock = NoProc
    /\ \E e \in NewPeerings : e.label \notin Labels(peerings) /\ Edited(Added(peerings, e))
    /\ UNCHANGED <<files, cloud, proc, locks, crashes, faulty>>

PeeringRemove ==
    /\ Budget /\ stateLock = NoProc
    /\ \E label \in Labels(peerings) : Edited(Removed(peerings, label))
    /\ UNCHANGED <<files, cloud, proc, locks, crashes, faulty>>

PeeringApply(p) ==
    /\ Budget
    /\ proc[p] = Idle
    /\ proc' = [proc EXCEPT ![p] = [Idle EXCEPT !.cmd = "apply", !.pc = "refresh",
                              !.todo = {t \in Service : phase[t] = "active"}]]
    /\ applied' = TRUE
    /\ UNCHANGED <<files, cloud, locks, peerings, crashes, faulty>>

\* migrate reads the file, and writes it later, without the state lock
MigrateRead(p) ==
    /\ Budget
    /\ proc[p] = Idle
    /\ proc' = [proc EXCEPT ![p] =
                 [Idle EXCEPT !.cmd = "migrate", !.pc = "migrate", !.held = peerings]]
    /\ UNCHANGED <<files, cloud, locks, peerings, applied, crashes, faulty>>

MigrateWrite(p) ==
    /\ At(p, {"migrate"})
    /\ Edited(Migrated(proc[p].held, OldSecurity))
    /\ End(p)
    /\ UNCHANGED <<files, cloud, commands, crashes, faulty>>

-----------------------------------------------------------------------------
(* destroy *)

DestroyStart(p, s) ==
    /\ phase[s] # "none"
    /\ phase[s] \in {"built", "deleted"} => Managed(s)
    /\ Start(p, s, "destroy",
             CASE phase[s] = "deleted" -> "wipe"
               [] phase[s] # "deleted" /\ s \in TrusteeMode -> "revoke"
               [] OTHER -> "mark")
    /\ UNCHANGED commands

Revoke(p) ==
    LET s == proc[p].svc IN
    /\ At(p, {"revoke"}) /\ stateLock = NoProc
    /\ Managed(s) /\ TrusteeFree(s)
    /\ entry' = [entry EXCEPT ![s] = "disabled"]
    /\ pendingSync' = NoService
    /\ Goto(p, IF phase[s] = "built" THEN "wipe" ELSE "mark")
    /\ UNCHANGED <<phase, meshGen, bundle, cloud, locks, rest>>

MarkDestroying(p) ==
    /\ At(p, {"mark"}) /\ stateLock = NoProc
    /\ phase' = [phase EXCEPT ![proc[p].svc] = "destroying"]
    /\ Goto(p, "remove")
    /\ UNCHANGED <<meshGen, bundle, entry, pendingSync, cloud, locks, rest>>

\* Shelter removes the instance.  An attempt that never created one passes as
\* well: Shelter's inventory confirms that nothing exists.
RemoveInfra(p) ==
    LET s == proc[p].svc IN
    /\ At(p, {"remove"})
    /\ infra' = [infra EXCEPT ![s] = FALSE]
    /\ firewall' = [firewall EXCEPT ![s] = Closed]
    /\ guest' = [guest EXCEPT ![s] = NoBundle]
    /\ Goto(p, IF s \in TrusteeMode THEN "cleanup" ELSE "finish")
    /\ UNCHANGED <<files, locks, rest>>

\* cleanup_revoked_service succeeds without a committed entry
CanClean(s) == entry[s] = "none" \/ (entry[s] = "disabled" /\ TrusteeFree(s))
Cleanup(p) ==
    LET s == proc[p].svc IN
    /\ At(p, {"wipe", "cleanup"}) /\ stateLock = NoProc
    /\ CanClean(s)
    /\ entry' = [entry EXCEPT ![s] = "none"]
    /\ Goto(p, IF At(p, {"wipe"}) THEN "report" ELSE "finish")
    /\ UNCHANGED <<phase, meshGen, bundle, pendingSync, cloud, locks, rest>>

\* "service is already deleted", "service has no recorded infrastructure"
Report(p) ==
    /\ At(p, {"report"})
    /\ End(p)
    /\ UNCHANGED <<files, cloud, rest>>

\* The snapshot read when the command started is written back as deleted, and
\* the mesh is synced before the state lock is released
FinishDestroy(p) ==
    LET s == proc[p].svc IN
    /\ At(p, {"finish"}) /\ stateLock = NoProc
    /\ phase' = [phase EXCEPT ![s] = "deleted"]
    /\ meshGen' = [meshGen EXCEPT ![s] = proc[p].seen]
    /\ stateLock' = p
    /\ Goto(p, "mesh")
    /\ UNCHANGED <<bundle, entry, pendingSync, cloud, opLock, rest>>

-----------------------------------------------------------------------------
\* The lookup of a load balancer's name may fail, before the bundle is replaced
Unresolvable(members) == members \cap Named # {}

NotReadyInTime(p) == At(p, {"activate"})

\* A command returns an error: the Trustee refuses it, a bundle cannot be made
\* or delivered, or an instance does not answer
Refused(p) ==
    LET s == proc[p].svc IN
    \/ At(p, {"sync"}) /\ stateLock = NoProc /\ ~TrusteeFree(s)
    \/ At(p, {"revoke"}) /\ stateLock = NoProc /\ ~(Managed(s) /\ TrusteeFree(s))
    \/ At(p, {"wipe", "cleanup"}) /\ stateLock = NoProc /\ ~CanClean(s)
    \/ /\ At(p, {"mesh"}) /\ stateLock \in {NoProc, p}
       /\ \/ ~(Filter(p) \subseteq Members) \/ ~Reached(p)
          \/ Unresolvable(Members \cup Candidate(p))
    \/ At(p, {"deliver"}) /\ \E t \in proc[p].todo : ~Deliverable(t)
    \/ NotReadyInTime(p)

Fail(p) ==
    /\ Refused(p)
    /\ End(p)
    /\ faulty' = TRUE
    /\ UNCHANGED <<files, cloud, admission, commands, crashes>>

\* The process dies, or a cloud, Shelter or readiness call of it fails
Crash(p) ==
    /\ proc[p].pc \in DieAt
    /\ crashes < MaxCrashes
    /\ crashes' = crashes + 1
    /\ faulty' = TRUE
    /\ End(p)
    /\ UNCHANGED <<files, cloud, admission, commands>>

Command(p) ==
    \/ \E s \in Service :
         \/ BuildStart(p, s) \/ Forget(p, s) \/ TrusteeSync(p, s)
         \/ DeployStart(p, s) \/ ResumeStart(p, s) \/ InjectStart(p, s)
         \/ DestroyStart(p, s)
    \/ \E s \in Service \cup {NoService} : MeshSync(p, s)
    \/ PeeringApply(p) \/ MigrateRead(p)

Step(p) ==
    \/ BuildCommit(p) \/ SyncBegin(p) \/ SyncCommit(p) \/ RecordAttempt(p)
    \/ Launch(p) \/ Observe(p) \/ Activate(p)
    \/ MeshBegin(p) \/ Deliver(p) \/ MeshCommit(p) \/ Refresh(p) \/ RefreshDone(p)
    \/ Revoke(p) \/ MarkDestroying(p) \/ RemoveInfra(p) \/ Cleanup(p)
    \/ Report(p) \/ FinishDestroy(p) \/ MigrateWrite(p) \/ Fail(p)

Next ==
    \/ \E p \in Proc : Command(p) \/ Step(p) \/ Crash(p)
    \/ PeeringAdd \/ PeeringRemove

Spec == Init /\ [][Next]_vars

\* A running command makes its next call, unless it dies; a lock that keeps
\* becoming free is obtained in the end (flock wakes its waiters).
FairSpec == Spec /\ \A p \in Proc : SF_vars(Step(p))

\* The operator reruns destroy until nothing is recorded
RetireSpec == FairSpec /\ \A s \in Service : SF_vars(\E p \in Proc : DestroyStart(p, s))

-----------------------------------------------------------------------------
(* Properties *)

PeeringEntry == FirstPeerings \cup NewPeerings \cup OldSecurity
Running ==
    [cmd  : {"none", "build", "deploy", "bare", "resume", "inject", "mesh", "sync",
             "destroy", "apply", "migrate"},
     svc  : Service \cup {NoService},
     pc   : {"idle", "build", "sync", "syncing", "record", "launch", "observe", "mesh",
             "deliver", "activate", "refresh", "revoke", "mark", "remove", "cleanup",
             "wipe", "finish", "report", "migrate"},
     todo : SUBSET Service,
     seen : Nat,
     held : SUBSET PeeringEntry]

TypeOK ==
    /\ phase \in [Service -> Phase]
    /\ meshGen \in [Service -> Nat]
    /\ bundle \in [gen : Nat, members : SUBSET Service]
    /\ entry \in [Service -> {"none", "enabled", "disabled"}]
    /\ pendingSync \in TrusteeMode \cup {NoService}
    /\ infra \in [Service -> BOOLEAN]
    /\ DOMAIN firewall = Service
    /\ guest \in [Service -> [gen : Nat, members : SUBSET Service]]
    /\ proc \in [Proc -> Running]
    /\ opLock \in [Service -> Proc \cup {NoProc}]
    /\ stateLock \in Proc \cup {NoProc}
    /\ peerings \subseteq PeeringEntry

\* An instance that exists in the cloud is always recorded in a phase that
\* build, forget and deploy refuse and destroy accepts ("Save the attempt's
\* name first so Shelter can resolve its recorded directory during destroy").
InfraRecorded == \A s \in Service : infra[s] => phase[s] \in Recorded

\* Access is withdrawn before the instance goes, and no sync of another
\* command gives it back in between: "Revocation is committed remotely before
\* infrastructure deletion".
RevokedBeforeRemoval ==
    [][\A s \in Service : infra[s] /\ ~infra'[s] => entry[s] # "enabled"]_vars

\* A Trustee service keeps its entry as long as it has an instance, so destroy
\* can still determine that access has to be revoked (service_uses_trustee).
InstanceHasEntry ==
    \A s \in TrusteeMode : infra[s] => Managed(s)

\* A service is active only with an instance that has been given a bundle.
ActiveRuns == \A s \in Service : phase[s] = "active" => infra[s] /\ guest[s] # NoBundle

\* What exists in the cloud stays on the records that destroy works from, and
\* the records call nothing active that does not exist.
InstanceOnRecord == InfraRecorded /\ InstanceHasEntry /\ ActiveRuns

Quiet == (\A p \in Proc : proc[p] = Idle) /\ ~faulty

\* A service knows the members of the mesh when the bundle of its guests lists
\* them and nobody else, and when its firewall admits them, and the hosts of
\* some version of peerings.yaml, which is the present one once it was applied.
KnowsMembers(s) ==
    /\ guest[s].members = Members
    /\ \E P \in SUBSET PeeringEntry :
          /\ applied => P = peerings
          /\ firewall[s] = SecurityGroup(P, ActivePeers(s), s \in WithSsh)

\* When all commands have ended without an error the active services agree on
\* who is a member, and once `peering apply' ran, on who is admitted, however
\* the commands of different services and the edits overlapped ("The next
\* service must see every member of the bundle just delivered"; "Run
\* `confidential-agent peering apply` to push SG changes").
MeshSettles == Quiet => \A s \in Service : phase[s] = "active" => KnowsMembers(s)

\* destroy reports a service as gone only when the Trustee holds nothing of it.
DestroyedMeansUnmanaged ==
    \A p \in Proc : At(p, {"report"}) => ~Managed(proc[p].svc)

\* A destroy that died can be run again: its first step is accepted. So says
\* docs/trustee.md:258; the code takes the entry away before the phase that
\* needs it, and the property holds only without deaths at "finish".
DestroyCanBeRerun ==
    \A s \in TrusteeMode : phase[s] = "destroying" /\ opLock[s] = NoProc => Managed(s)

\* migrate drops no peering: "wrote migrated peerings" adds to those it read.
\* It holds only as long as no other edit falls between its read and its write.
MigrateKeeps ==
    [][\A p \in Proc : At(p, {"migrate"}) /\ proc'[p] = Idle => peerings \subseteq peerings']_vars

\* Rerunning destroy retires everything: no instance, no secret, no member.
Retired == \A s \in Service :
    ~infra[s] /\ ~Managed(s) /\ phase[s] \in {"none", "built", "deleted"}
EventuallyRetired == <>[]Retired

=============================================================================
