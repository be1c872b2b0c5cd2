--------------------------- MODULE GuestResources ---------------------------
(***************************************************************************)
(* How confidential-agentd brings the resources of a bootstrap to the      *)
(* application (daemon/src/app.rs, run_daemon and apply_bootstrap): sources *)
(* arrive one by one, are verified, copied to their targets while the      *)
(* application is stopped, and recorded in the state that is written at    *)
(* the end of the round.  Immutable targets are the operator's and put     *)
(* right whenever they differ; mutable ones are seeded once and then belong *)
(* to the application.                                                     *)
(*                                                                         *)
(* Contents are versions.  "Wrong" metadata stands for any mode or owner   *)
(* that differs.  Mesh, A2A and TNG, which share the round, are in         *)
(* GuestMesh; how a sleeping daemon learns of a new file is in             *)
(* ResourceWatcher, which promises what the guard of Round says.           *)
(***************************************************************************)
EXTENDS Naturals, FiniteSets

CONSTANTS
    Res,            \* resource ids
    Mutable,        \* those the application may rewrite
    Required,       \* those an apply waits for
    Management,     \* the two credentials of instance SSH
    Ver,            \* contents the operator may deliver
    Own,            \* a content the application, or somebody in the guest, wrote
    Offer,          \* the bootstraps: for each resource a version or None
    Trustee,        \* BOOLEAN: resources are fetched, and waits have a timeout
    DiesUnsaved,    \* BOOLEAN: the daemon may die after a seed and before its record
    MaxDeliveries, MaxFaults, MaxChanges,
    None

ASSUME ConstAssumption ==
    /\ Mutable \subseteq Res /\ Required \subseteq Res
    /\ Management \subseteq Required \ Mutable
    /\ Own \notin Ver /\ None \notin Ver \cup {Own}
    /\ Offer \subseteq [Res -> Ver \cup {None}]
    /\ Trustee \in BOOLEAN /\ DiesUnsaved \in BOOLEAN
    /\ MaxDeliveries \in Nat /\ MaxFaults \in Nat /\ MaxChanges \in Nat

VARIABLES
    offer,      \* the bootstrap the operator delivered last: [gen, want]
    due,        \* what of it has not arrived: "bootstrap" or resources
    boot,       \* the bootstrap file
    src,        \* the staged sources
    target,     \* the content of each target, or None
    meta,       \* whether its mode and owner are the wanted ones
    app,        \* the application runs
    saved,      \* state.json
    state,      \* DaemonState in memory: [gen, applied]
    active,     \* active_bootstrap
    pc,         \* where the round is
    plan,       \* planned_resources: those left to do, to write, to touch
    woken,      \* something arrived since the round began
    ready,      \* instance-ssh.ready
    faults, changes,
    (* history *)
    claimed     \* mutable resources whose seeding has been saved

files == <<boot, src>>
guest == <<target, meta, app, ready>>
daemon == <<state, active, pc, plan>>
counts == <<faults, changes>>
vars == <<offer, due, files, guest, saved, daemon, woken, counts, claimed>>

Nothing == [gen |-> 0, applied |-> [r \in Res |-> None]]
NoPlan == [boot |-> None, todo |-> {}, write |-> {}, touch |-> {}, stopped |-> FALSE]
Dom(b) == {r \in Res : b.want[r] # None}

----------------------------------------------------------------------------
Init ==
    /\ offer = None /\ due = {}
    /\ boot = None /\ src = [r \in Res |-> None]
    /\ target = [r \in Res |-> None] /\ meta = [r \in Res |-> FALSE]
    /\ app = FALSE /\ ready = FALSE
    /\ saved = Nothing /\ state = Nothing
    /\ active = None /\ pc = "wait" /\ plan = NoPlan
    /\ woken = TRUE
    /\ faults = 0 /\ changes = 0
    /\ claimed = {}

----------------------------------------------------------------------------
(* The operator, and the provider that stages what was delivered *)

Deliver(o) ==
    LET gen == IF offer = None THEN 1 ELSE offer.gen + 1
    IN  /\ gen =< MaxDeliveries
        /\ offer' = [gen |-> gen, want |-> o]
        /\ due' = {"bootstrap"} \cup {r \in Res : o[r] # None}
        /\ UNCHANGED <<files, guest, saved, daemon, woken, counts, claimed>>

Arrive(x) ==
    /\ x \in due
    /\ due' = due \ {x}
    /\ IF x = "bootstrap" THEN boot' = offer /\ UNCHANGED src
                          ELSE src' = [src EXCEPT ![x] = offer.want[x]] /\ UNCHANGED boot
    /\ woken' = TRUE
    /\ UNCHANGED <<offer, guest, saved, daemon, counts, claimed>>

(* The application and the guest around it *)

Change == changes < MaxChanges /\ changes' = changes + 1

\* the application rewrites or deletes what it owns
AppWrites(r, content) ==
    /\ Change /\ app /\ r \in Mutable /\ target[r] # None
    /\ target' = [target EXCEPT ![r] = content]
    /\ claimed' = IF content = None THEN claimed \ {r} ELSE claimed
    /\ UNCHANGED <<offer, due, files, meta, app, ready, saved, daemon, woken, faults>>

\* somebody in the guest changes what the operator owns, or a mode
Drift(r) ==
    /\ Change /\ target[r] # None
    /\ \/ r \notin Mutable /\ target' = [target EXCEPT ![r] = Own] /\ UNCHANGED meta
       \/ meta' = [meta EXCEPT ![r] = FALSE] /\ UNCHANGED target
    /\ UNCHANGED <<offer, due, files, app, ready, saved, daemon, woken, faults, claimed>>

----------------------------------------------------------------------------
(* What apply_bootstrap_resources decides *)

Matches(r, content) == target[r] = content /\ meta[r]

\* faulty variant of Applied: only the record is compared, not the targets
AppliedOnRecord(b) ==
    /\ state.gen = b.gen
    /\ \A r \in Dom(b) : state.applied[r] # None

\* bootstrap_resources_ready
Applied(b) ==
    /\ state.gen = b.gen
    /\ \A r \in Dom(b) :
          /\ state.applied[r] # None
          /\ IF r \in Mutable THEN target[r] # None /\ meta[r]
             ELSE state.applied[r] = b.want[r] /\ Matches(r, state.applied[r])

\* verified_resource_source: absent, or of the digest the bootstrap names
Verified(b, r) == src[r] = b.want[r]
Mismatch(b, r) == src[r] # None /\ ~Verified(b, r)

\* faulty variant of Rewrite: a mutable resource follows its source
RewriteChanged(b, r) ==
    IF r \in Mutable THEN state.applied[r] # b.want[r] \/ target[r] = None
                     ELSE ~Matches(r, b.want[r])

\* ResourceUpdate::WriteContent
Rewrite(b, r) ==
    IF r \in Mutable THEN state.applied[r] = None \/ target[r] = None
                     ELSE ~Matches(r, b.want[r])

\* ResourceUpdate::MetadataOnly
Touch(b, r) == r \in Mutable /\ ~Rewrite(b, r) /\ ~meta[r]

\* state.applied_resources.retain
Retained(b) == [r \in Res |-> IF r \in Dom(b) THEN state.applied[r] ELSE None]

----------------------------------------------------------------------------
(* The round *)

\* run_daemon up to apply_bootstrap; before the first bootstrap is applied a
\* challenge guest waits for an event without a timeout
Round ==
    /\ pc = "wait"
    /\ woken \/ active # None \/ Trustee
    /\ woken' = FALSE
    /\ IF boot = None
       THEN pc' = "save" /\ UNCHANGED <<state, active, plan, app, claimed>>
       ELSE IF Applied(boot) /\ active = boot
       THEN /\ pc' = "save" /\ app' = TRUE
            /\ UNCHANGED <<state, active, plan, claimed>>
       ELSE /\ pc' = "manage"
            /\ state' = [state EXCEPT !.applied = Retained(boot)]
            /\ claimed' = claimed \cap Dom(boot)
            /\ plan' = [NoPlan EXCEPT !.boot = boot]
            /\ UNCHANGED <<active, app>>
    /\ UNCHANGED <<offer, due, files, target, meta, ready, saved, counts>>

\* install_management_credentials: both or none, then the readiness trigger
Manage ==
    LET b == plan.boot
    IN  /\ pc = "manage"
        /\ IF Management = {} \/ ~(Management \subseteq Dom(b))
              \/ (\E r \in Management : src[r] = None)
           THEN pc' = "plan" /\ UNCHANGED <<target, meta, ready, state>>
           ELSE IF \E r \in Management : Mismatch(b, r)
           THEN pc' = "save" /\ UNCHANGED <<target, meta, ready, state>>
           ELSE /\ pc' = "plan" /\ ready' = TRUE
                /\ target' = [r \in Res |-> IF r \in Management THEN src[r] ELSE target[r]]
                /\ meta' = [r \in Res |-> r \in Management \/ meta[r]]
                /\ state' = [state EXCEPT !.applied =
                      [r \in Res |-> IF r \in Management THEN src[r] ELSE @[r]]]
        /\ UNCHANGED <<offer, due, files, app, saved, active, plan, woken, counts, claimed>>

\* every source is verified and every update decided before anything changes
Plan ==
    LET b == plan.boot
        present == {r \in Dom(b) : src[r] # None}
        content == {r \in present : Rewrite(b, r)}
    IN  /\ pc = "plan"
        /\ IF \/ \E r \in Dom(b) : Mismatch(b, r)
              \/ ~(Dom(b) \cap Required \subseteq present)
           THEN pc' = "save" /\ UNCHANGED <<plan, app>>
           ELSE /\ pc' = "apply"
                /\ plan' = [boot |-> b, todo |-> present, write |-> content,
                            touch |-> {r \in present : Touch(b, r)},
                            stopped |-> content # {} /\ app]
                /\ app' = (app /\ content = {})
        /\ UNCHANGED <<offer, due, files, target, meta, ready, saved, state, active,
                       woken, counts, claimed>>

\* the recorded digest; that of a mutable resource is what was seeded
Digest(b, r, content) ==
    IF r \notin Mutable THEN b.want[r]
    ELSE IF r \in plan.write THEN content
    ELSE IF state.applied[r] # None THEN state.applied[r] ELSE b.want[r]

\* apply_resource_once, or metadata only; the source is read again and may be
\* a newer one than the one that was verified
Write(r) ==
    LET b == plan.boot
        content == IF r \in plan.write /\ target[r] # b.want[r] THEN src[r] ELSE target[r]
    IN  /\ pc = "apply" /\ r \in plan.todo
        /\ target' = [target EXCEPT ![r] = content]
        /\ meta' = [meta EXCEPT ![r] = @ \/ r \in plan.write \cup plan.touch]
        /\ state' = [state EXCEPT !.applied[r] = Digest(b, r, content)]
        /\ plan' = [plan EXCEPT !.todo = @ \ {r}]
        /\ UNCHANGED <<offer, due, files, app, ready, saved, active, pc, woken, counts,
                       claimed>>

\* the context, the generation and the application
Start ==
    /\ pc = "apply" /\ plan.todo = {}
    /\ state' = [state EXCEPT !.gen = plan.boot.gen]
    /\ active' = plan.boot
    /\ app' = TRUE
    /\ pc' = "save" /\ plan' = NoPlan
    /\ UNCHANGED <<offer, due, files, target, meta, ready, saved, woken, counts, claimed>>

Fault == faults < MaxFaults /\ faults' = faults + 1

\* stopping the application, a copy or the context file fails; only a failed
\* copy starts the application again, and only if it ran
Fail ==
    /\ Fault /\ pc = "apply"
    /\ app' = (app \/ (plan.stopped /\ plan.todo # {}))
    /\ pc' = "save" /\ plan' = NoPlan
    /\ UNCHANGED <<offer, due, files, target, meta, ready, saved, state, active, woken,
                   changes, claimed>>

Seeded == {r \in Mutable : state.applied[r] # None /\ target[r] # None}

Save ==
    /\ pc = "save"
    /\ saved' = state
    /\ claimed' = claimed \cup Seeded
    /\ pc' = "wait" /\ plan' = NoPlan
    /\ UNCHANGED <<offer, due, files, guest, state, active, woken, counts>>

\* write_daemon_state fails, which is only logged
SaveFails ==
    /\ Fault /\ pc = "save"
    /\ pc' = "wait" /\ plan' = NoPlan
    /\ UNCHANGED <<offer, due, files, guest, saved, state, active, woken, changes, claimed>>

Unsaved == \E r \in Mutable : saved.applied[r] = None /\ target[r] # None
Restart ==
    /\ state' = saved /\ active' = None /\ pc' = "wait" /\ plan' = NoPlan
    /\ woken' = TRUE
    /\ claimed' = claimed \cap {r \in Res : saved.applied[r] # None}

\* the daemon dies and systemd starts it again; the application is a service
\* of its own
Die ==
    /\ Fault
    /\ Unsaved => DiesUnsaved
    /\ Restart
    /\ UNCHANGED <<offer, due, files, guest, saved, changes>>

\* the guest restarts: what was staged under /run is gone and delivered again
Reboot ==
    /\ Fault
    /\ Unsaved => DiesUnsaved
    /\ Restart
    /\ app' = FALSE /\ ready' = FALSE
    /\ boot' = None /\ src' = [r \in Res |-> None]
    /\ due' = IF offer = None THEN {} ELSE {"bootstrap"} \cup Dom(offer)
    /\ UNCHANGED <<offer, target, meta, saved, changes>>

Step == Round \/ Manage \/ Plan \/ (\E r \in Res : Write(r)) \/ Start \/ Save

Next ==
    \/ \E o \in Offer : Deliver(o)
    \/ \E x \in Res \cup {"bootstrap"} : Arrive(x)
    \/ \E r \in Res : Drift(r) \/ AppWrites(r, Own) \/ AppWrites(r, None)
    \/ Step
    \/ Fail \/ SaveFails \/ Die \/ Reboot

Spec == Init /\ [][Next]_vars

\* the operator's delivery ends, and the daemon goes on
Fairness ==
    /\ \A x \in Res \cup {"bootstrap"} : WF_vars(Arrive(x))
    /\ WF_vars(Step)
FairSpec == Spec /\ Fairness

----------------------------------------------------------------------------
StateType == [gen : Nat, applied : [Res -> Ver \cup {None}]]

TypeOK ==
    /\ offer = None \/ offer \in [gen : Nat, want : Offer]
    /\ due \subseteq Res \cup {"bootstrap"}
    /\ src \in [Res -> Ver \cup {None}]
    /\ target \in [Res -> Ver \cup {Own, None}]
    /\ meta \in [Res -> BOOLEAN]
    /\ app \in BOOLEAN /\ ready \in BOOLEAN
    /\ saved \in StateType /\ state \in StateType
    /\ pc \in {"wait", "manage", "plan", "apply", "save"}
    /\ claimed \subseteq Mutable

(* What the application made of a mutable resource stays, through new      *)
(* bootstraps, failures, deaths and reboots, once the seeding was saved    *)
(* and as long as bootstraps go on naming it (docs/spec.md:365).           *)
MutableKept ==
    [][\A r \in Mutable : r \in claimed /\ target[r] = Own => target'[r] \in {Own, None}]_vars

(* The same without the exception: content of the application is never     *)
(* replaced by the operator's.                                             *)
NeverReseeded ==
    [][\A r \in Mutable : target[r] = Own => target'[r] \in {Own, None}]_vars

Served ==
    /\ app /\ boot = offer
    /\ \A r \in Dom(offer) :
          IF r \in Mutable THEN target[r] # None ELSE Matches(r, offer.want[r])

\* A challenge guest whose first apply failed sleeps until something arrives.
Stranded == ~Trustee /\ active = None /\ ~woken /\ pc = "wait"

(* The application ends up running on what was delivered last: missing     *)
(* sources are waited for, failures retried, drift is put right, and a     *)
(* source that was replaced between its check and its copy too.            *)
EventuallyServed == <>[](offer # None => Served \/ Stranded)
=============================================================================
