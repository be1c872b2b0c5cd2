---------------------------- MODULE TrusteePolicy ----------------------------
(***************************************************************************)
(* The host CLI's custody of a remote Trustee: one local state file, one   *)
(* remote resource policy and one repository of secrets per service.       *)
(*                                                                         *)
(* A mutation (reconcile, revoke, cleanup, dynamic put, prune, adopt) runs *)
(* under the state-directory lock from the moment it loads the local state *)
(* and the remote snapshot until its last local write, so at most one is   *)
(* in progress: `cmd'.  It can stop between any two remote or local writes *)
(* (process crash, failed request, lost response); `Interrupt' drops it    *)
(* and keeps whatever had been written.  Local and remote state are then   *)
(* one revision apart and the transaction marker inside the remote policy  *)
(* says who may continue.                                                  *)
(*                                                                         *)
(* A digest is injective here: the digest of a policy is the policy.       *)
(***************************************************************************)
EXTENDS Naturals, FiniteSets

CONSTANTS
    Service,         \* service ids managed from this state directory
    Binding,         \* (runtime-config digest, UKI digests) a guest attests to
    Path,            \* logical resource paths of a repository
    NoService, NoBinding,
    Wanted,          \* Wanted[b]: the paths a sync for binding b uploads
    DynamicPath,     \* the path of the mesh/A2A bundle
    MaxRevision,     \* bound: no sync, put or adopt starts at this revision
    MaxInterrupts,   \* bound: interruptions in one behaviour
    MaxEdits,        \* bound: policy changes made by somebody else
    RetryOriginal,   \* TRUE: an interrupted sync is retried as it was
    AdoptWhenOwned   \* TRUE: the operator may adopt an already owned policy

ASSUME BindingAssumption == NoBinding \notin Binding /\ NoService \notin Service
ASSUME PathAssumption == Wanted \in [Binding -> SUBSET Path] /\ DynamicPath \in Path
ASSUME BoundAssumption ==
    /\ MaxRevision \in Nat /\ MaxInterrupts \in Nat /\ MaxEdits \in Nat
    /\ RetryOriginal \in BOOLEAN /\ AdoptWhenOwned \in BOOLEAN

VARIABLES
    \* <state-dir>/trustee/state.json
    revision, adopted, attestationDigest, resourcePolicyDigest, services,
    pendingReconcile,
    \* the Trustee server
    remoteAttestation, remotePolicy, repository,
    \* the command that holds the state-directory lock
    cmd,
    \* bounds
    interrupts, edits

local  == <<revision, adopted, attestationDigest, resourcePolicyDigest,
            services, pendingReconcile>>
remote == <<remoteAttestation, remotePolicy, repository>>
vars   == <<local, remote, cmd, interrupts, edits>>

-----------------------------------------------------------------------------
(* Values *)

Operation == {"reconcile", "revoke", "cleanup"}
Transaction == [op : Operation, svc : Service]
NoTransaction == [op |-> "none", svc |-> NoService]

MaybeBinding == Binding \cup {NoBinding}
Policy == [owner : {"none", "self", "other"}, revision : Nat, edited : BOOLEAN,
           transaction : Transaction \cup {NoTransaction},
           bindings : [Service -> MaybeBinding]]
BaselinePolicy ==
    [owner |-> "none", revision |-> 0, edited |-> FALSE,
     transaction |-> NoTransaction, bindings |-> [s \in Service |-> NoBinding]]
NoDigest == [BaselinePolicy EXCEPT !.owner = "absent"]
NoAdoption == [attestation |-> "none", policy |-> NoDigest]

Absent == [status |-> "absent", binding |-> NoBinding, resources |-> {}]
ServiceState == {Absent} \cup
    [status : {"enabled", "disabled"}, binding : Binding, resources : SUBSET Path]
Committed(b) == [status |-> "enabled", binding |-> b, resources |-> Wanted[b]]
NoPending == [svc |-> NoService, binding |-> NoBinding]

Idle == [op |-> "idle", svc |-> NoService, binding |-> NoBinding,
         pc |-> "idle", todo |-> {}]
Command == [op : Operation \cup {"idle", "put", "prune"}, svc : Service \cup {NoService},
            binding : MaybeBinding, pc : {"idle", "deny", "restrict", "upload",
            "record", "delete", "policy", "commit"}, todo : SUBSET Path]

-----------------------------------------------------------------------------
(* What the policy file grants, and the policies the CLI renders *)

Rank(op) == CASE op = "reconcile" -> 0 [] op = "revoke" -> 1 [] op = "cleanup" -> 2

CanResumeAnything(marker, request) ==
    /\ marker # NoTransaction /\ request # NoTransaction
    /\ Rank(request.op) >= Rank(marker.op)

CanResumeOnlyItself(marker, request) ==
    marker # NoTransaction /\ request = marker

CanResumeAs(marker, request) ==
    /\ marker # NoTransaction /\ request # NoTransaction
    /\ marker.svc = request.svc
    /\ Rank(request.op) >= Rank(marker.op)

Grants(svcs) == [s \in Service |->
    IF svcs[s].status = "enabled" THEN svcs[s].binding ELSE NoBinding]

RenderPolicy(svcs, tx) ==
    [owner |-> "self", revision |-> revision + 1, edited |-> FALSE,
     transaction |-> tx, bindings |-> Grants(svcs)]

DenyAll(tx) ==
    [owner |-> "self", revision |-> revision + 1, edited |-> FALSE,
     transaction |-> tx, bindings |-> [s \in Service |-> NoBinding]]

-----------------------------------------------------------------------------
(* ensure_remote_control: may `request' (NoTransaction for put and prune)   *)
(* change the remote side?  `Claims' is its Ok(true), `Owns' its Ok(false). *)

PendingAllows(request) ==
    pendingReconcile # NoPending =>
        request # NoTransaction /\ request.svc = pendingReconcile.svc

AttestationExplained ==
    \/ remoteAttestation = "default"
    \/ /\ attestationDigest = "none"
       /\ adopted.attestation = remoteAttestation

Synced == resourcePolicyDigest = remotePolicy
RecoveryPending == ~Synced /\ remotePolicy.revision = revision + 1

Owns(request) ==
    /\ PendingAllows(request)
    /\ remotePolicy.owner = "self"
    /\ AttestationExplained
    /\ Synced \/ (RecoveryPending /\ CanResumeAs(remotePolicy.transaction, request))

Claims(request) ==
    /\ PendingAllows(request)
    /\ remotePolicy.owner = "none"
    /\ adopted = [attestation |-> remoteAttestation, policy |-> remotePolicy]

Controls(request) == Owns(request) \/ Claims(request)

Managed(s) == services[s].status # "absent" \/ pendingReconcile.svc = s

AttestationBindingNew(s, b) ==
    services[s].status = "absent"

AttestationBindingChanged(s, b) ==
    services[s].status # "enabled" \/ services[s].binding # b

-----------------------------------------------------------------------------
Init ==
    /\ revision = 0
    /\ adopted = NoAdoption
    /\ attestationDigest = "none"
    /\ resourcePolicyDigest = NoDigest
    /\ services = [s \in Service |-> Absent]
    /\ pendingReconcile = NoPending
    /\ remoteAttestation = "baseline"
    /\ remotePolicy = BaselinePolicy
    /\ repository = [s \in Service |-> {}]
    /\ cmd = Idle
    /\ interrupts = 0
    /\ edits = 0

-----------------------------------------------------------------------------
(* adopt: accept the current policies as the baseline to claim from *)
Adopt ==
    /\ cmd = Idle
    /\ revision < MaxRevision
    /\ remotePolicy.owner = "none" \/ AdoptWhenOwned
    /\ pendingReconcile = NoPending
    /\ adopted' = [attestation |-> remoteAttestation, policy |-> remotePolicy]
    /\ revision' = revision + 1
    /\ UNCHANGED <<attestationDigest, resourcePolicyDigest, services,
                   pendingReconcile, remote, cmd, interrupts, edits>>

(* reconcile_service, up to the first local write: custody is recorded *)
(* before anything is sent.                                            *)
BeginReconcile(s, b) ==
    LET request == [op |-> "reconcile", svc |-> s] IN
    /\ cmd = Idle
    /\ revision < MaxRevision
    /\ RetryOriginal /\ pendingReconcile.svc = s => pendingReconcile.binding = b
    /\ Controls(request)
    /\ pendingReconcile' = [svc |-> s, binding |-> b]
    /\ cmd' = [op |-> "reconcile", svc |-> s, binding |-> b, todo |-> Wanted[b],
               pc |-> IF Claims(request) THEN "deny"
                      ELSE IF AttestationBindingChanged(s, b) THEN "restrict"
                      ELSE "upload"]
    /\ UNCHANGED <<revision, adopted, attestationDigest, resourcePolicyDigest,
                   services, remote, interrupts, edits>>

(* First claim: own the policy and deny everything before any upload *)
SetDenyAll ==
    /\ cmd.pc = "deny"
    /\ remotePolicy' = DenyAll([op |-> cmd.op, svc |-> cmd.svc])
    /\ cmd' = [cmd EXCEPT !.pc = "upload"]
    /\ UNCHANGED <<local, remoteAttestation, repository, interrupts, edits>>

(* The authorised binding changes: withdraw this service's grant first *)
Withdrawn ==
    IF services[cmd.svc] = Absent THEN services
    ELSE [services EXCEPT ![cmd.svc].status = "disabled"]

SetRestricted ==
    /\ cmd.pc = "restrict"
    /\ remotePolicy' =
         RenderPolicy(Withdrawn, [op |-> cmd.op, svc |-> cmd.svc])
    /\ cmd' = [cmd EXCEPT !.pc = "upload"]
    /\ UNCHANGED <<local, remoteAttestation, repository, interrupts, edits>>

UploadOne ==
    /\ cmd.op = "reconcile" /\ cmd.pc = "upload"
    /\ \E p \in cmd.todo :
         /\ repository' = [repository EXCEPT ![cmd.svc] = @ \cup {p}]
         /\ cmd' = [cmd EXCEPT !.todo = @ \ {p}]
    /\ UNCHANGED <<local, remoteAttestation, remotePolicy, interrupts, edits>>

(* register_reference_values (append-only) and set_attestation_policy *)
SetAttestationPolicy ==
    /\ cmd.op = "reconcile" /\ cmd.pc = "upload" /\ cmd.todo = {}
    /\ remoteAttestation' = "default"
    /\ cmd' = [cmd EXCEPT !.pc = "policy"]
    /\ UNCHANGED <<local, remotePolicy, repository, interrupts, edits>>

(* The services the finished transaction leaves behind *)
Proposed ==
    [services EXCEPT ![cmd.svc] =
        CASE cmd.op = "reconcile" -> Committed(cmd.binding)
          [] cmd.op = "revoke" ->
               [(IF pendingReconcile.svc = cmd.svc
                 THEN Committed(pendingReconcile.binding) ELSE @)
                EXCEPT !.status = "disabled"]
          [] OTHER -> Absent]

SetResourcePolicy ==
    /\ cmd.pc = "policy"
    /\ remotePolicy' = RenderPolicy(Proposed, [op |-> cmd.op, svc |-> cmd.svc])
    /\ cmd' = [cmd EXCEPT !.pc = "commit"]
    /\ UNCHANGED <<local, remoteAttestation, repository, interrupts, edits>>

(* write_trustee_state, the last step of reconcile, revoke and cleanup *)
Commit ==
    /\ cmd.pc = "commit"
    /\ services' = Proposed
    /\ revision' = revision + 1
    /\ resourcePolicyDigest' = remotePolicy
    /\ attestationDigest' = IF cmd.op = "reconcile" THEN "default" ELSE attestationDigest
    /\ pendingReconcile' =
         IF cmd.op = "reconcile" \/ (cmd.op = "revoke" /\ pendingReconcile.svc = cmd.svc)
         THEN NoPending ELSE pendingReconcile
    /\ cmd' = Idle
    /\ UNCHANGED <<adopted, remote, interrupts, edits>>

(* revoke_service of a service that is enabled or half reconciled.  Of a   *)
(* disabled service it only checks that cleanup may run, and changes       *)
(* nothing.                                                                *)
BeginRevoke(s) ==
    /\ cmd = Idle
    /\ services[s].status = "enabled" \/ pendingReconcile.svc = s
    /\ Controls([op |-> "revoke", svc |-> s])
    /\ cmd' = [Idle EXCEPT !.op = "revoke", !.svc = s, !.pc = "policy"]
    /\ UNCHANGED <<local, remote, interrupts, edits>>

BeginCleanupOfRecorded(s) ==
    /\ cmd = Idle
    /\ services[s].status = "disabled"
    /\ pendingReconcile.svc # s
    /\ Controls([op |-> "cleanup", svc |-> s])
    /\ cmd' = [Idle EXCEPT !.op = "cleanup", !.svc = s, !.pc = "delete",
                           !.todo = services[s].resources]
    /\ UNCHANGED <<local, remote, interrupts, edits>>

(* cleanup_revoked_service: every path the remote listing shows is deleted. *)
(* destroy calls it after revoke_service, which absorbs a pending sync of   *)
(* the service, and holds the operation lock that keeps new ones out.       *)
BeginCleanup(s) ==
    /\ cmd = Idle
    /\ services[s].status = "disabled"
    /\ pendingReconcile.svc # s
    /\ Controls([op |-> "cleanup", svc |-> s])
    /\ cmd' = [Idle EXCEPT !.op = "cleanup", !.svc = s, !.pc = "delete",
                           !.todo = repository[s]]
    /\ UNCHANGED <<local, remote, interrupts, edits>>

DeleteOne ==
    /\ cmd.pc = "delete"
    /\ \E p \in cmd.todo :
         /\ repository' = [repository EXCEPT ![cmd.svc] = @ \ {p}]
         /\ cmd' = [cmd EXCEPT !.todo = @ \ {p}]
    /\ UNCHANGED <<local, remoteAttestation, remotePolicy, interrupts, edits>>

DeletesDone ==
    /\ cmd.pc = "delete" /\ cmd.todo = {}
    /\ cmd' = IF cmd.op = "cleanup" THEN [cmd EXCEPT !.pc = "policy"] ELSE Idle
    /\ UNCHANGED <<local, remote, interrupts, edits>>

(* put_dynamic_resource_inner: upload, then record; the policy is unchanged *)
BeginPut(s) ==
    /\ cmd = Idle
    /\ revision < MaxRevision
    /\ Controls(NoTransaction)
    /\ services[s].status = "enabled"
    /\ cmd' = [Idle EXCEPT !.op = "put", !.svc = s, !.pc = "upload"]
    /\ UNCHANGED <<local, remote, interrupts, edits>>

PutUpload ==
    /\ cmd.op = "put" /\ cmd.pc = "upload"
    /\ repository' = [repository EXCEPT ![cmd.svc] = @ \cup {DynamicPath}]
    /\ cmd' = [cmd EXCEPT !.pc = "record"]
    /\ UNCHANGED <<local, remoteAttestation, remotePolicy, interrupts, edits>>

PutRecord ==
    /\ cmd.pc = "record"
    /\ services' = [services EXCEPT ![cmd.svc].resources = @ \cup {DynamicPath}]
    /\ revision' = revision + 1
    /\ cmd' = Idle
    /\ UNCHANGED <<adopted, attestationDigest, resourcePolicyDigest,
                   pendingReconcile, remote, interrupts, edits>>

(* prune --apply of the managed repository of s: paths no record names *)
BeginPrune(s) ==
    /\ cmd = Idle
    /\ Controls(NoTransaction)
    /\ services[s].status # "absent"
    /\ repository[s] \ services[s].resources # {}
    /\ cmd' = [Idle EXCEPT !.op = "prune", !.svc = s, !.pc = "delete",
                           !.todo = repository[s] \ services[s].resources]
    /\ UNCHANGED <<local, remote, interrupts, edits>>

-----------------------------------------------------------------------------
(* The command dies: crash, failed request, or a response that never came *)
Interrupt ==
    /\ cmd # Idle
    /\ interrupts < MaxInterrupts
    /\ interrupts' = interrupts + 1
    /\ cmd' = Idle
    /\ UNCHANGED <<local, remote, edits>>

(* Somebody else changes a policy while no command runs: another           *)
(* administrator edits or replaces the settled resource policy, resets the *)
(* attestation policy, or changes the baseline before it is claimed.       *)
ForeignEdit ==
    /\ cmd = Idle
    /\ edits < MaxEdits
    /\ edits' = edits + 1
    /\ \/ /\ Synced \/ remotePolicy.owner = "none"
          /\ remotePolicy' = [remotePolicy EXCEPT !.edited = ~@]
          /\ UNCHANGED remoteAttestation
       \/ /\ Synced
          /\ remotePolicy' = [remotePolicy EXCEPT !.owner = "other", !.edited = TRUE]
          /\ UNCHANGED remoteAttestation
       \/ /\ remoteAttestation' = "foreign"
          /\ UNCHANGED remotePolicy
    /\ UNCHANGED <<local, repository, cmd, interrupts>>

Begin == \E s \in Service :
    \/ \E b \in Binding : BeginReconcile(s, b)
    \/ BeginRevoke(s) \/ BeginCleanup(s) \/ BeginPut(s) \/ BeginPrune(s)

Step == \/ SetDenyAll \/ SetRestricted \/ UploadOne \/ SetAttestationPolicy
        \/ SetResourcePolicy \/ Commit \/ DeleteOne \/ DeletesDone
        \/ PutUpload \/ PutRecord

Next == Adopt \/ Begin \/ Step \/ Interrupt \/ ForeignEdit

Spec == Init /\ [][Next]_vars

-----------------------------------------------------------------------------
(* Properties *)

TypeOK ==
    /\ revision \in Nat
    /\ adopted \in [attestation : {"none", "baseline", "default", "foreign"},
                    policy : Policy \cup {NoDigest}]
    /\ attestationDigest \in {"none", "default"}
    /\ resourcePolicyDigest \in Policy \cup {NoDigest}
    /\ services \in [Service -> ServiceState]
    /\ pendingReconcile \in [svc : Service, binding : Binding] \cup {NoPending}
    /\ remoteAttestation \in {"baseline", "default", "foreign"}
    /\ remotePolicy \in Policy
    /\ repository \in [Service -> SUBSET Path]
    /\ cmd \in Command
    /\ interrupts \in Nat /\ edits \in Nat

\* What each command relies on from its first step to its last: the record
\* that justified it is still there, and a cleanup that stopped deleting has
\* left nothing behind.
CommandInv ==
    \/ cmd = Idle
    \/ /\ cmd.svc \in Service
       /\ \/ /\ cmd.op = "reconcile" /\ cmd.binding \in Binding
             /\ cmd.pc \in {"deny", "restrict", "upload", "policy", "commit"}
             /\ pendingReconcile = [svc |-> cmd.svc, binding |-> cmd.binding]
          \/ /\ cmd.op = "revoke" /\ cmd.pc \in {"policy", "commit"}
             /\ services[cmd.svc] # Absent \/ pendingReconcile.svc = cmd.svc
          \/ /\ cmd.op = "cleanup" /\ cmd.pc \in {"delete", "policy", "commit"}
             /\ services[cmd.svc].status = "disabled"
             /\ pendingReconcile.svc # cmd.svc
             /\ repository[cmd.svc] = (IF cmd.pc = "delete" THEN cmd.todo ELSE {})
          \/ /\ cmd.op = "put" /\ cmd.pc \in {"upload", "record"}
             /\ services[cmd.svc].status = "enabled"
          \/ /\ cmd.op = "prune" /\ cmd.pc = "delete"
             /\ services[cmd.svc] # Absent

\* How the local record and the remote policy are related: the digest stands
\* for the recorded grants, a policy one revision ahead differs from them at
\* most for the service its marker names, and an unclaimed Trustee grants
\* nothing and is recorded by nothing.
PolicyInv ==
    /\ resourcePolicyDigest.bindings = Grants(services)
    /\ resourcePolicyDigest.revision <= revision
    /\ remotePolicy.revision <= revision + 1
    /\ remotePolicy.owner = "self" /\ remotePolicy.revision = revision + 1 =>
         \A t \in Service \ {remotePolicy.transaction.svc} :
             remotePolicy.bindings[t] = Grants(services)[t]
    /\ remotePolicy.owner = "none" => \A t \in Service :
         remotePolicy.bindings[t] = NoBinding /\ services[t] = Absent
    /\ cmd.op \in Operation => \A t \in Service \ {cmd.svc} :
         remotePolicy.bindings[t] = Grants(services)[t]
    /\ cmd.pc = "deny" => remotePolicy.owner = "none"
    /\ cmd.pc = "commit" =>
         /\ remotePolicy.owner = "self" /\ remotePolicy.revision = revision + 1
         /\ remotePolicy.bindings = Grants(Proposed)

\* Whatever the Trustee holds for a service, a secret or a grant, is
\* attributable to a record in the local state file at every instant, so that
\* `destroy' can always find it: custody is written before the first upload
\* (reconcile_service) and given up after the last delete (cleanup).
NoOrphanedSecret ==
    \A s \in Service : ~Managed(s) =>
        repository[s] = {} /\ remotePolicy.bindings[s] = NoBinding

\* The inductive invariant behind NoOrphanedSecret, OthersKeepTheirGrant and
\* ImplementsCustody.
IInv == TypeOK /\ CommandInv /\ PolicyInv /\ NoOrphanedSecret

\* While a sync uploads, the remote policy admits nobody to that repository,
\* or only guests of the binding being uploaded for: "Revoke this repository
\* before replacing any resource whenever the authorized runtime/UKI binding
\* changes" (reconcile_service).
UploadUnderOwnBinding ==
    cmd.op = "reconcile" /\ cmd.pc = "upload" =>
        remotePolicy.bindings[cmd.svc] \in {NoBinding, cmd.binding}

\* A transaction for one service leaves every other service's grant as it is,
\* although policies are rendered from local state that an earlier crash may
\* have left a revision behind (ensure_remote_control, can_resume_as).
OthersKeepTheirGrant ==
    [][\A t \in Service \ {cmd.svc} :
          remotePolicy'.bindings[t] = remotePolicy.bindings[t]]_vars

Drifted ==
    \/ remotePolicy.owner = "other"
    \/ remotePolicy.owner = "self" /\ (remotePolicy.edited \/ ~AttestationExplained)
    \/ remotePolicy.owner = "none" /\
         adopted # [attestation |-> remoteAttestation, policy |-> remotePolicy]

Interrupted(s) ==
    \/ pendingReconcile.svc = s
    \/ remotePolicy.owner = "self" /\ ~Synced /\ remotePolicy.transaction.svc = s

DestroyAccepted(s) ==
    IF services[s].status = "enabled" \/ pendingReconcile.svc = s
    THEN Controls([op |-> "revoke", svc |-> s])
    ELSE services[s].status = "disabled" /\ Controls([op |-> "cleanup", svc |-> s])

\* "Any step can be rerun after an interruption" (docs/trustee.md): wherever
\* a command died, `destroy' of the service it worked on is accepted.
InterruptedCanBeDestroyed ==
    cmd = Idle /\ ~Drifted => \A s \in Service : Interrupted(s) => DestroyAccepted(s)

\* An operator who keeps destroying the services retires all of them, however
\* syncs, puts and prunes interleave with that and wherever commands die,
\* unless somebody else changed the policies and the change was not adopted.
EverythingRetired == \A s \in Service : ~Managed(s) /\ repository[s] = {}
                                        /\ remotePolicy.bindings[s] = NoBinding
EventuallyRetired == <>[](EverythingRetired \/ Drifted)

\* Fairness: a command that was started and does not die makes its next call,
\* and the operator goes on issuing `destroy' for each managed service.
FairSpec ==
    /\ Spec /\ WF_vars(Step)
    /\ \A s \in Service : WF_vars(BeginRevoke(s)) /\ WF_vars(BeginCleanup(s))

\* What the protocol promises, without its transactions: see SecretCustody.
Custody == INSTANCE SecretCustody WITH
    custody <- {s \in Service : Managed(s)},
    grant   <- remotePolicy.bindings,
    stored  <- repository
ImplementsCustody == Custody!Spec

=============================================================================
