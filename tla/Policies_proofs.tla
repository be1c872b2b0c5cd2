-------------------------- MODULE Policies_proofs --------------------------
(***************************************************************************)
(* Two policies that decide on what others ask for.  The custody protocol  *)
(* of Trustee is safe for every set of services, bindings and paths, and   *)
(* every bound on revisions, interruptions and foreign changes.  What      *)
(* cai-pep answers and what it cleans up is right for any number of        *)
(* requests, any clock and any number of deaths of the server.             *)
(***************************************************************************)
EXTENDS TrusteePolicy, CommandPolicy, TLAPS

----------------------------------------------------------------------------
(* Trustee *)

LEMMA InitIInv == Init => IInv
<1> SUFFICES ASSUME Init PROVE IInv
    OBVIOUS
<1> USE BindingAssumption, PathAssumption DEF Init
<1>1. TypeOK
    BY DEF TypeOK, NoAdoption, NoDigest, BaselinePolicy, Policy, ServiceState,
       Absent, MaybeBinding, Command, Idle, NoPending
<1>2. CommandInv
    BY DEF CommandInv
<1>3. PolicyInv
    BY DEF PolicyInv, Grants, NoDigest, BaselinePolicy, Absent, Idle, Operation
<1>4. NoOrphanedSecret
    BY DEF NoOrphanedSecret, BaselinePolicy
<1> QED
    BY <1>1, <1>2, <1>3, <1>4 DEF IInv

(* What the policies a command renders are made of *)
LEMMA GrantsType ==
    ASSUME NEW svcs \in [Service -> ServiceState]
    PROVE  Grants(svcs) \in [Service -> MaybeBinding]
BY DEF Grants, ServiceState, Absent, MaybeBinding

LEMMA RenderPolicyType ==
    ASSUME revision \in Nat, NEW svcs \in [Service -> ServiceState],
           NEW tx \in Transaction
    PROVE  RenderPolicy(svcs, tx) \in Policy /\ DenyAll(tx) \in Policy
<1>1. Grants(svcs) \in [Service -> MaybeBinding]
    BY GrantsType
<1>2. [s \in Service |-> NoBinding] \in [Service -> MaybeBinding]
    BY DEF MaybeBinding
<1> QED
    BY <1>1, <1>2 DEF RenderPolicy, DenyAll, Policy

LEMMA CommittedType ==
    ASSUME NEW b \in Binding
    PROVE  Committed(b) \in ServiceState /\ Committed(b).status = "enabled"
BY PathAssumption DEF Committed, ServiceState

(* A command in progress has a service, and its transaction is well formed *)
LEMMA ProposedType ==
    ASSUME TypeOK, CommandInv, cmd.op \in Operation
    PROVE  /\ cmd.svc \in Service
           /\ [op |-> cmd.op, svc |-> cmd.svc] \in Transaction
           /\ Proposed \in [Service -> ServiceState]
<1>1. cmd.svc \in Service
    BY DEF CommandInv, Idle, Operation
<1>2. CASE cmd.op = "reconcile"
  <2>1. cmd.binding \in Binding
      BY <1>2 DEF CommandInv, Idle
  <2> QED
      BY <1>1, <1>2, <2>1, CommittedType DEF Proposed, TypeOK, Transaction
<1>3. CASE cmd.op = "revoke"
  <2> DEFINE base == IF pendingReconcile.svc = cmd.svc
                     THEN Committed(pendingReconcile.binding)
                     ELSE services[cmd.svc]
  <2>1. base \in ServiceState \ {Absent}
    <3>1. CASE pendingReconcile.svc = cmd.svc
      <4>1. pendingReconcile.binding \in Binding
          BY <1>1, <3>1, BindingAssumption DEF TypeOK, NoPending
      <4> QED
          BY <3>1, <4>1, CommittedType DEF Absent
    <3>2. CASE pendingReconcile.svc # cmd.svc
      <4>1. services[cmd.svc] # Absent
          BY <1>3, <3>2 DEF CommandInv, Idle
      <4> QED
          BY <1>1, <3>2, <4>1 DEF TypeOK
    <3> QED
        BY <3>1, <3>2
  <2>2. [base EXCEPT !.status = "disabled"] \in ServiceState
      BY <2>1 DEF ServiceState
  <2>3. Proposed = [services EXCEPT ![cmd.svc] = [base EXCEPT !.status = "disabled"]]
      BY <1>1, <1>3 DEF Proposed, TypeOK
  <2> QED
      BY <1>1, <1>3, <2>2, <2>3 DEF TypeOK, Transaction, Operation
<1>4. CASE cmd.op = "cleanup"
    BY <1>1, <1>4 DEF Proposed, TypeOK, ServiceState, Transaction, Operation
<1> QED
    BY <1>1, <1>2, <1>3, <1>4 DEF Operation

LEMMA WithdrawnType ==
    ASSUME TypeOK, CommandInv, cmd.op \in Operation
    PROVE  Withdrawn \in [Service -> ServiceState]
<1>1. cmd.svc \in Service /\ services[cmd.svc] \in ServiceState
    BY ProposedType DEF TypeOK
<1>2. CASE services[cmd.svc] = Absent
    BY <1>2 DEF TypeOK, Withdrawn
<1>3. CASE services[cmd.svc] # Absent
  <2>1. [services[cmd.svc] EXCEPT !.status = "disabled"] \in ServiceState
      BY <1>1, <1>3 DEF ServiceState
  <2> QED
      BY <1>3, <2>1 DEF TypeOK, Withdrawn
<1> QED
    BY <1>2, <1>3

LEMMA NextTypeOK == TypeOK /\ CommandInv /\ [Next]_vars => TypeOK'
<1> SUFFICES ASSUME TypeOK, CommandInv, [Next]_vars PROVE TypeOK'
    OBVIOUS
<1> USE BindingAssumption, PathAssumption
<1>1. CASE Adopt
    BY <1>1 DEF Adopt, TypeOK, remote
<1>2. ASSUME NEW s \in Service, NEW b \in Binding, BeginReconcile(s, b)
      PROVE  TypeOK'
    BY <1>2 DEF BeginReconcile, TypeOK, remote, Command, Operation, MaybeBinding
<1>3. CASE SetDenyAll
  <2>1. cmd.op \in Operation
      BY <1>3 DEF SetDenyAll, CommandInv, Idle, Operation
  <2>2. remotePolicy' \in Policy
      BY <1>3, <2>1, ProposedType, RenderPolicyType DEF SetDenyAll, TypeOK
  <2> QED
      BY <1>3, <2>2 DEF SetDenyAll, TypeOK, local, Command
<1>4. CASE SetRestricted
  <2>1. cmd.op \in Operation
      BY <1>4 DEF SetRestricted, CommandInv, Idle, Operation
  <2>2. Withdrawn \in [Service -> ServiceState]
      BY <2>1, WithdrawnType
  <2>3. remotePolicy' \in Policy
      BY <1>4, <2>1, <2>2, ProposedType, RenderPolicyType DEF SetRestricted, TypeOK
  <2> QED
      BY <1>4, <2>3 DEF SetRestricted, TypeOK, local, Command
<1>5. CASE UploadOne
    BY <1>5 DEF UploadOne, TypeOK, local, Command, CommandInv, Idle
<1>6. CASE SetAttestationPolicy
    BY <1>6 DEF SetAttestationPolicy, TypeOK, local, Command
<1>7. CASE SetResourcePolicy
  <2>1. cmd.op \in Operation
      BY <1>7 DEF SetResourcePolicy, CommandInv, Idle, Operation
  <2>2. remotePolicy' \in Policy
      BY <1>7, <2>1, ProposedType, RenderPolicyType DEF SetResourcePolicy, TypeOK
  <2> QED
      BY <1>7, <2>2 DEF SetResourcePolicy, TypeOK, local, Command
<1>8. CASE Commit
  <2>1. cmd.op \in Operation
      BY <1>8 DEF Commit, CommandInv, Idle, Operation
  <2>2. services' \in [Service -> ServiceState]
      BY <1>8, <2>1, ProposedType DEF Commit
  <2> QED
      BY <1>8, <2>2 DEF Commit, TypeOK, remote, Command, Idle, MaybeBinding
<1>9. ASSUME NEW s \in Service, BeginRevoke(s) \/ BeginCleanup(s)
      PROVE  TypeOK'
  <2>1. cmd' \in Command
    <3>1. repository[s] \in SUBSET Path
        BY DEF TypeOK
    <3> QED
        BY <1>9, <3>1 DEF BeginRevoke, BeginCleanup, Command, Idle, Operation,
           MaybeBinding
  <2> QED
      BY <1>9, <2>1 DEF BeginRevoke, BeginCleanup, TypeOK, local, remote
<1>10. CASE DeleteOne
    BY <1>10 DEF DeleteOne, TypeOK, local, Command, CommandInv, Idle
<1>11. CASE DeletesDone
    BY <1>11 DEF DeletesDone, TypeOK, local, remote, Command, Idle, MaybeBinding
<1>12. ASSUME NEW s \in Service, BeginPut(s) \/ BeginPrune(s)
       PROVE  TypeOK'
  <2>1. cmd' \in Command
    <3>1. repository[s] \in SUBSET Path
        BY DEF TypeOK
    <3> QED
        BY <1>12, <3>1 DEF BeginPut, BeginPrune, Command, Idle, MaybeBinding
  <2> QED
      BY <1>12, <2>1 DEF BeginPut, BeginPrune, TypeOK, local, remote
<1>13. CASE PutUpload
    BY <1>13 DEF PutUpload, TypeOK, local, Command, CommandInv, Idle
<1>14. CASE PutRecord
  <2>1. cmd.svc \in Service /\ services[cmd.svc].status = "enabled"
      BY <1>14 DEF PutRecord, CommandInv, Idle
  <2>2. services' \in [Service -> ServiceState]
      BY <1>14, <2>1 DEF PutRecord, TypeOK, ServiceState, Absent
  <2> QED
      BY <1>14, <2>2 DEF PutRecord, TypeOK, remote, Command, Idle, MaybeBinding
<1>15. CASE Interrupt
    BY <1>15 DEF Interrupt, TypeOK, local, remote, Command, Idle, MaybeBinding
<1>16. CASE ForeignEdit
  <2>1. remotePolicy' \in Policy
      BY <1>16 DEF ForeignEdit, TypeOK, Policy
  <2> QED
      BY <1>16, <2>1 DEF ForeignEdit, TypeOK, local
<1>17. CASE UNCHANGED vars
    BY <1>17 DEF vars, local, remote, TypeOK
<1> QED
    BY <1>1, <1>2, <1>3, <1>4, <1>5, <1>6, <1>7, <1>8, <1>9, <1>10, <1>11,
       <1>12, <1>13, <1>14, <1>15, <1>16, <1>17 DEF Next, Begin, Step

LEMMA NextCommandInv == TypeOK /\ CommandInv /\ [Next]_vars => CommandInv'
<1> SUFFICES ASSUME TypeOK, CommandInv, [Next]_vars PROVE CommandInv'
    OBVIOUS
<1>1. CASE Adopt \/ ForeignEdit
    BY <1>1 DEF Adopt, ForeignEdit, CommandInv
<1>2. ASSUME NEW s \in Service, NEW b \in Binding, BeginReconcile(s, b)
      PROVE  CommandInv'
    BY <1>2 DEF BeginReconcile, CommandInv
<1>3. CASE SetDenyAll
    BY <1>3 DEF SetDenyAll, CommandInv, Idle, local, TypeOK, Command
<1>4. CASE SetRestricted
    BY <1>4 DEF SetRestricted, CommandInv, Idle, local, TypeOK, Command
<1>5. CASE UploadOne
    BY <1>5 DEF UploadOne, CommandInv, Idle, local, TypeOK, Command
<1>6. CASE SetAttestationPolicy
    BY <1>6 DEF SetAttestationPolicy, CommandInv, Idle, local, TypeOK, Command
<1>7. CASE SetResourcePolicy
    BY <1>7 DEF SetResourcePolicy, CommandInv, Idle, local, TypeOK, Command
<1>8. CASE Commit \/ PutRecord \/ Interrupt
    BY <1>8 DEF Commit, PutRecord, Interrupt, CommandInv
<1>9. ASSUME NEW s \in Service, BeginRevoke(s) PROVE CommandInv'
    BY <1>9 DEF BeginRevoke, CommandInv, Idle, local, Absent
<1>10. ASSUME NEW s \in Service, BeginCleanup(s) PROVE CommandInv'
    BY <1>10 DEF BeginCleanup, CommandInv, Idle, local, remote
<1>11. CASE DeleteOne
    BY <1>11 DEF DeleteOne, CommandInv, Idle, local, TypeOK, Command
<1>12. CASE DeletesDone
    BY <1>12 DEF DeletesDone, CommandInv, Idle, local, remote, TypeOK, Command
<1>13. ASSUME NEW s \in Service, BeginPut(s) PROVE CommandInv'
    BY <1>13 DEF BeginPut, CommandInv, Idle, local
<1>14. ASSUME NEW s \in Service, BeginPrune(s) PROVE CommandInv'
    BY <1>14 DEF BeginPrune, CommandInv, Idle, local, Absent
<1>15. CASE PutUpload
    BY <1>15 DEF PutUpload, CommandInv, Idle, local, TypeOK, Command
<1>16. CASE UNCHANGED vars
    BY <1>16 DEF vars, local, remote, CommandInv
<1> QED
    BY <1>1, <1>2, <1>3, <1>4, <1>5, <1>6, <1>7, <1>8, <1>9, <1>10, <1>11,
       <1>12, <1>13, <1>14, <1>15, <1>16 DEF Next, Begin, Step

(* ensure_remote_control: whoever may change the remote side finds every    *)
(* other service's grant as it is recorded, even a revision behind.         *)
LEMMA ControlsAligned ==
    ASSUME TypeOK, PolicyInv, NEW request \in Transaction, Controls(request)
    PROVE  /\ pendingReconcile = NoPending \/ pendingReconcile.svc = request.svc
           /\ \A t \in Service \ {request.svc} :
                 remotePolicy.bindings[t] = Grants(services)[t]
<1>1. pendingReconcile = NoPending \/ pendingReconcile.svc = request.svc
    BY DEF Controls, Owns, Claims, PendingAllows
<1>2. CASE Claims(request)
    BY <1>1, <1>2 DEF Claims, PolicyInv, Grants, Absent
<1>3. CASE Owns(request) /\ Synced
    BY <1>1, <1>3 DEF Synced, PolicyInv
<1>4. CASE Owns(request) /\ RecoveryPending
  <2>1. remotePolicy.owner = "self" /\ remotePolicy.revision = revision + 1
      BY <1>4 DEF Owns, RecoveryPending
  <2>2. remotePolicy.transaction.svc = request.svc
      BY <1>4 DEF Owns, RecoveryPending, CanResumeAs
  <2> QED
      BY <1>1, <2>1, <2>2 DEF PolicyInv
<1> QED
    BY <1>1, <1>2, <1>3, <1>4 DEF Controls, Owns

(* The record a command relies on keeps its service in custody *)
LEMMA ActiveManaged ==
    ASSUME TypeOK, CommandInv, cmd # Idle
    PROVE  cmd.svc \in Service /\ Managed(cmd.svc)
<1>1. cmd.svc \in Service
    BY DEF CommandInv
<1>2. services[cmd.svc] # Absent \/ pendingReconcile.svc = cmd.svc
    BY DEF CommandInv, Absent
<1>3. services[cmd.svc] # Absent => services[cmd.svc].status # "absent"
    BY <1>1 DEF TypeOK, ServiceState
<1> QED
    BY <1>1, <1>2, <1>3 DEF Managed

LEMMA NextNoOrphanedSecret == IInv /\ [Next]_vars => NoOrphanedSecret'
<1> SUFFICES ASSUME IInv, [Next]_vars, NEW t \in Service, ~Managed(t)'
             PROVE  repository'[t] = {} /\ remotePolicy'.bindings[t] = NoBinding
    BY DEF NoOrphanedSecret
<1> USE DEF IInv
<1>1. CASE Adopt \/ ForeignEdit
    BY <1>1 DEF Adopt, ForeignEdit, Managed, NoOrphanedSecret, local, remote,
       TypeOK, Policy
<1>2. ASSUME NEW s \in Service, NEW b \in Binding, BeginReconcile(s, b)
      PROVE  repository'[t] = {} /\ remotePolicy'.bindings[t] = NoBinding
  <2>1. pendingReconcile = NoPending \/ pendingReconcile.svc = s
      BY <1>2, ControlsAligned DEF BeginReconcile, Transaction, Operation
  <2>2. t # s
      BY <1>2 DEF BeginReconcile, Managed
  <2>3. ~Managed(t)
      BY <1>2, <2>1, <2>2, BindingAssumption DEF BeginReconcile, Managed, NoPending
  <2> QED
      BY <1>2, <2>3 DEF BeginReconcile, NoOrphanedSecret, remote
<1>3. CASE SetDenyAll
    BY <1>3 DEF SetDenyAll, DenyAll, Managed, NoOrphanedSecret, local
<1>4. CASE SetRestricted
  <2>1. ~Managed(t)
      BY <1>4 DEF SetRestricted, Managed, local
  <2>2. Withdrawn[t].status = "absent"
      BY <2>1 DEF Managed, Withdrawn, TypeOK, Absent, ServiceState
  <2> QED
      BY <1>4, <2>1, <2>2 DEF SetRestricted, RenderPolicy, Grants, NoOrphanedSecret
<1>5. CASE UploadOne \/ PutUpload \/ DeleteOne
  <2>1. ~Managed(t) /\ Managed(cmd.svc)
      BY <1>5, ActiveManaged DEF UploadOne, PutUpload, DeleteOne, Managed,
         local, Idle
  <2>2. repository'[t] = repository[t] /\ remotePolicy' = remotePolicy
      BY <1>5, <2>1 DEF UploadOne, PutUpload, DeleteOne, TypeOK
  <2> QED
      BY <2>1, <2>2 DEF NoOrphanedSecret
<1>6. CASE SetResourcePolicy
  <2>1. ~Managed(t) /\ Managed(cmd.svc) /\ cmd.svc \in Service
      BY <1>6, ActiveManaged DEF SetResourcePolicy, Managed, local, Idle
  <2>2. Proposed[t].status = "absent"
      BY <2>1 DEF Managed, Proposed, TypeOK
  <2> QED
      BY <1>6, <2>1, <2>2 DEF SetResourcePolicy, RenderPolicy, Grants, NoOrphanedSecret
<1>7. CASE Commit
  <2>1. cmd.op \in Operation /\ cmd.svc \in Service
      BY <1>7 DEF Commit, CommandInv, Idle, Operation
  <2>2. Proposed[t].status = "absent"
      BY <1>7 DEF Commit, Managed
  <2>3. remotePolicy.bindings[t] = NoBinding
      BY <1>7, <2>2 DEF Commit, PolicyInv, Grants
  <2>4. CASE t = cmd.svc
    <3>1. cmd.op = "cleanup"
      <4>1. cmd.op = "reconcile" => FALSE
          BY <2>1, <2>2, <2>4 DEF Proposed, TypeOK, Committed
      <4>2. cmd.op = "revoke" => FALSE
          BY <2>1, <2>2, <2>4 DEF Proposed, TypeOK, Committed, ServiceState, Absent
      <4> QED
          BY <2>1, <4>1, <4>2 DEF Operation
    <3> QED
        BY <1>7, <2>3, <2>4, <3>1 DEF Commit, CommandInv, Idle, remote
  <2>5. CASE t # cmd.svc
    <3>1. services[t].status = "absent"
        BY <2>1, <2>2, <2>5 DEF Proposed, TypeOK
    <3>2. pendingReconcile.svc # t
        BY <1>7, <2>1, <2>5, BindingAssumption DEF Commit, Managed, NoPending,
           CommandInv, Idle
    <3> QED
        BY <1>7, <3>1, <3>2 DEF Commit, Managed, NoOrphanedSecret, remote
  <2> QED
      BY <2>4, <2>5
<1>8. ASSUME NEW s \in Service,
             BeginRevoke(s) \/ BeginCleanup(s) \/ BeginPut(s) \/ BeginPrune(s)
      PROVE  repository'[t] = {} /\ remotePolicy'.bindings[t] = NoBinding
    BY <1>8 DEF BeginRevoke, BeginCleanup, BeginPut, BeginPrune, local, remote,
       Managed, NoOrphanedSecret
<1>9. CASE PutRecord
  <2>1. services[t].status = "absent"
      BY <1>9 DEF PutRecord, Managed, TypeOK, CommandInv, Idle
  <2> QED
      BY <1>9, <2>1 DEF PutRecord, Managed, NoOrphanedSecret, remote
<1>10. CASE SetAttestationPolicy \/ DeletesDone \/ Interrupt \/ UNCHANGED vars
    BY <1>10 DEF SetAttestationPolicy, DeletesDone, Interrupt, vars, local,
       remote, Managed, NoOrphanedSecret
<1> QED
    BY <1>1, <1>2, <1>3, <1>4, <1>5, <1>6, <1>7, <1>8, <1>9, <1>10
       DEF Next, Begin, Step

(* What the policies sent in the middle of a transaction grant to others *)
LEMMA RenderedGrants ==
    ASSUME TypeOK, CommandInv, cmd.op \in Operation,
           NEW t \in Service \ {cmd.svc}
    PROVE  /\ Grants(Withdrawn)[t] = Grants(services)[t]
           /\ Grants(Proposed)[t] = Grants(services)[t]
<1>1. Withdrawn[t] = services[t] /\ Proposed[t] = services[t]
    BY DEF Withdrawn, Proposed, TypeOK
<1> QED
    BY <1>1 DEF Grants

LEMMA DigestType == TypeOK => resourcePolicyDigest.revision \in Nat
BY DEF TypeOK, NoDigest, BaselinePolicy, Policy

LEMMA NextPolicyInv == IInv /\ [Next]_vars => PolicyInv'
<1> SUFFICES ASSUME IInv, [Next]_vars PROVE PolicyInv'
    OBVIOUS
<1> USE DEF IInv
<1>1. CASE Adopt
    BY <1>1, DigestType DEF Adopt, PolicyInv, Grants, TypeOK, Policy, Idle,
       Operation, remote
<1>2. CASE ForeignEdit
  <2>1. /\ remotePolicy'.revision = remotePolicy.revision
        /\ remotePolicy'.bindings = remotePolicy.bindings
        /\ remotePolicy'.transaction = remotePolicy.transaction
        /\ remotePolicy' = remotePolicy \/ Synced \/ remotePolicy.owner = "none"
        /\ remotePolicy'.owner \in {remotePolicy.owner, "other"}
      BY <1>2 DEF ForeignEdit, TypeOK, Policy
  <2>2. UNCHANGED <<revision, services, resourcePolicyDigest, cmd>> /\ cmd = Idle
      BY <1>2 DEF ForeignEdit, local
  <2>3. remotePolicy'.owner = "self" /\ remotePolicy'.revision = revision + 1 =>
          remotePolicy' = remotePolicy
    <3>1. Synced => remotePolicy.revision # revision + 1
      <4>1. resourcePolicyDigest.revision \in Nat /\ revision \in Nat
          BY DigestType DEF TypeOK
      <4>2. resourcePolicyDigest.revision <= revision
          BY DEF PolicyInv
      <4> QED
          BY <4>1, <4>2 DEF Synced
    <3> QED
        BY <2>1, <3>1
  <2> QED
      BY <2>1, <2>2, <2>3 DEF PolicyInv, Grants, Idle, Operation
<1>3. ASSUME NEW s \in Service, NEW b \in Binding, BeginReconcile(s, b)
      PROVE  PolicyInv'
  <2>1. \A t \in Service \ {s} : remotePolicy.bindings[t] = Grants(services)[t]
      BY <1>3, ControlsAligned DEF BeginReconcile, Transaction, Operation
  <2>2. cmd'.pc = "deny" => remotePolicy.owner = "none"
      BY <1>3 DEF BeginReconcile, Claims
  <2> QED
      BY <1>3, <2>1, <2>2 DEF BeginReconcile, PolicyInv, Grants, remote
<1>4. ASSUME NEW s \in Service, BeginRevoke(s) \/ BeginCleanup(s)
      PROVE  PolicyInv'
  <2>1. \A t \in Service \ {s} : remotePolicy.bindings[t] = Grants(services)[t]
      BY <1>4, ControlsAligned DEF BeginRevoke, BeginCleanup, Transaction, Operation
  <2>2. /\ UNCHANGED <<revision, services, resourcePolicyDigest, remotePolicy>>
        /\ cmd'.svc = s /\ cmd'.pc \notin {"deny", "commit"}
      BY <1>4 DEF BeginRevoke, BeginCleanup, local, remote, Idle
  <2> QED
      BY <2>1, <2>2 DEF PolicyInv, Grants
<1>5. ASSUME NEW s \in Service, BeginPut(s) \/ BeginPrune(s)
      PROVE  PolicyInv'
  <2>1. /\ UNCHANGED <<revision, services, resourcePolicyDigest, remotePolicy>>
        /\ cmd'.op \in {"put", "prune"} /\ cmd'.pc \notin {"deny", "commit"}
      BY <1>5 DEF BeginPut, BeginPrune, local, remote, Idle
  <2> QED
      BY <2>1 DEF PolicyInv, Grants, Operation
<1>6. CASE SetDenyAll
  <2>1. cmd.op \in Operation /\ cmd.svc \in Service
      BY <1>6 DEF SetDenyAll, CommandInv, Idle, Operation
  <2>2. \A t \in Service : Grants(services)[t] = NoBinding
      BY <1>6 DEF SetDenyAll, PolicyInv, Grants, Absent
  <2> QED
      BY <1>6, <2>1, <2>2 DEF SetDenyAll, DenyAll, PolicyInv, Grants, local,
         TypeOK, Command
<1>7. CASE SetRestricted
  <2>1. cmd.op \in Operation /\ cmd.svc \in Service
      BY <1>7 DEF SetRestricted, CommandInv, Idle, Operation
  <2>2. \A t \in Service \ {cmd.svc} : remotePolicy'.bindings[t] = Grants(services)[t]
      BY <1>7, <2>1, RenderedGrants DEF SetRestricted, RenderPolicy
  <2> QED
      BY <1>7, <2>1, <2>2 DEF SetRestricted, RenderPolicy, PolicyInv, Grants,
         local, TypeOK, Command
<1>8. CASE SetResourcePolicy
  <2>1. cmd.op \in Operation /\ cmd.svc \in Service
      BY <1>8 DEF SetResourcePolicy, CommandInv, Idle, Operation
  <2>2. \A t \in Service \ {cmd.svc} : remotePolicy'.bindings[t] = Grants(services)[t]
      BY <1>8, <2>1, RenderedGrants DEF SetResourcePolicy, RenderPolicy
  <2>3. remotePolicy'.bindings = Grants(Proposed)'
      BY <1>8 DEF SetResourcePolicy, RenderPolicy, Grants, Proposed, local,
         TypeOK, Command
  <2> QED
      BY <1>8, <2>1, <2>2, <2>3 DEF SetResourcePolicy, RenderPolicy, PolicyInv,
         Grants, local, TypeOK, Command
<1>9. CASE Commit
    BY <1>9 DEF Commit, PolicyInv, Grants, Idle, Operation, remote, TypeOK, Policy
<1>10. CASE UploadOne \/ SetAttestationPolicy \/ DeleteOne \/ PutUpload
    BY <1>10 DEF UploadOne, SetAttestationPolicy, DeleteOne, PutUpload,
       PolicyInv, Grants, local, TypeOK, Command
<1>11. CASE DeletesDone \/ Interrupt
    BY <1>11 DEF DeletesDone, Interrupt, PolicyInv, Grants, local, remote, Idle,
       Operation, TypeOK, Command
<1>12. CASE PutRecord
  <2>1. cmd.svc \in Service /\ services[cmd.svc].status = "enabled"
      BY <1>12 DEF PutRecord, CommandInv, Idle
  <2>2. Grants(services)' = Grants(services)
      BY <1>12, <2>1 DEF PutRecord, Grants, TypeOK, ServiceState, Absent
  <2>3. remotePolicy.owner # "none"
      BY <2>1 DEF PolicyInv, Absent
  <2> QED
      BY <1>12, <2>2, <2>3, DigestType DEF PutRecord, PolicyInv, Idle, Operation, remote,
         TypeOK, Policy
<1>13. CASE UNCHANGED vars
    BY <1>13 DEF vars, local, remote, PolicyInv, Grants, Proposed
<1> QED
    BY <1>1, <1>2, <1>3, <1>4, <1>5, <1>6, <1>7, <1>8, <1>9, <1>10, <1>11,
       <1>12, <1>13 DEF Next, Begin, Step

(* The invariant the results on custody follow from: it is kept by every     *)
(* command, interruption and foreign edit.                                   *)
THEOREM Inductive == Spec => []IInv
<1>1. Init => IInv
    BY InitIInv
<1>2. IInv /\ [Next]_vars => IInv'
    BY NextTypeOK, NextCommandInv, NextPolicyInv, NextNoOrphanedSecret DEF IInv
<1> QED
    BY <1>1, <1>2, PTL DEF Spec

(* The state always has the shape the code's types and its validation give *)
(* it: a record of a service exists exactly with its binding.              *)
THEOREM TypeCorrect == Spec => []TypeOK
<1>1. IInv => TypeOK
    BY DEF IInv
<1> QED
    BY <1>1, Inductive, PTL

(* Whatever the Trustee holds for a service is attributable to a record in *)
(* the local state file, wherever sync, revoke and cleanup die.            *)
THEOREM NothingOrphaned == Spec => []NoOrphanedSecret
<1>1. IInv => NoOrphanedSecret
    BY DEF IInv
<1> QED
    BY <1>1, Inductive, PTL

(* A transaction changes the grant of no service but its own, even when it  *)
(* renders from a local state one revision behind the remote policy.        *)
THEOREM GrantsIsolated == Spec => OthersKeepTheirGrant
<1> DEFINE Isolated == \A t \in Service \ {cmd.svc} :
                          remotePolicy'.bindings[t] = remotePolicy.bindings[t]
<1>1. IInv /\ [Next]_vars => [Isolated]_vars
  <2> SUFFICES ASSUME IInv, Next, NEW t \in Service \ {cmd.svc}
               PROVE  remotePolicy'.bindings[t] = remotePolicy.bindings[t]
      OBVIOUS
  <2> USE DEF IInv
  <2>1. CASE SetDenyAll
      BY <2>1 DEF SetDenyAll, DenyAll, PolicyInv
  <2>2. CASE SetRestricted
    <3>1. cmd.op \in Operation
        BY <2>2 DEF SetRestricted, CommandInv, Idle, Operation
    <3> QED
        BY <2>2, <3>1, RenderedGrants DEF SetRestricted, RenderPolicy, PolicyInv
  <2>3. CASE SetResourcePolicy
    <3>1. cmd.op \in Operation
        BY <2>3 DEF SetResourcePolicy, CommandInv, Idle, Operation
    <3> QED
        BY <2>3, <3>1, RenderedGrants DEF SetResourcePolicy, RenderPolicy, PolicyInv
  <2>4. CASE ForeignEdit
      BY <2>4 DEF ForeignEdit, TypeOK, Policy
  <2>5. CASE Adopt \/ Begin \/ Interrupt
      BY <2>5 DEF Adopt, Begin, BeginReconcile, BeginRevoke, BeginCleanup,
         BeginPut, BeginPrune, Interrupt, remote
  <2>6. CASE UploadOne \/ SetAttestationPolicy \/ Commit \/ DeleteOne
             \/ DeletesDone \/ PutUpload \/ PutRecord
      BY <2>6 DEF UploadOne, SetAttestationPolicy, Commit, DeleteOne,
         DeletesDone, PutUpload, PutRecord, remote
  <2> QED
      BY <2>1, <2>2, <2>3, <2>4, <2>5, <2>6 DEF Next, Step
<1> QED
    BY <1>1, Inductive, PTL DEF Spec, OthersKeepTheirGrant

(* The steps that touch neither custody, a grant nor a repository *)
LEMMA CustodyStutters ==
    ASSUME UNCHANGED <<services, pendingReconcile, remotePolicy.bindings, repository>>
    PROVE  UNCHANGED Custody!vars
BY DEF Custody!vars, Managed

(* Rendering a policy in a transaction for cmd.svc sets that one grant *)
LEMMA CustodySetsGrant ==
    ASSUME IInv, cmd.op \in Operation, NEW svcs \in [Service -> ServiceState],
           \A t \in Service \ {cmd.svc} : Grants(svcs)[t] = Grants(services)[t],
           remotePolicy'.bindings = Grants(svcs),
           UNCHANGED <<services, pendingReconcile, repository>>
    PROVE  Custody!SetGrant(cmd.svc) /\ cmd.svc \in Service
<1>1. cmd # Idle
    BY DEF Idle, Operation
<1>2. cmd.svc \in Service /\ Managed(cmd.svc)
    BY <1>1, ActiveManaged DEF IInv
<1>3. \A t \in Service \ {cmd.svc} : remotePolicy.bindings[t] = Grants(services)[t]
    BY DEF IInv, PolicyInv
<1>4. Grants(svcs) \in [Service -> MaybeBinding]
    BY GrantsType
<1>5. remotePolicy.bindings \in [Service -> MaybeBinding]
    BY DEF IInv, TypeOK, Policy
<1>6. remotePolicy'.bindings =
        [remotePolicy.bindings EXCEPT ![cmd.svc] = Grants(svcs)[cmd.svc]]
    BY <1>2, <1>3, <1>4, <1>5
<1>7. Grants(svcs)[cmd.svc] \in Binding \cup {NoBinding}
    BY <1>2, <1>4 DEF MaybeBinding
<1> QED
    BY <1>2, <1>6, <1>7 DEF Custody!SetGrant, Managed

(* Every step takes custody of a service, changes the grant or the repository *)
(* of one in custody, releases one of which nothing is left, or is none of    *)
(* the Trustee's business.                                                    *)
THEOREM Implements == Spec => ImplementsCustody
<1>1. Init => Custody!Init
    BY BindingAssumption DEF Init, Custody!Init, Managed, Absent, NoPending,
       BaselinePolicy
<1>2. IInv /\ [Next]_vars => [Custody!Next]_(Custody!vars)
  <2> SUFFICES ASSUME IInv, [Next]_vars
               PROVE  Custody!Next \/ UNCHANGED Custody!vars
      OBVIOUS
  <2> USE DEF IInv
  <2>1. ASSUME NEW s \in Service, NEW b \in Binding, BeginReconcile(s, b)
        PROVE  Custody!Next
    <3>1. pendingReconcile = NoPending \/ pendingReconcile.svc = s
        BY <2>1, ControlsAligned DEF BeginReconcile, Transaction, Operation
    <3>2. UNCHANGED <<services, remotePolicy, repository>> /\ pendingReconcile'.svc = s
        BY <2>1 DEF BeginReconcile, remote
    <3>3. \A t \in Service : Managed(t)' <=> (Managed(t) \/ t = s)
        BY <3>1, <3>2, BindingAssumption DEF Managed, NoPending
    <3>4. Custody!Take(s)
        BY <3>2, <3>3 DEF Custody!Take
    <3> QED
        BY <3>4 DEF Custody!Next
  <2>2. CASE SetDenyAll
    <3>1. remotePolicy.bindings = [s \in Service |-> NoBinding]
        BY <2>2 DEF SetDenyAll, PolicyInv, TypeOK, Policy
    <3>2. UNCHANGED <<services, pendingReconcile, remotePolicy.bindings, repository>>
        BY <2>2, <3>1 DEF SetDenyAll, DenyAll, local
    <3> QED
        BY <3>2, CustodyStutters
  <2>3. CASE SetRestricted
    <3>1. cmd.op \in Operation
        BY <2>3 DEF SetRestricted, CommandInv, Idle, Operation
    <3>2. Withdrawn \in [Service -> ServiceState]
        BY <3>1, WithdrawnType
    <3>3. Custody!SetGrant(cmd.svc) /\ cmd.svc \in Service
        BY <2>3, <3>1, <3>2, RenderedGrants, CustodySetsGrant
           DEF SetRestricted, RenderPolicy, local
    <3> QED
        BY <3>3 DEF Custody!Next
  <2>4. CASE SetResourcePolicy
    <3>1. cmd.op \in Operation
        BY <2>4 DEF SetResourcePolicy, CommandInv, Idle, Operation
    <3>2. Proposed \in [Service -> ServiceState]
        BY <3>1, ProposedType
    <3>3. Custody!SetGrant(cmd.svc) /\ cmd.svc \in Service
        BY <2>4, <3>1, <3>2, RenderedGrants, CustodySetsGrant
           DEF SetResourcePolicy, RenderPolicy, local
    <3> QED
        BY <3>3 DEF Custody!Next
  <2>5. CASE UploadOne \/ PutUpload \/ DeleteOne
    <3>1. cmd.svc \in Service /\ Managed(cmd.svc)
        BY <2>5, ActiveManaged DEF UploadOne, PutUpload, DeleteOne, Idle
    <3>2. \E paths \in SUBSET Path :
            repository' = [repository EXCEPT ![cmd.svc] = paths]
      <4>1. repository[cmd.svc] \in SUBSET Path /\ cmd.todo \in SUBSET Path
          BY <3>1 DEF TypeOK, Command
      <4>2. CASE UploadOne
          BY <4>1, <4>2 DEF UploadOne
      <4>3. CASE PutUpload
          BY <4>1, <4>3, PathAssumption DEF PutUpload
      <4>4. CASE DeleteOne
          BY <4>1, <4>4 DEF DeleteOne
      <4> QED
          BY <2>5, <4>2, <4>3, <4>4
    <3>3. UNCHANGED <<services, pendingReconcile, remotePolicy>>
        BY <2>5 DEF UploadOne, PutUpload, DeleteOne, local
    <3>4. Custody!SetStored(cmd.svc)
        BY <3>1, <3>2, <3>3 DEF Custody!SetStored, Managed
    <3> QED
        BY <3>1, <3>4 DEF Custody!Next
  <2>6. CASE Commit
    <3>1. cmd.svc \in Service /\ Managed(cmd.svc) /\ cmd.op \in Operation
        BY <2>6, ActiveManaged DEF Commit, CommandInv, Idle, Operation
    <3>2. \A t \in Service \ {cmd.svc} : Managed(t)' <=> Managed(t)
      <4>1. \A t \in Service \ {cmd.svc} : services'[t] = services[t]
          BY <2>6, <3>1 DEF Commit, Proposed, TypeOK
      <4>2. \A t \in Service \ {cmd.svc} :
              pendingReconcile'.svc = t <=> pendingReconcile.svc = t
          BY <2>6, <3>1, BindingAssumption DEF Commit, CommandInv, Idle, NoPending
      <4> QED
          BY <4>1, <4>2 DEF Managed
    <3>3. UNCHANGED <<remotePolicy, repository>>
        BY <2>6 DEF Commit, remote
    <3>4. CASE cmd.op = "cleanup"
      <4>1. services'[cmd.svc] = Absent
          BY <2>6, <3>1, <3>4 DEF Commit, Proposed, TypeOK
      <4>2. \A s \in Service : s = cmd.svc => ~Managed(s)'
          BY <2>6, <3>1, <3>4, <4>1 DEF Commit, Managed, Absent, CommandInv, Idle
      <4>3. repository[cmd.svc] = {}
          BY <2>6, <3>4 DEF Commit, CommandInv, Idle
      <4>4. remotePolicy.bindings[cmd.svc] = NoBinding
          BY <2>6, <3>1, <4>1 DEF Commit, PolicyInv, Grants, Absent
      <4>5. Custody!Release(cmd.svc)
        <5>1. {s \in Service : Managed(s)}' = {s \in Service : Managed(s)} \ {cmd.svc}
            BY <3>2, <4>2 DEF Managed
        <5> QED
            BY <3>1, <3>3, <4>3, <4>4, <5>1 DEF Custody!Release
      <4> QED
          BY <3>1, <4>5 DEF Custody!Next
    <3>5. CASE cmd.op # "cleanup"
      <4>1. services'[cmd.svc].status # "absent"
        <5>1. CASE cmd.op = "reconcile"
            BY <2>6, <3>1, <5>1 DEF Commit, Proposed, Committed, TypeOK
        <5>2. CASE cmd.op = "revoke"
          <6>1. services'[cmd.svc] = Proposed[cmd.svc]
              BY <2>6 DEF Commit
          <6>2. Proposed[cmd.svc].status = "disabled"
              BY <3>1, <5>2 DEF Proposed, Committed, TypeOK, ServiceState, Absent
          <6> QED
              BY <6>1, <6>2
        <5> QED
            BY <3>1, <3>5, <5>1, <5>2 DEF Operation
      <4>2. \A s \in Service : s = cmd.svc => Managed(s)'
          BY <4>1 DEF Managed
      <4>3. {s \in Service : Managed(s)}' = {s \in Service : Managed(s)}
          BY <3>1, <3>2, <4>2 DEF Managed
      <4> QED
          BY <3>3, <4>3 DEF Custody!vars
    <3> QED
        BY <3>4, <3>5
  <2>7. CASE PutRecord
    <3>1. cmd.svc \in Service
        BY <2>7, ActiveManaged DEF PutRecord, Idle, CommandInv
    <3>2. \A t \in Service : services'[t].status = services[t].status
        BY <2>7, <3>1 DEF PutRecord, TypeOK, ServiceState, Absent
    <3>3. {s \in Service : Managed(s)}' = {s \in Service : Managed(s)}
        BY <2>7, <3>2 DEF PutRecord, Managed
    <3> QED
        BY <2>7, <3>3 DEF PutRecord, remote, Custody!vars
  <2>8. CASE ForeignEdit
    <3>1. UNCHANGED <<services, pendingReconcile, remotePolicy.bindings, repository>>
        BY <2>8 DEF ForeignEdit, local, TypeOK, Policy
    <3> QED
        BY <3>1, CustodyStutters
  <2>9. ASSUME NEW s \in Service,
               BeginRevoke(s) \/ BeginCleanup(s) \/ BeginPut(s) \/ BeginPrune(s)
        PROVE  UNCHANGED Custody!vars
      BY <2>9, CustodyStutters DEF BeginRevoke, BeginCleanup, BeginPut,
         BeginPrune, local, remote
  <2>10. CASE Adopt \/ SetAttestationPolicy \/ DeletesDone \/ Interrupt
              \/ UNCHANGED vars
      BY <2>10, CustodyStutters DEF Adopt, SetAttestationPolicy, DeletesDone,
         Interrupt, vars, local, remote
  <2> QED
      BY <2>1, <2>2, <2>3, <2>4, <2>5, <2>6, <2>7, <2>8, <2>9, <2>10
         DEF Next, Begin, Step
<1> QED
    BY <1>1, <1>2, Inductive, PTL DEF Spec, ImplementsCustody, Custody!Spec

-----------------------------------------------------------------------------
(* What an interrupted transaction leaves for the next command *)

Ahead == remotePolicy.owner = "self" /\ remotePolicy.revision = revision + 1

\* A transaction runs alone, from the record that justified it; a policy one
\* revision ahead carries the marker of the transaction that
\* was interrupted, and the record that justified that one is still there.
MarkerInv ==
    /\ cmd.op \in Operation =>
          pendingReconcile = NoPending \/ pendingReconcile.svc = cmd.svc
    /\ cmd.op = "revoke" =>
          services[cmd.svc].status = "enabled" \/ pendingReconcile.svc = cmd.svc
    /\ cmd.op = "cleanup" => pendingReconcile = NoPending
    /\ Ahead =>
          LET tx == remotePolicy.transaction IN
          /\ tx \in Transaction
          /\ pendingReconcile = NoPending \/ pendingReconcile.svc = tx.svc
          /\ tx.op = "reconcile" => pendingReconcile.svc = tx.svc
          /\ tx.op = "revoke" =>
                services[tx.svc].status = "enabled" \/ pendingReconcile.svc = tx.svc
          /\ tx.op = "cleanup" =>
                services[tx.svc].status = "disabled" /\ pendingReconcile = NoPending

\* A policy this host owns and nobody edited is the recorded one or one ahead.
SettledInv ==
    /\ resourcePolicyDigest.edited = FALSE
    /\ cmd.op = "put" => Synced
    /\ cmd.pc = "commit" => remotePolicy.edited = FALSE
    /\ remotePolicy.owner = "self" /\ remotePolicy.edited = FALSE => Synced \/ Ahead

\* What an interrupted sync granted is nothing, or what its retry will grant.
RetryInv ==
    Ahead /\ remotePolicy.transaction.op = "reconcile" =>
        remotePolicy.bindings[remotePolicy.transaction.svc]
            \in {NoBinding, pendingReconcile.binding}

LEMMA SyncedNotAhead == ASSUME TypeOK, PolicyInv, Synced PROVE ~Ahead
<1>1. remotePolicy.revision <= revision
    BY DEF PolicyInv, Synced
<1> QED
    BY <1>1, DigestType DEF Ahead, TypeOK, Policy

(* can_resume_as: over an interrupted transaction only its own service goes *)
(* on, with an operation that is not weaker.                                *)
LEMMA ResumesOwn ==
    ASSUME TypeOK, PolicyInv, Ahead, NEW request, Controls(request)
    PROVE  CanResumeAs(remotePolicy.transaction, request)
BY SyncedNotAhead DEF Controls, Owns, Claims, Ahead

(* The marker an operation leaves is its own *)
LEMMA MarkerWritten ==
    ASSUME IInv, MarkerInv, cmd.op \in Operation,
           remotePolicy'.transaction = [op |-> cmd.op, svc |-> cmd.svc],
           cmd'.op = cmd.op, cmd'.svc = cmd.svc, UNCHANGED <<services, pendingReconcile>>
    PROVE  MarkerInv'
<1>1. [op |-> cmd.op, svc |-> cmd.svc] \in Transaction
    BY ProposedType DEF IInv
<1>2. cmd.op = "reconcile" => pendingReconcile.svc = cmd.svc
    BY DEF IInv, CommandInv, Idle
<1>3. cmd.op = "cleanup" => services[cmd.svc].status = "disabled"
    BY DEF IInv, CommandInv, Idle
<1> QED
    BY <1>1, <1>2, <1>3 DEF MarkerInv

LEMMA NextMarkerInv == IInv /\ MarkerInv /\ [Next]_vars => MarkerInv'
<1> SUFFICES ASSUME IInv, MarkerInv, [Next]_vars PROVE MarkerInv'
    OBVIOUS
<1>0. revision \in Nat /\ remotePolicy.revision \in Nat /\ remotePolicy.revision <= revision + 1
    BY DEF IInv, TypeOK, PolicyInv, Policy
<1>1. CASE Adopt
  <2>1. ~Ahead'
      BY <1>0, <1>1 DEF Adopt, Ahead, remote
  <2> QED
      BY <1>1, <2>1 DEF Adopt, MarkerInv, Idle, Operation
<1>2. CASE ForeignEdit
  <2>1. Ahead' => Ahead /\ UNCHANGED remotePolicy
      BY <1>0, <1>2, SyncedNotAhead DEF IInv, ForeignEdit, Ahead, TypeOK, Policy, local
  <2> QED
      BY <1>2, <2>1 DEF ForeignEdit, local, MarkerInv
<1>3. ASSUME NEW s \in Service, NEW b \in Binding, BeginReconcile(s, b)
      PROVE  MarkerInv'
  <2> DEFINE request == [op |-> "reconcile", svc |-> s]
  <2>1. /\ pendingReconcile' = [svc |-> s, binding |-> b] /\ cmd'.op = "reconcile"
        /\ cmd'.svc = s /\ UNCHANGED <<revision, services, remotePolicy>> /\ Controls(request)
      BY <1>3 DEF BeginReconcile, remote
  <2>2. Ahead => remotePolicy.transaction.op = "reconcile" /\ remotePolicy.transaction.svc = s
    <3>1. SUFFICES ASSUME Ahead
                   PROVE  /\ remotePolicy.transaction.op = "reconcile"
                          /\ remotePolicy.transaction.svc = s
        OBVIOUS
    <3>2. CanResumeAs(remotePolicy.transaction, request)
        BY <2>1, <3>1, ResumesOwn DEF IInv
    <3>3. remotePolicy.transaction.op \in Operation
        BY <3>1 DEF MarkerInv, Transaction
    <3> QED
        BY <3>2, <3>3 DEF CanResumeAs, Rank, Operation
  <2> QED
      BY <2>1, <2>2 DEF MarkerInv, Ahead
<1>4. ASSUME NEW s \in Service, BeginRevoke(s) \/ BeginCleanup(s)
      PROVE  MarkerInv'
  <2>1. /\ UNCHANGED <<revision, services, pendingReconcile, remotePolicy>> /\ cmd'.svc = s
        /\ cmd'.op \in {"revoke", "cleanup"}
        /\ cmd'.op = "revoke" => services[s].status = "enabled" \/ pendingReconcile.svc = s
        /\ cmd'.op = "cleanup" => pendingReconcile.svc # s
      BY <1>4 DEF BeginRevoke, BeginCleanup, local, remote, Idle
  <2>2. pendingReconcile = NoPending \/ pendingReconcile.svc = s
      BY <1>4, ControlsAligned DEF IInv, BeginRevoke, BeginCleanup, Transaction, Operation
  <2> QED
      BY <2>1, <2>2 DEF MarkerInv, Ahead, Operation
<1>5. ASSUME NEW s \in Service, BeginPut(s) \/ BeginPrune(s)
      PROVE  MarkerInv'
    BY <1>5 DEF BeginPut, BeginPrune, local, remote, Idle, MarkerInv, Ahead, Operation
<1>6. CASE SetDenyAll
    BY <1>6, MarkerWritten DEF SetDenyAll, DenyAll, local, IInv, TypeOK, Command,
       CommandInv, Idle, Operation
<1>7. CASE SetRestricted
    BY <1>7, MarkerWritten DEF SetRestricted, RenderPolicy, local, IInv, TypeOK, Command,
       CommandInv, Idle, Operation
<1>8. CASE SetResourcePolicy
    BY <1>8, MarkerWritten DEF SetResourcePolicy, RenderPolicy, local, IInv, TypeOK, Command,
       CommandInv, Idle, Operation
<1>9. CASE Commit
  <2>1. ~Ahead'
      BY <1>0, <1>9 DEF Commit, Ahead, remote
  <2> QED
      BY <1>9, <2>1 DEF Commit, MarkerInv, Idle, Operation
<1>10. CASE UploadOne \/ SetAttestationPolicy \/ DeleteOne \/ PutUpload
    BY <1>10 DEF UploadOne, SetAttestationPolicy, DeleteOne, PutUpload, local, IInv, TypeOK,
       Command, MarkerInv, Ahead
<1>11. CASE DeletesDone \/ Interrupt
    BY <1>11 DEF DeletesDone, Interrupt, local, remote, IInv, TypeOK, Command, Idle, MarkerInv,
       Ahead, Operation
<1>12. CASE PutRecord
  <2>1. ~Ahead'
      BY <1>0, <1>12 DEF PutRecord, Ahead, remote
  <2> QED
      BY <1>12, <2>1 DEF PutRecord, MarkerInv, Idle, Operation
<1>13. CASE UNCHANGED vars
    BY <1>13 DEF vars, local, remote, MarkerInv, Ahead
<1> QED
    BY <1>1, <1>2, <1>3, <1>4, <1>5, <1>6, <1>7, <1>8, <1>9, <1>10, <1>11, <1>12, <1>13
       DEF Next, Begin, Step

LEMMA InitRecovery == Init => MarkerInv /\ SettledInv /\ RetryInv /\ UploadUnderOwnBinding
BY DEF Init, MarkerInv, SettledInv, RetryInv, Ahead, Idle, NoDigest, BaselinePolicy, Operation,
   UploadUnderOwnBinding

-----------------------------------------------------------------------------
LEMMA NextRetryInv ==
    ASSUME RetryOriginal
    PROVE  IInv /\ MarkerInv /\ RetryInv /\ UploadUnderOwnBinding /\ [Next]_vars
               => RetryInv' /\ UploadUnderOwnBinding'
<1> SUFFICES ASSUME IInv, MarkerInv, RetryInv, UploadUnderOwnBinding, [Next]_vars
             PROVE  RetryInv' /\ UploadUnderOwnBinding'
    OBVIOUS
<1> USE DEF IInv
<1>0. revision \in Nat /\ remotePolicy.revision \in Nat /\ remotePolicy.revision <= revision + 1
    BY DEF TypeOK, PolicyInv, Policy
<1>1. CASE Adopt
    BY <1>0, <1>1 DEF Adopt, Ahead, remote, RetryInv, UploadUnderOwnBinding, Idle
<1>2. CASE ForeignEdit
  <2>1. Ahead' => Ahead /\ UNCHANGED remotePolicy
      BY <1>0, <1>2, SyncedNotAhead DEF ForeignEdit, Ahead, TypeOK, Policy, local
  <2> QED
      BY <1>2, <2>1 DEF ForeignEdit, local, RetryInv, UploadUnderOwnBinding, Idle
<1>3. ASSUME NEW s \in Service, NEW b \in Binding, BeginReconcile(s, b)
      PROVE  RetryInv' /\ UploadUnderOwnBinding'
  <2> DEFINE request == [op |-> "reconcile", svc |-> s]
  <2>1. /\ pendingReconcile' = [svc |-> s, binding |-> b]
        /\ cmd'.op = "reconcile" /\ cmd'.svc = s /\ cmd'.binding = b
        /\ UNCHANGED <<revision, services, remotePolicy>> /\ Controls(request)
      BY <1>3 DEF BeginReconcile, remote
  <2>2. Ahead => remotePolicy.bindings[s] \in {NoBinding, b}
                 /\ remotePolicy.transaction.svc = s
    <3>1. SUFFICES ASSUME Ahead PROVE remotePolicy.bindings[s] \in {NoBinding, b}
                                      /\ remotePolicy.transaction.svc = s
        OBVIOUS
    <3>2. CanResumeAs(remotePolicy.transaction, request)
        BY <2>1, <3>1, ResumesOwn
    <3>3. remotePolicy.transaction.op \in Operation
        BY <3>1 DEF MarkerInv, Transaction
    <3>4. remotePolicy.transaction.op = "reconcile" /\ remotePolicy.transaction.svc = s
        BY <3>2, <3>3 DEF CanResumeAs, Rank, Operation
    <3>5. pendingReconcile.svc = s
        BY <3>1, <3>4 DEF MarkerInv
    <3>6. pendingReconcile.binding = b
        BY <1>3, <3>5 DEF BeginReconcile
    <3> QED
        BY <3>1, <3>4, <3>6 DEF RetryInv
  <2>3. cmd'.pc = "upload" => remotePolicy.bindings[s] \in {NoBinding, b}
    <3>1. SUFFICES ASSUME cmd'.pc = "upload" PROVE remotePolicy.bindings[s] \in {NoBinding, b}
        OBVIOUS
    <3>2. ~Claims(request) /\ services[s].status = "enabled" /\ services[s].binding = b
        BY <1>3, <3>1 DEF BeginReconcile, AttestationBindingChanged
    <3>3. CASE Synced
        BY <3>2, <3>3 DEF Synced, PolicyInv, Grants
    <3>4. CASE ~Synced
        BY <2>1, <2>2, <3>2, <3>4 DEF Controls, Owns, RecoveryPending, Ahead
    <3> QED
        BY <3>3, <3>4
  <2> QED
      BY <2>1, <2>2, <2>3 DEF RetryInv, UploadUnderOwnBinding, Ahead
<1>4. ASSUME NEW s \in Service,
             BeginRevoke(s) \/ BeginCleanup(s) \/ BeginPut(s) \/ BeginPrune(s)
      PROVE  RetryInv' /\ UploadUnderOwnBinding'
    BY <1>4 DEF BeginRevoke, BeginCleanup, BeginPut, BeginPrune, local, remote, Idle, RetryInv,
       Ahead, UploadUnderOwnBinding
<1>5. CASE SetDenyAll
  <2>1. cmd.op = "reconcile" /\ cmd.svc \in Service
      BY <1>5 DEF SetDenyAll, CommandInv, Idle
  <2> QED
      BY <1>5, <2>1 DEF SetDenyAll, DenyAll, local, TypeOK, Command, RetryInv,
         UploadUnderOwnBinding
<1>6. CASE SetRestricted
  <2>1. cmd.op = "reconcile" /\ cmd.svc \in Service
      BY <1>6 DEF SetRestricted, CommandInv, Idle
  <2>2. Grants(Withdrawn)[cmd.svc] = NoBinding
      BY <2>1 DEF Grants, Withdrawn, Absent, TypeOK
  <2> QED
      BY <1>6, <2>1, <2>2 DEF SetRestricted, RenderPolicy, local, TypeOK, Command, RetryInv,
         UploadUnderOwnBinding
<1>7. CASE SetResourcePolicy
  <2>1. cmd.op \in Operation /\ cmd.svc \in Service
      BY <1>7 DEF SetResourcePolicy, CommandInv, Idle, Operation
  <2>2. cmd.op = "reconcile" => Grants(Proposed)[cmd.svc] = pendingReconcile.binding
      BY <2>1 DEF CommandInv, Idle, Grants, Proposed, Committed, TypeOK
  <2> QED
      BY <1>7, <2>1, <2>2 DEF SetResourcePolicy, RenderPolicy, local, TypeOK, Command, RetryInv,
         UploadUnderOwnBinding
<1>8. CASE Commit \/ PutRecord
    BY <1>0, <1>8 DEF Commit, PutRecord, Ahead, remote, RetryInv, UploadUnderOwnBinding, Idle
<1>9. CASE UploadOne \/ SetAttestationPolicy \/ DeleteOne \/ PutUpload
    BY <1>9 DEF UploadOne, SetAttestationPolicy, DeleteOne, PutUpload, local, TypeOK, Command,
       RetryInv, Ahead, UploadUnderOwnBinding
<1>10. CASE DeletesDone \/ Interrupt
    BY <1>10 DEF DeletesDone, Interrupt, local, remote, TypeOK, Command, Idle, RetryInv, Ahead,
       UploadUnderOwnBinding
<1>11. CASE UNCHANGED vars
    BY <1>11 DEF vars, local, remote, RetryInv, Ahead, UploadUnderOwnBinding
<1> QED
    BY <1>1, <1>2, <1>3, <1>4, <1>5, <1>6, <1>7, <1>8, <1>9, <1>10, <1>11
       DEF Next, Begin, Step

(* While a sync uploads, the policy admits nobody to the repository or only  *)
(* guests of the binding that is uploaded for, wherever earlier commands     *)
(* died, if an interrupted sync is retried as it was.                        *)
THEOREM UploadsUnderOwnBinding ==
    ASSUME RetryOriginal PROVE Spec => []UploadUnderOwnBinding
<1> DEFINE RInv == IInv /\ MarkerInv /\ RetryInv /\ UploadUnderOwnBinding
<1>1. Init => RInv
    BY InitIInv, InitRecovery
<1>2. RInv /\ [Next]_vars => RInv'
    BY NextTypeOK, NextCommandInv, NextPolicyInv, NextNoOrphanedSecret, NextMarkerInv,
       NextRetryInv DEF IInv
<1>3. RInv => UploadUnderOwnBinding
    OBVIOUS
<1> QED
    BY <1>1, <1>2, <1>3, PTL DEF Spec

-----------------------------------------------------------------------------
LEMMA NextSettledInv ==
    ASSUME ~AdoptWhenOwned
    PROVE  IInv /\ SettledInv /\ [Next]_vars => SettledInv'
<1> SUFFICES ASSUME IInv, SettledInv, [Next]_vars PROVE SettledInv'
    OBVIOUS
<1> USE DEF IInv
<1>1. CASE Adopt
    BY <1>1 DEF Adopt, SettledInv, remote, Synced, Ahead, Idle
<1>2. CASE ForeignEdit
  <2>1. cmd = Idle /\ UNCHANGED <<cmd, revision, resourcePolicyDigest>>
      BY <1>2 DEF ForeignEdit, local
  <2>2. CASE UNCHANGED remotePolicy
      BY <2>1, <2>2 DEF SettledInv, Synced, Ahead
  <2>3. CASE Synced /\ remotePolicy' = [remotePolicy EXCEPT !.edited = ~@]
    <3>1. remotePolicy.edited = FALSE
        BY <2>3 DEF Synced, SettledInv
    <3>2. remotePolicy'.edited = TRUE
        BY <2>3, <3>1 DEF TypeOK, Policy
    <3> QED
        BY <2>1, <3>2 DEF SettledInv, Idle
  <2>4. CASE remotePolicy.owner = "none" /\ remotePolicy' = [remotePolicy EXCEPT !.edited = ~@]
    <3>1. remotePolicy'.owner = "none"
        BY <2>4 DEF TypeOK, Policy
    <3> QED
        BY <2>1, <3>1 DEF SettledInv, Idle
  <2>5. CASE remotePolicy' = [remotePolicy EXCEPT !.owner = "other", !.edited = TRUE]
    <3>1. remotePolicy'.owner = "other"
        BY <2>5 DEF TypeOK, Policy
    <3> QED
        BY <2>1, <3>1 DEF SettledInv, Idle
  <2> QED
      BY <1>2, <2>2, <2>3, <2>4, <2>5 DEF ForeignEdit
<1>3. ASSUME NEW s \in Service, NEW b \in Binding, BeginReconcile(s, b)
      PROVE  SettledInv'
    BY <1>3 DEF BeginReconcile, remote, SettledInv, Synced, Ahead
<1>4. ASSUME NEW s \in Service, BeginRevoke(s) \/ BeginCleanup(s) \/ BeginPrune(s)
      PROVE  SettledInv'
    BY <1>4 DEF BeginRevoke, BeginCleanup, BeginPrune, local, remote, Idle, SettledInv, Synced,
       Ahead
<1>5. ASSUME NEW s \in Service, BeginPut(s)
      PROVE  SettledInv'
  <2>1. remotePolicy.owner # "none"
      BY <1>5 DEF BeginPut, PolicyInv, Absent
  <2>2. Synced
      BY <1>5, <2>1 DEF BeginPut, Controls, Owns, Claims, CanResumeAs
  <2> QED
      BY <1>5, <2>2 DEF BeginPut, local, remote, Idle, SettledInv, Synced, Ahead
<1>6. CASE SetDenyAll \/ SetRestricted \/ SetResourcePolicy
  <2>1. /\ cmd'.op = cmd.op /\ cmd.op \in Operation /\ UNCHANGED local
        /\ remotePolicy'.edited = FALSE /\ remotePolicy'.revision = revision + 1
        /\ remotePolicy'.owner = "self"
      BY <1>6 DEF SetDenyAll, SetRestricted, SetResourcePolicy, DenyAll, RenderPolicy, TypeOK,
         Command, CommandInv, Idle, Operation
  <2> QED
      BY <2>1 DEF SettledInv, Ahead, local, Operation
<1>7. CASE Commit
    BY <1>7 DEF Commit, remote, SettledInv, Synced, Idle
<1>8. CASE UploadOne \/ SetAttestationPolicy \/ DeleteOne \/ PutUpload
    BY <1>8 DEF UploadOne, SetAttestationPolicy, DeleteOne, PutUpload, local, TypeOK, Command,
       SettledInv, Synced, Ahead
<1>9. CASE DeletesDone \/ Interrupt
    BY <1>9 DEF DeletesDone, Interrupt, local, remote, TypeOK, Command, Idle, SettledInv, Synced,
       Ahead
<1>10. CASE PutRecord
  <2>1. Synced
      BY <1>10 DEF PutRecord, SettledInv, CommandInv, Idle
  <2> QED
      BY <1>10, <2>1 DEF PutRecord, remote, SettledInv, Synced, Idle
<1>11. CASE UNCHANGED vars
    BY <1>11 DEF vars, local, remote, SettledInv, Synced, Ahead
<1> QED
    BY <1>1, <1>2, <1>3, <1>4, <1>5, <1>6, <1>7, <1>8, <1>9, <1>10, <1>11
       DEF Next, Begin, Step

(* A policy that is this host's, unedited and explained can be continued *)
LEMMA ContinuesOwn ==
    ASSUME TypeOK, MarkerInv, SettledInv, ~Drifted, NEW s \in Service,
           NEW op \in {"revoke", "cleanup"},
           pendingReconcile = NoPending \/ pendingReconcile.svc = s,
           ~Synced /\ remotePolicy.owner = "self" =>
               /\ remotePolicy.transaction.svc = s
               /\ remotePolicy.transaction.op = "cleanup" => op = "cleanup"
    PROVE  Controls([op |-> op, svc |-> s])
<1> DEFINE request == [op |-> op, svc |-> s]
<1>1. request # NoTransaction /\ request.svc = s /\ PendingAllows(request)
    BY BindingAssumption DEF NoTransaction, PendingAllows
<1>2. CASE remotePolicy.owner = "none"
    BY <1>1, <1>2 DEF Drifted, Controls, Claims
<1>3. CASE remotePolicy.owner = "self"
  <2>1. AttestationExplained /\ remotePolicy.edited = FALSE
      BY <1>3 DEF Drifted, TypeOK, Policy
  <2>2. CASE Synced
      BY <1>1, <1>3, <2>1, <2>2 DEF Controls, Owns
  <2>3. CASE ~Synced
    <3>1. Ahead
        BY <1>3, <2>1, <2>3 DEF SettledInv
    <3>2. /\ remotePolicy.transaction \in Transaction /\ remotePolicy.transaction.svc = s
          /\ remotePolicy.transaction.op = "cleanup" => op = "cleanup"
        BY <1>3, <2>3, <3>1 DEF MarkerInv
    <3>3. Rank(request.op) >= Rank(remotePolicy.transaction.op)
        BY <3>2 DEF Rank, Transaction, Operation
    <3>4. remotePolicy.transaction # NoTransaction
        BY <3>2, BindingAssumption DEF Transaction, NoTransaction
    <3> QED
        BY <1>1, <1>3, <2>1, <2>3, <3>1, <3>2, <3>3, <3>4
           DEF Controls, Owns, CanResumeAs, RecoveryPending, Ahead
  <2> QED
      BY <2>2, <2>3
<1> QED
    BY <1>2, <1>3 DEF Drifted, TypeOK, Policy

(* Wherever a command died, destroy of the service it worked on is accepted, *)
(* unless somebody else changed the policies or the operator adopted a policy *)
(* that was already owned.                                                    *)
THEOREM InterruptionsRecoverable ==
    ASSUME ~AdoptWhenOwned PROVE Spec => []InterruptedCanBeDestroyed
<1> DEFINE DInv == IInv /\ MarkerInv /\ SettledInv
<1>1. Init => DInv
    BY InitIInv, InitRecovery
<1>2. DInv /\ [Next]_vars => DInv'
    BY NextTypeOK, NextCommandInv, NextPolicyInv, NextNoOrphanedSecret, NextMarkerInv,
       NextSettledInv DEF IInv
<1>3. DInv => InterruptedCanBeDestroyed
  <2> SUFFICES ASSUME DInv, cmd = Idle, ~Drifted, NEW s \in Service, Interrupted(s)
               PROVE  DestroyAccepted(s)
      BY DEF InterruptedCanBeDestroyed
  <2>1. CASE pendingReconcile.svc = s
    <3>1. ~Synced /\ remotePolicy.owner = "self" =>
              /\ remotePolicy.transaction.svc = s
              /\ remotePolicy.transaction.op = "cleanup" => FALSE
      <4>1. SUFFICES ASSUME ~Synced, remotePolicy.owner = "self"
                     PROVE  /\ remotePolicy.transaction.svc = s
                            /\ remotePolicy.transaction.op = "cleanup" => FALSE
          OBVIOUS
      <4>2. Ahead
          BY <4>1 DEF SettledInv, Drifted, IInv, TypeOK, Policy
      <4> QED
          BY <2>1, <4>2, BindingAssumption DEF MarkerInv, NoPending
    <3> QED
        BY <2>1, <3>1, ContinuesOwn DEF DestroyAccepted, IInv
  <2>2. CASE pendingReconcile.svc # s /\ remotePolicy.owner = "self" /\ ~Synced
             /\ remotePolicy.transaction.svc = s
    <3>1. Ahead
        BY <2>2 DEF SettledInv, Drifted, IInv, TypeOK, Policy
    <3>2. pendingReconcile = NoPending /\ remotePolicy.transaction.op \in {"revoke", "cleanup"}
        BY <2>2, <3>1 DEF MarkerInv, Transaction, Operation
    <3>3. CASE remotePolicy.transaction.op = "revoke"
        BY <2>2, <3>1, <3>2, <3>3, ContinuesOwn DEF MarkerInv, DestroyAccepted, IInv
    <3>4. CASE remotePolicy.transaction.op = "cleanup"
        BY <2>2, <3>1, <3>2, <3>4, ContinuesOwn DEF MarkerInv, DestroyAccepted, IInv
    <3> QED
        BY <3>2, <3>3, <3>4
  <2> QED
      BY <2>1, <2>2 DEF Interrupted
<1> QED
    BY <1>1, <1>2, <1>3, PTL DEF Spec

----------------------------------------------------------------------------
(* cai-pep *)

Busy == {"sent", "waiting", "removing", "joining", "fetching", "verifying"}

\* Where a request is, and what there is of it by then
PlaceInv ==
    \A r \in Request :
        /\ at[r] \in Busy => listening
        /\ at[r] \in {"idle", "sent", "fetching", "verifying"} => name[r] = None
        /\ at[r] \in {"waiting", "removing", "joining"} => name[r] # None
        /\ at[r] \in {"removing", "joining"} => client[r] = "dead"
        /\ at[r] = "joining" => sandbox[r] \notin Running
        /\ answer[r] # "none" => at[r] \in {"answered", "shown"}
        /\ name[r] = None => client[r] = "none" /\ sandbox[r] = "none"

\* A name was made by this process before the next counter, or by an earlier one
NameInv ==
    \A r \in Request : name[r] # None =>
        /\ name[r][2] =< pid
        /\ name[r][2] = pid => listening /\ name[r][3] < nextId

UniqueInv ==
    \A r, s \in Request : name[r] # None /\ name[r] = name[s] => r = s

PepInv == PepTypeOK /\ PlaceInv /\ NameInv /\ UniqueInv /\ StoppedOrReported

----------------------------------------------------------------------------
LEMMA InitPepInv == PepInit => PepInv
<1> SUFFICES ASSUME PepInit PROVE PepInv
    OBVIOUS
<1>1. PepTypeOK
    BY DEF PepInit, PepTypeOK, Sandboxes, Present, Running
<1>2. PlaceInv /\ NameInv /\ UniqueInv /\ StoppedOrReported
    BY DEF PepInit, PlaceInv, NameInv, UniqueInv, StoppedOrReported, Running, Busy
<1> QED  BY <1>1, <1>2 DEF PepInv

LEMMA TickIInv == ASSUME PepInv, Tick PROVE PepInv'
BY DEF PepInv, Tick, PepTypeOK, PlaceInv, NameInv, UniqueInv, StoppedOrReported, work, files

LEMMA ServeIInv == ASSUME PepInv, Serve PROVE PepInv'
<1>1. PepTypeOK'
  <2>1. listening' \in BOOLEAN
      BY Zenon DEF Serve
  <2> QED  BY <2>1 DEF PepInv, Serve, PepTypeOK, work, files
<1>2. \A r \in Request : name[r] # None => name[r][2] # pid
    BY DEF PepInv, Serve, NameInv
<1>3. NameInv'
    BY <1>2 DEF PepInv, Serve, NameInv
<1>4. PlaceInv'
    BY DEF PepInv, Serve, PlaceInv, work
<1>5. UniqueInv' /\ StoppedOrReported'
    BY DEF PepInv, Serve, UniqueInv, StoppedOrReported, work
<1> QED  BY <1>1, <1>3, <1>4, <1>5 DEF PepInv

\* No name of the process that follows has been made yet
LEMMA DieIInv == ASSUME PepInv, Die PROVE PepInv'
<1>1. PepTypeOK'
  <2>1. listening' \in BOOLEAN
      BY Zenon DEF Die
  <2> QED  BY <2>1 DEF PepInv, Die, PepTypeOK, work, files
<1>2. NameInv'
  <2>1. \A r \in Request : name[r] # None => name[r] \in Name
      BY DEF PepInv, PepTypeOK
  <2> QED  BY <2>1 DEF PepInv, Die, PepTypeOK, NameInv, Name
<1>3. PlaceInv'
  <2>1. \A r \in Request : at'[r] \notin Busy /\ (at'[r] = at[r] \/ at'[r] = "lost")
      BY DEF PepInv, PepTypeOK, Die, Busy
  <2>2. \A r \in Request : at[r] \in {"answered", "shown"} => at'[r] = at[r]
      BY DEF Die
  <2> QED  BY <2>1, <2>2 DEF PepInv, Die, PlaceInv, work, Busy
<1>4. UniqueInv' /\ StoppedOrReported'
    BY DEF PepInv, Die, UniqueInv, StoppedOrReported, work
<1> QED  BY <1>1, <1>2, <1>3, <1>4 DEF PepInv

----------------------------------------------------------------------------
(* The thread of a request, and who waits for its answer *)

\* Steps that start nothing: the request goes from one place to another
LEMMA MovedIInv ==
    ASSUME PepInv, NEW r \in Request,
           NEW there \in {"sent", "lost", "removing", "joining", "answered", "shown", "failed",
                          "fetching", "verifying"},
           at' = [at EXCEPT ![r] = there], PepTypeOK',
           answer'[r] # "none" => there \in {"answered", "shown"},
           \A s \in Request \ {r} : answer'[s] = answer[s],
           UNCHANGED <<server, name, work>>,
           there \in Busy => listening,
           there \in {"sent", "fetching", "verifying"} => name[r] = None,
           there \in {"removing", "joining"} => name[r] # None /\ client[r] = "dead",
           there = "joining" => sandbox[r] \notin Running,
           answer'[r] = "ok" => sandbox[r] \notin Running /\ client[r] # "alive"
    PROVE  PepInv'
<1>1. PlaceInv'
    BY DEF PepInv, PepTypeOK, PlaceInv, work, server
<1>2. NameInv' /\ UniqueInv'
    BY DEF PepInv, NameInv, UniqueInv, server
<1>3. StoppedOrReported'
    BY DEF PepInv, StoppedOrReported, work
<1> QED  BY <1>1, <1>2, <1>3 DEF PepInv

LEMMA AnsweredEffect ==
    ASSUME PepInv, NEW r \in Request, NEW a \in {"ok"} \cup Verdicts, Answer(r, a)
    PROVE  /\ at' = [at EXCEPT ![r] = "answered"] /\ answer'[r] = a
           /\ at' \in [Request -> {"idle", "sent", "waiting", "removing", "joining", "fetching",
                                   "verifying", "answered", "lost", "shown", "failed"}]
           /\ answer' \in [Request -> {"none", "ok"} \cup Verdicts]
           /\ \A s \in Request \ {r} : answer'[s] = answer[s]
BY DEF PepInv, PepTypeOK, Answer

LEMMA FailedIsAVerdict == "failed" \in Verdicts
<1> DEFINE i == [method |-> "submit_intent", tool |-> "exec", workdir |-> "allowed",
                 denied |-> "no", names |-> FALSE, words |-> "none",
                 subcommand |-> "missing", options |-> "known"]
<1>1. i \in Intents
    BY Zenon DEF Intents
<1>2. Verdict(i) = "failed"
    BY DEF Verdict, Attestation
<1> QED  BY <1>1, <1>2 DEF Verdicts

LEMMA SendIInv == ASSUME PepInv, NEW r \in Request, Send(r) PROVE PepInv'
<1>1. PepTypeOK'
    BY DEF PepInv, PepTypeOK, Send, server, work, files
<1>2. name[r] = None /\ answer[r] = "none"
    BY DEF PepInv, PlaceInv, Send
<1> QED  BY <1>1, <1>2, MovedIInv DEF Send, Busy

LEMMA ReceiveIInv == ASSUME PepInv, NEW r \in Request, Receive(r) PROVE PepInv'
<1>1. PepTypeOK'
    BY DEF PepInv, PepTypeOK, Receive, server, work, files
<1>2. CASE at[r] = "answered"
  <2>1. at' = [at EXCEPT ![r] = "shown"]
      BY <1>2 DEF Receive
  <2> QED  BY <1>1, <2>1, MovedIInv DEF Receive, PepInv, StoppedOrReported, Busy
<1>3. CASE at[r] = "lost"
  <2>1. at' = [at EXCEPT ![r] = "failed"] /\ answer[r] = "none"
      BY <1>3 DEF Receive, PepInv, PlaceInv
  <2> QED  BY <1>1, <2>1, MovedIInv DEF Receive, Busy
<1> QED  BY <1>2, <1>3 DEF Receive

\* A connection that is closed without a response had none before
LEMMA DropIInv ==
    ASSUME PepInv, NEW r \in Request, at[r] \in Busy, Drop(r), UNCHANGED <<server, name, work>>,
           PepTypeOK'
    PROVE  PepInv'
<1>1. answer[r] = "none"
    BY DEF PepInv, PlaceInv, Busy
<1> QED  BY <1>1, MovedIInv DEF Drop, Busy

LEMMA UnreadableIInv == ASSUME PepInv, NEW r \in Request, Unreadable(r) PROVE PepInv'
<1>1. PepTypeOK'
    BY DEF PepInv, PepTypeOK, Unreadable, Drop, server, work, files
<1> QED  BY <1>1, DropIInv DEF Unreadable, Busy

\* What is answered without a container, as an error, or after its end
LEMMA AnswerIInv ==
    ASSUME PepInv, NEW r \in Request, NEW a \in {"ok"} \cup Verdicts, Answer(r, a), PepTypeOK',
           UNCHANGED <<server, name, work>>,
           a = "ok" => sandbox[r] \notin Running /\ client[r] # "alive"
    PROVE  PepInv'
BY AnsweredEffect, MovedIInv DEF Busy

LEMMA RefuseIInv == ASSUME PepInv, NEW r \in Request, Refuse(r) PROVE PepInv'
<1>1. name[r] = None /\ client[r] = "none" /\ sandbox[r] = "none"
    BY DEF PepInv, PlaceInv, Refuse
<1>2. ASSUME NEW v \in Verdicts, Answer(r, v) PROVE PepInv'
  <2>1. PepTypeOK'
      BY <1>2, AnsweredEffect DEF PepInv, PepTypeOK, Refuse, server, work, files
  <2> QED  BY <1>1, <1>2, <2>1, AnswerIInv DEF Refuse, Running
<1>3. ASSUME Drop(r) PROVE PepInv'
  <2>1. PepTypeOK'
      BY <1>3 DEF PepInv, PepTypeOK, Drop, Refuse, server, work, files
  <2> QED  BY <1>3, <2>1, DropIInv DEF Refuse, Busy
<1>4. PICK v \in Verdicts : Answer(r, v) \/ Drop(r)
    BY DEF Refuse, Summarized
<1> QED  BY <1>2, <1>3, <1>4

LEMMA PrepareIInv == ASSUME PepInv, NEW r \in Request, Prepare(r) PROVE PepInv'
<1>1. PepTypeOK'
    BY DEF PepInv, PepTypeOK, Prepare, server, work
<1>2. name[r] = None /\ answer[r] = "none" /\ listening
    BY DEF PepInv, PlaceInv, Prepare, Busy
<1> QED  BY <1>1, <1>2, MovedIInv DEF Prepare, Busy

LEMMA FetchIInv == ASSUME PepInv, NEW r \in Request, Fetch(r) PROVE PepInv'
<1>1. name[r] = None /\ client[r] = "none" /\ sandbox[r] = "none" /\ answer[r] = "none"
      /\ listening
    BY DEF PepInv, PlaceInv, Fetch, Busy
<1>2. CASE at' = [at EXCEPT ![r] = "verifying"] /\ UNCHANGED answer
  <2>1. PepTypeOK'
      BY <1>2 DEF PepInv, PepTypeOK, Fetch, server, work
  <2> QED  BY <1>1, <1>2, <2>1, MovedIInv DEF Fetch, Busy
<1>3. ASSUME NEW a \in {"ok"} \cup Verdicts, Answer(r, a) PROVE PepInv'
  <2>1. PepTypeOK'
      BY <1>3, AnsweredEffect DEF PepInv, PepTypeOK, Fetch, server, work
  <2> QED  BY <1>1, <1>3, <2>1, AnswerIInv DEF Fetch, Running
<1>4. ASSUME Drop(r) PROVE PepInv'
  <2>1. PepTypeOK'
      BY <1>4 DEF PepInv, PepTypeOK, Drop, Fetch, server, work
  <2> QED  BY <1>4, <2>1, DropIInv DEF Fetch, Busy
<1> QED  BY <1>2, <1>3, <1>4, FailedIsAVerdict DEF Fetch, Summarized

LEMMA VerifyIInv == ASSUME PepInv, NEW r \in Request, Verify(r) PROVE PepInv'
<1>1. name[r] = None /\ client[r] = "none" /\ sandbox[r] = "none"
    BY DEF PepInv, PlaceInv, Verify
<1>2. ASSUME NEW a \in {"ok"} \cup Verdicts, Answer(r, a) PROVE PepInv'
  <2>1. PepTypeOK'
      BY <1>2, AnsweredEffect DEF PepInv, PepTypeOK, Verify, server, work
  <2> QED  BY <1>1, <1>2, <2>1, AnswerIInv DEF Verify, Running
<1>3. ASSUME Drop(r) PROVE PepInv'
  <2>1. PepTypeOK'
      BY <1>3 DEF PepInv, PepTypeOK, Drop, Verify, server, work
  <2> QED  BY <1>3, <2>1, DropIInv DEF Verify, Busy
<1> QED  BY <1>2, <1>3, FailedIsAVerdict DEF Verify, Summarized

----------------------------------------------------------------------------
(* The command, its client and its container *)

\* A new name: those of this process have smaller counters
LEMMA LaunchIInv == ASSUME PepInv, NEW r \in Request, Launch(r) PROVE PepInv'
<1>1. /\ at[r] = "sent" /\ listening /\ name[r] = None /\ answer[r] = "none"
      /\ client[r] = "none" /\ sandbox[r] = "none"
    BY DEF PepInv, PlaceInv, Launch, Busy
<1>2. UniqueId \in Name /\ UniqueId # None /\ UniqueId[2] = pid /\ UniqueId[3] = nextId
    BY NoneAssumption DEF PepInv, PepTypeOK, UniqueId, Name
<1>3. name' = [name EXCEPT ![r] = UniqueId] /\ name'[r] = UniqueId
      /\ \A s \in Request \ {r} : name'[s] = name[s]
    BY DEF PepInv, PepTypeOK, Launch
<1>4. NameInv'
  <2>1. pid' = pid /\ nextId' = nextId + 1 /\ listening' = listening /\ nextId \in Nat
        /\ pid \in Nat
      BY DEF PepInv, PepTypeOK, Launch
  <2>2. ASSUME NEW s \in Request, name'[s] # None
        PROVE  name'[s][2] =< pid /\ (name'[s][2] = pid => listening /\ name'[s][3] < nextId + 1)
    <3>1. CASE s = r
        BY <1>1, <1>2, <1>3, <2>1, <3>1
    <3>2. CASE s # r
      <4>1. name'[s] = name[s] /\ name[s] \in Name
          BY <1>3, <2>2, <3>2 DEF PepInv, PepTypeOK
      <4> QED  BY <2>1, <2>2, <4>1 DEF PepInv, NameInv, Name
    <3> QED  BY <3>1, <3>2
  <2> QED  BY <2>1, <2>2 DEF NameInv
<1>5. UniqueInv'
  <2>1. \A s \in Request : name[s] # UniqueId
      BY <1>2 DEF PepInv, PepTypeOK, NameInv
  <2> QED  BY <1>2, <1>3, <2>1 DEF PepInv, UniqueInv
<1>6. CASE client' = [client EXCEPT ![r] = "alive"] /\ at' = [at EXCEPT ![r] = "waiting"]
           /\ UNCHANGED answer
  <2>1. PepTypeOK'
      BY <1>2, <1>3, <1>6 DEF PepInv, PepTypeOK, Launch, files
  <2>2. PlaceInv'
      BY <1>1, <1>2, <1>3, <1>6 DEF PepInv, PepTypeOK, PlaceInv, Launch, Busy
  <2>3. StoppedOrReported'
      BY <1>1, <1>6 DEF PepInv, PepTypeOK, StoppedOrReported, Launch
  <2> QED  BY <1>4, <1>5, <2>1, <2>2, <2>3 DEF PepInv
<1>7. CASE Answer(r, "failed") /\ UNCHANGED client
  <2>1. PepTypeOK'
      BY <1>2, <1>3, <1>7, FailedIsAVerdict, AnsweredEffect DEF PepInv, PepTypeOK, Launch, files
  <2>2. PlaceInv'
      BY <1>1, <1>2, <1>3, <1>7, FailedIsAVerdict, AnsweredEffect
         DEF PepInv, PepTypeOK, PlaceInv, Launch, Busy
  <2>3. StoppedOrReported'
      BY <1>1, <1>7, FailedIsAVerdict, AnsweredEffect DEF PepInv, StoppedOrReported, Launch, Running
  <2> QED  BY <1>4, <1>5, <2>1, <2>2, <2>3 DEF PepInv
<1> QED  BY <1>6, <1>7 DEF Launch

\* Steps of the runtime: only a client that lives makes a container run
LEMMA BoxIInv ==
    ASSUME PepInv, sandbox' \in [Request -> Sandboxes],
           UNCHANGED <<server, at, answer, name, client, files>>,
           \A s \in Request :
               /\ sandbox'[s] \in Running => sandbox[s] \in Running \/ client[s] = "alive"
               /\ name[s] = None => sandbox'[s] = sandbox[s]
    PROVE  PepInv'
<1>1. PepTypeOK'
    BY DEF PepInv, PepTypeOK, server, files
<1>2. PlaceInv'
    BY DEF PepInv, PlaceInv, server
<1>3. NameInv' /\ UniqueInv'
    BY DEF PepInv, NameInv, UniqueInv, server
<1>4. StoppedOrReported'
    BY DEF PepInv, StoppedOrReported
<1> QED  BY <1>1, <1>2, <1>3, <1>4 DEF PepInv

LEMMA BoxEffect ==
    ASSUME PepInv, NEW r \in Request, NEW b \in Sandboxes, SetBox(r, b)
    PROVE  /\ sandbox' \in [Request -> Sandboxes] /\ sandbox'[r] = b
           /\ \A s \in Request \ {r} : sandbox'[s] = sandbox[s]
BY DEF PepInv, PepTypeOK, SetBox

LEMMA AskIInv == ASSUME PepInv, NEW r \in Request, Ask(r) PROVE PepInv'
BY BoxEffect, BoxIInv DEF Ask, Sandboxes, Running

LEMMA CreateIInv == ASSUME PepInv, NEW r \in Request, Create(r) PROVE PepInv'
<1>1. name[r] # None
    BY DEF PepInv, PlaceInv, Create
<1>2. PICK b \in {"none", "created"} : SetBox(r, b)
    BY DEF Create
<1>3. b \in Sandboxes /\ b \notin Running
    BY DEF Sandboxes, Present, Running
<1> QED  BY <1>1, <1>2, <1>3, BoxEffect, BoxIInv DEF Create

LEMMA StartBoxIInv == ASSUME PepInv, NEW r \in Request, StartBox(r) PROVE PepInv'
<1>1. name[r] # None /\ client[r] = "alive"
    BY DEF PepInv, PlaceInv, StartBox
<1>2. PICK b \in Running : SetBox(r, b)
    BY DEF StartBox
<1>3. b \in Sandboxes
    BY DEF Sandboxes, Present
<1> QED  BY <1>1, <1>2, <1>3, BoxEffect, BoxIInv DEF StartBox

LEMMA ExitIInv == ASSUME PepInv, NEW r \in Request, Exit(r) PROVE PepInv'
<1>1. name[r] # None
    BY DEF PepInv, PlaceInv, Exit, Running
<1>2. "exited" \in Sandboxes /\ "exited" \notin Running
    BY DEF Sandboxes, Present, Running
<1> QED  BY <1>1, <1>2, BoxEffect, BoxIInv DEF Exit

LEMMA AutoRemoveIInv == ASSUME PepInv, NEW r \in Request, AutoRemove(r) PROVE PepInv'
<1>1. name[r] # None
    BY DEF PepInv, PlaceInv, AutoRemove
<1>2. "gone" \in Sandboxes /\ "gone" \notin Running
    BY DEF Sandboxes, Running
<1> QED  BY <1>1, <1>2, BoxEffect, BoxIInv DEF AutoRemove

LEMMA ClientEndsIInv == ASSUME PepInv, NEW r \in Request, ClientEnds(r) PROVE PepInv'
<1>1. PepTypeOK'
    BY DEF PepInv, PepTypeOK, ClientEnds, server, files
<1>2. PlaceInv'
    BY DEF PepInv, PepTypeOK, PlaceInv, ClientEnds, server
<1>3. NameInv' /\ UniqueInv'
    BY DEF PepInv, NameInv, UniqueInv, ClientEnds, server
<1>4. StoppedOrReported'
    BY DEF PepInv, PepTypeOK, StoppedOrReported, ClientEnds
<1> QED  BY <1>1, <1>2, <1>3, <1>4 DEF PepInv

LEMMA EndedIInv == ASSUME PepInv, NEW r \in Request, Ended(r) PROVE PepInv'
<1>1. PepTypeOK'
    BY DEF PepInv, PepTypeOK, Ended, server, work, files
<1>2. name[r] # None /\ client[r] = "dead" /\ answer[r] = "none" /\ listening
    BY DEF PepInv, PlaceInv, Ended, Busy
<1> QED  BY <1>1, <1>2, MovedIInv DEF Ended, Busy

LEMMA ExpireIInv == ASSUME PepInv, NEW r \in Request, Expire(r) PROVE PepInv'
<1>1. PepTypeOK'
    BY DEF PepInv, PepTypeOK, Expire, server, files
<1>2. PlaceInv'
    BY DEF PepInv, PepTypeOK, PlaceInv, Expire, server, Busy
<1>3. NameInv' /\ UniqueInv'
    BY DEF PepInv, NameInv, UniqueInv, Expire, server
<1>4. StoppedOrReported'
    BY DEF PepInv, PepTypeOK, StoppedOrReported, Expire
<1> QED  BY <1>1, <1>2, <1>3, <1>4 DEF PepInv

\* A name finds the container it was made for and no other
LEMMA RemovedEffect ==
    ASSUME PepInv, NEW r \in Request, name[r] # None
    PROVE  /\ Removed(r) \in [Request -> Sandboxes]
           /\ Removed(r)[r] \notin Running
           /\ \A s \in Request \ {r} : Removed(r)[s] = sandbox[s]
<1>1. Named(r) \subseteq {r}
    BY DEF PepInv, UniqueInv, Named
<1>2. sandbox[r] \in Running => r \in Named(r)
    BY DEF Named, Present
<1> QED  BY <1>1, <1>2 DEF PepInv, PepTypeOK, Removed, Sandboxes, Running

LEMMA RemoveIInv == ASSUME PepInv, NEW r \in Request, Remove(r) PROVE PepInv'
<1>1. name[r] # None /\ client[r] = "dead" /\ answer[r] = "none" /\ listening
    BY DEF PepInv, PlaceInv, Remove, Busy
<1>2. /\ sandbox' \in [Request -> Sandboxes] /\ sandbox'[r] \notin Running
      /\ \A s \in Request \ {r} : sandbox'[s] = sandbox[s]
    BY <1>1, RemovedEffect DEF Remove
<1>3. PepTypeOK'
    BY <1>2 DEF PepInv, PepTypeOK, Remove, server, files
<1>4. PlaceInv'
    BY <1>1, <1>2 DEF PepInv, PepTypeOK, PlaceInv, Remove, server, Busy
<1>5. NameInv' /\ UniqueInv'
    BY DEF PepInv, NameInv, UniqueInv, Remove, server
<1>6. StoppedOrReported'
    BY <1>1, <1>2 DEF PepInv, StoppedOrReported, Remove
<1> QED  BY <1>3, <1>4, <1>5, <1>6 DEF PepInv

LEMMA RemoveFailsIInv == ASSUME PepInv, NEW r \in Request, RemoveFails(r) PROVE PepInv'
<1>1. name[r] # None
    BY DEF PepInv, PlaceInv, RemoveFails
<1>2. /\ sandbox' \in [Request -> Sandboxes]
      /\ \A s \in Request \ {r} : sandbox'[s] = sandbox[s]
    BY <1>1, RemovedEffect DEF PepInv, PepTypeOK, RemoveFails
<1>3. /\ at' = [at EXCEPT ![r] = "answered"] /\ answer'[r] = "failed"
      /\ \A s \in Request \ {r} : answer'[s] = answer[s]
    BY FailedIsAVerdict, AnsweredEffect DEF RemoveFails
<1>4. PepTypeOK'
    BY <1>2, FailedIsAVerdict, AnsweredEffect DEF PepInv, PepTypeOK, RemoveFails, server, files
<1>5. PlaceInv'
    BY <1>1, <1>2, <1>3 DEF PepInv, PepTypeOK, PlaceInv, RemoveFails, server, Busy
<1>6. NameInv' /\ UniqueInv'
    BY DEF PepInv, NameInv, UniqueInv, RemoveFails, server
<1>7. StoppedOrReported'
    BY <1>2, <1>3 DEF PepInv, StoppedOrReported, RemoveFails
<1> QED  BY <1>4, <1>5, <1>6, <1>7 DEF PepInv

LEMMA JoinIInv == ASSUME PepInv, NEW r \in Request, Join(r) PROVE PepInv'
<1>1. sandbox[r] \notin Running /\ client[r] # "alive"
    BY DEF PepInv, PlaceInv, Join
<1>2. ASSUME Answer(r, "ok") PROVE PepInv'
  <2>1. PepTypeOK'
      BY <1>2, AnsweredEffect DEF PepInv, PepTypeOK, Join, server, work, files
  <2> QED  BY <1>1, <1>2, <2>1, AnswerIInv DEF Join
<1>3. ASSUME Drop(r) PROVE PepInv'
  <2>1. PepTypeOK'
      BY <1>3 DEF PepInv, PepTypeOK, Drop, Join, server, work, files
  <2> QED  BY <1>3, <2>1, DropIInv DEF Join, Busy
<1> QED  BY <1>2, <1>3 DEF Join, Summarized

----------------------------------------------------------------------------
LEMMA NextPepInv == PepInv /\ [PepNext]_pepVars => PepInv'
<1> SUFFICES ASSUME PepInv, [PepNext]_pepVars PROVE PepInv'
    OBVIOUS
<1>1. CASE Tick \/ Serve \/ Die
    BY <1>1, TickIInv, ServeIInv, DieIInv
<1>2. ASSUME NEW r \in Request, Send(r) \/ Receive(r) PROVE PepInv'
    BY <1>2, SendIInv, ReceiveIInv
<1>3. ASSUME NEW r \in Request, Thread(r) PROVE PepInv'
    BY <1>3, UnreadableIInv, RefuseIInv, LaunchIInv, EndedIInv, ExpireIInv, RemoveIInv,
       RemoveFailsIInv, JoinIInv, PrepareIInv, FetchIInv, VerifyIInv DEF Thread
<1>4. ASSUME NEW r \in Request, Runtime(r) PROVE PepInv'
    BY <1>4, AskIInv, CreateIInv, StartBoxIInv, ExitIInv, AutoRemoveIInv, ClientEndsIInv
       DEF Runtime
<1>5. CASE UNCHANGED pepVars
    BY <1>5 DEF PepInv, PepTypeOK, PlaceInv, NameInv, UniqueInv, StoppedOrReported, pepVars, server,
       work, files
<1> QED  BY <1>1, <1>2, <1>3, <1>4, <1>5 DEF PepNext

\* The state of requests, clients and containers keeps its shape, however the
\* server dies and the runtime acts.
THEOREM PepTypeCorrect == PepSpec => []PepTypeOK
<1>1. PepInv => PepTypeOK
    BY DEF PepInv
<1> QED  BY <1>1, InitPepInv, NextPepInv, PTL DEF PepSpec

\* An answer with a result means that the command is over, for any number of
\* requests and whatever client, runtime and deadline do.
THEOREM ResultsAreFinal == PepSpec => []StoppedOrReported
<1>1. PepInv => StoppedOrReported
    BY DEF PepInv
<1> QED  BY <1>1, InitPepInv, NextPepInv, PTL DEF PepSpec

----------------------------------------------------------------------------
\* What a step may do to containers: only a removal ends one that runs, and its
\* name finds no other
LEMMA OthersStep ==
    ASSUME PepInv, [PepNext]_pepVars, NEW r \in Request,
           sandbox[r] \in Running, sandbox'[r] = "gone"
    PROVE  at[r] = "removing"
<1>1. "gone" \notin Running /\ "exited" \notin Running /\ "asked" \notin Running
      /\ "created" \notin Running /\ "none" \notin Running
    BY DEF Running
<1>2. ASSUME NEW q \in Request, Remove(q) \/ RemoveFails(q) PROVE at[r] = "removing"
  <2>1. at[q] = "removing" /\ name[q] # None /\ sandbox' \in {sandbox, Removed(q)}
      BY <1>2 DEF PepInv, PlaceInv, Remove, RemoveFails
  <2>2. r # q => sandbox'[r] = sandbox[r]
      BY <2>1, RemovedEffect
  <2> QED  BY <1>1, <2>1, <2>2
<1>3. ASSUME NEW q \in Request, Runtime(q) PROVE sandbox'[r] # "gone"
  <2>1. CASE AutoRemove(q)
      BY <1>1, <2>1 DEF AutoRemove, SetBox
  <2>2. CASE Exit(q)
      BY <1>1, <2>2 DEF Exit, SetBox, PepInv, PepTypeOK
  <2>3. CASE Ask(q)
      BY <1>1, <2>3 DEF Ask, SetBox, PepInv, PepTypeOK
  <2>4. CASE Create(q)
      BY <1>1, <2>4 DEF Create, SetBox, PepInv, PepTypeOK
  <2>5. CASE StartBox(q)
      BY <1>1, <2>5 DEF StartBox, SetBox, PepInv, PepTypeOK
  <2>6. CASE ClientEnds(q)
      BY <1>1, <2>6 DEF ClientEnds
  <2> QED  BY <1>3, <2>1, <2>2, <2>3, <2>4, <2>5, <2>6 DEF Runtime
<1>4. CASE UNCHANGED sandbox
    BY <1>1, <1>4
<1>5. ASSUME NEW q \in Request, Thread(q) PROVE UNCHANGED sandbox \/ Remove(q) \/ RemoveFails(q)
    BY <1>5 DEF Thread, Unreadable, Refuse, Launch, Ended, Expire, Join, Prepare, Fetch, Verify,
       work
<1>6. (Tick \/ Serve \/ Die \/ \E q \in Request : Send(q) \/ Receive(q)) => UNCHANGED sandbox
    BY DEF Tick, Serve, Die, Send, Receive, work
<1>7. UNCHANGED pepVars => UNCHANGED sandbox
    BY DEF pepVars, work
<1> QED  BY <1>2, <1>3, <1>4, <1>5, <1>6, <1>7 DEF PepNext

\* The removal at the end of one request stops no container of another one:
\* names are made of clock, process and counter, and no two are the same, for
\* any clock, any number of requests and any number of restarts of the server.
THEOREM OthersLeftAlone == PepSpec => OthersKeepRunning
<1>1. PepInv /\ [PepNext]_pepVars =>
          [\A r \in Request :
              sandbox[r] \in Running /\ sandbox'[r] = "gone" => at[r] = "removing"]_pepVars
    BY OthersStep
<1> QED  BY <1>1, InitPepInv, NextPepInv, PTL DEF PepSpec, OthersKeepRunning

============================================================================
