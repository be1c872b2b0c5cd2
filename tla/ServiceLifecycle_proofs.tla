----------------------- MODULE ServiceLifecycle_proofs -----------------------
(* Instances stay on record and access is withdrawn before an instance goes,
   for any number of services and commands, wherever the commands die.        *)
EXTENDS ServiceLifecycle, FiniteSetTheorems, WellFoundedInduction, TLAPS

\* Program points at which a command holds the operation lock of its service;
\* a mesh sync, and a Trustee sync after its commit, go on without one
OwnPoints == {"build", "sync", "syncing", "record", "launch", "observe", "activate",
              "revoke", "mark", "remove", "cleanup", "wipe", "finish", "report"}
OwnCommands == {"deploy", "bare", "resume", "inject", "destroy"}
Owns(p) ==
    \/ At(p, OwnPoints)
    \/ At(p, {"mesh", "deliver"}) /\ proc[p].cmd \in OwnCommands

LockInv ==
    \A p \in Proc : Owns(p) =>
        proc[p].svc \in Service /\ opLock[proc[p].svc] = p

\* What a command has established about its own service, and nobody undoes
Stage(p) ==
    LET s == proc[p].svc IN
    /\ At(p, {"build"}) => phase[s] \notin Recorded
    /\ At(p, {"sync", "syncing", "revoke"}) => s \in TrusteeMode
    /\ At(p, {"syncing"}) => pendingSync = s /\ stateLock = p
    /\ At(p, {"record", "launch"}) /\ s \in TrusteeMode => entry[s] # "none"
    /\ At(p, {"launch"}) => phase[s] = "deploying"
    /\ At(p, {"mark", "remove", "cleanup"}) => entry[s] # "enabled"
    /\ At(p, {"remove", "cleanup", "finish"}) => phase[s] = "destroying"
    /\ At(p, {"cleanup", "finish"}) => ~infra[s]
    /\ At(p, {"wipe"}) => phase[s] \in {"built", "deleted"}
    /\ At(p, {"deliver"}) => stateLock = p /\ bundle.members # {}
    /\ At(p, {"deliver"}) /\ proc[p].cmd \in {"deploy", "resume", "inject"} =>
          s \in proc[p].todo \/ guest[s] # NoBundle
    /\ At(p, {"activate"}) => guest[s] # NoBundle
StageInv == \A p \in Proc : Stage(p)

\* Only services of the Trustee ever have an entry
EntryInv == \A s \in Service \ TrusteeMode : entry[s] = "none"

IInv == TypeOK /\ LockInv /\ StageInv /\ EntryInv /\ InstanceOnRecord

-----------------------------------------------------------------------------
(* The steps a command takes, typed *)

Points ==
    OwnPoints \cup {"idle", "mesh", "deliver", "refresh", "migrate"}

LEMMA GotoType ==
    ASSUME TypeOK, NEW p \in Proc, NEW pc \in Points, Goto(p, pc)
    PROVE  proc' \in [Proc -> Running]
<1>1. ASSUME NEW r \in Running PROVE [r EXCEPT !.pc = pc] \in Running
    BY <1>1 DEF Running, Points, OwnPoints
<1>2. [proc[p] EXCEPT !.pc = pc] \in Running
    BY <1>1 DEF TypeOK
<1> QED  BY <1>2 DEF TypeOK, Goto

LEMMA VisitType ==
    ASSUME TypeOK, NEW p \in Proc, NEW pc \in Points, NEW services \in SUBSET Service,
           Visit(p, pc, services)
    PROVE  proc' \in [Proc -> Running]
<1>1. ASSUME NEW r \in Running
      PROVE  [r EXCEPT !.pc = pc, !.todo = services] \in Running
    BY <1>1 DEF Running, Points, OwnPoints
<1>2. [proc[p] EXCEPT !.pc = pc, !.todo = services] \in Running
    BY <1>1 DEF TypeOK
<1> QED  BY <1>2 DEF TypeOK, Visit

LEMMA VisitedType ==
    ASSUME TypeOK, NEW p \in Proc, NEW t, proc' = [proc EXCEPT ![p].todo = @ \ {t}]
    PROVE  proc' \in [Proc -> Running]
<1>1. ASSUME NEW r \in Running PROVE [r EXCEPT !.todo = @ \ {t}] \in Running
    BY <1>1 DEF Running
<1>2. [proc[p] EXCEPT !.todo = @ \ {t}] \in Running
    BY <1>1 DEF TypeOK
<1> QED  BY <1>2 DEF TypeOK

LEMMA EndType ==
    ASSUME TypeOK, NEW p \in Proc, End(p)
    PROVE  /\ proc' \in [Proc -> Running]
           /\ opLock' \in [Service -> Proc \cup {NoProc}]
           /\ stateLock' \in Proc \cup {NoProc}
<1>1. Idle \in Running
    BY DEF Idle, Running
<1> QED  BY <1>1 DEF TypeOK, End, ReleaseOperation

\* Every non-empty set of natural numbers has a least element
LEMMA LeastNatural ==
    ASSUME NEW S, S \subseteq Nat, S # {}
    PROVE  \E x \in S : \A y \in S : x <= y
<1>1. PICK x \in S : \A y \in S : ~ (<<y, x>> \in OpToRel(<, Nat))
    BY NatLessThanWellFounded, WFMin
<1>2. ASSUME NEW y \in S PROVE x <= y
  <2>1. <<y, x>> \in Nat \X Nat
      OBVIOUS
  <2> QED  BY <1>1, <2>1 DEF OpToRel
<1> QED  BY <1>2

\* and every finite one a greatest: a smallest set without would lose it with
\* one of its elements
LEMMA MaxIsMember ==
    ASSUME NEW S, S \subseteq Nat, IsFiniteSet(S), S # {}
    PROVE  Max(S) \in S
<1> DEFINE Unbounded(A) == A # {} /\ \A x \in A : \E y \in A : ~(x >= y)
           sizes == {n \in Nat : \E A \in SUBSET S : Unbounded(A) /\ Cardinality(A) = n}
<1>1. \A A \in SUBSET S : IsFiniteSet(A) /\ Cardinality(A) \in Nat
    BY FS_Subset, FS_CardinalityType
<1>2. sizes = {}
  <2> SUFFICES ASSUME sizes # {} PROVE FALSE
      OBVIOUS
  <2>1. PICK n \in sizes : \A m \in sizes : n <= m
      BY LeastNatural
  <2>2. PICK A \in SUBSET S : Unbounded(A) /\ Cardinality(A) = n
      BY <2>1
  <2>3. PICK x \in A : TRUE
      BY <2>2
  <2>4. A \ {x} \in SUBSET S /\ Cardinality(A \ {x}) = n - 1
      BY <1>1, <2>2, <2>3, FS_RemoveElement
  <2>5. ~Unbounded(A \ {x})
    <3>1. Cardinality(A \ {x}) \in Nat /\ n \in Nat /\ ~(n <= Cardinality(A \ {x}))
        BY <2>1, <2>4, <1>1
    <3>2. Unbounded(A \ {x}) => Cardinality(A \ {x}) \in sizes
        BY <2>4, <3>1
    <3> HIDE DEF sizes, Unbounded
    <3> QED  BY <2>1, <3>1, <3>2
  <2>6. CASE A \ {x} = {}
      BY <2>2, <2>3, <2>6
  <2>7. CASE A \ {x} # {}
    <3>1. PICK m \in A \ {x} : \A y \in A \ {x} : m >= y
        BY <2>5, <2>7
    <3>2. m \in Nat /\ x \in Nat /\ \A y \in A : y \in Nat
        BY <2>2, <2>3
    <3>3. CASE m >= x
        BY <3>1, <3>2, <3>3, <2>2
    <3>4. CASE ~(m >= x)
        BY <3>1, <3>2, <3>4, <2>2
    <3> QED  BY <3>3, <3>4
  <2> QED  BY <2>6, <2>7
<1>3. ~Unbounded(S)
    BY <1>1, <1>2
<1>4. \E x \in S : \A y \in S : x >= y
    BY <1>3
<1> QED  BY <1>4 DEF Max

LEMMA GenerationType ==
    ASSUME TypeOK, NEW p \in Proc
    PROVE  NextGeneration(p) \in Nat \ {0}
<1> DEFINE S == {Carried(p, s) : s \in Service}
           f == [s \in Service |-> Carried(p, s)]
<1>1. S \subseteq Nat
    BY DEF TypeOK, Running, Carried
<1>2. IsFiniteSet(S)
  <2>1. f \in Surjection(Service, S)
      BY DEF Surjection
  <2> QED  BY <2>1, FS_Surjection, LifecycleAssumption
<1>3. {bundle.gen} \cup S \subseteq Nat /\ {bundle.gen} \cup S # {}
    BY <1>1 DEF TypeOK
<1>4. IsFiniteSet({bundle.gen} \cup S)
    BY <1>2, FS_Singleton, FS_Union
<1>5. Max({bundle.gen} \cup S) \in Nat
    BY <1>3, <1>4, MaxIsMember
<1> QED  BY <1>5 DEF NextGeneration

\* What the steps that start, continue and end a command leave behind
Commands == {"none", "build", "deploy", "bare", "resume", "inject", "mesh", "sync",
             "destroy", "apply", "migrate"}

LEMMA StartEffect ==
    ASSUME IInv, NEW p \in Proc, NEW s \in Service, NEW cmd \in Commands, NEW pc \in Points,
           Start(p, s, cmd, pc)
    PROVE  /\ proc' \in [Proc -> Running]
           /\ opLock' \in [Service -> Proc \cup {NoProc}]
           /\ \A q \in Proc \ {p} : proc'[q] = proc[q]
           /\ proc'[p].pc = pc /\ proc'[p].cmd = cmd /\ proc'[p].svc = s
           /\ LockInv'
<1> DEFINE r == [cmd |-> cmd, svc |-> s, pc |-> pc, todo |-> ActivePeers(s),
                 seen |-> IF cmd \in {"inject", "destroy"} THEN meshGen[s] ELSE 0,
                 held |-> IF cmd \in {"deploy", "bare"} THEN peerings ELSE {}]
<1>1. r \in Running
    BY DEF IInv, TypeOK, Running, Commands, Points, OwnPoints, ActivePeers, Members
<1>2. proc' = [proc EXCEPT ![p] = r]
    BY DEF Start
<1>3. /\ proc' \in [Proc -> Running] /\ proc'[p] = r
      /\ \A q \in Proc \ {p} : proc'[q] = proc[q]
  <2> HIDE DEF r
  <2> QED  BY <1>1, <1>2 DEF IInv, TypeOK
<1>4. proc'[p].pc = pc /\ proc'[p].cmd = cmd /\ proc'[p].svc = s
    BY <1>3
<1>5. opLock' = [opLock EXCEPT ![s] = p] /\ opLock[s] = NoProc
    BY DEF Start
<1>6. LockInv'
  <2> SUFFICES ASSUME NEW q \in Proc, Owns(q)'
               PROVE  (proc[q].svc \in Service /\ opLock[proc[q].svc] = q)'
      BY DEF LockInv
  <2>1. CASE q = p
      BY <2>1, <1>4, <1>5 DEF IInv, TypeOK
  <2>2. CASE q # p
    <3>1. proc'[q] = proc[q] /\ Owns(q)
        BY <2>2, <1>3 DEF Owns, At
    <3> QED  BY <2>2, <3>1, <1>5, LifecycleAssumption DEF IInv, LockInv, TypeOK
  <2> QED  BY <2>1, <2>2
<1> HIDE DEF r
<1> QED  BY <1>3, <1>4, <1>5, <1>6 DEF IInv, TypeOK

LEMMA GotoEffect ==
    ASSUME TypeOK, NEW p \in Proc, NEW pc, Goto(p, pc)
    PROVE  /\ proc'[p].pc = pc /\ proc'[p].svc = proc[p].svc
           /\ proc'[p].cmd = proc[p].cmd /\ proc'[p].todo = proc[p].todo
           /\ \A q \in Proc \ {p} : proc'[q] = proc[q]
BY DEF TypeOK, Running, Goto

LEMMA EndEffect ==
    ASSUME TypeOK, NEW p \in Proc, End(p)
    PROVE  /\ proc'[p].pc = "idle"
           /\ \A q \in Proc \ {p} : proc'[q] = proc[q]
           /\ \A s \in Service : opLock[s] # p => opLock'[s] = opLock[s]
BY DEF TypeOK, End, ReleaseOperation, Idle

LEMMA OwnKept ==
    ASSUME IInv, NEW p \in Proc,
           \A q \in Proc \ {p} : proc'[q] = proc[q],
           \A s \in Service : opLock[s] # p => opLock'[s] = opLock[s],
           Owns(p)' => (proc[p].svc \in Service /\ opLock[proc[p].svc] = p)'
    PROVE  LockInv'
<1> SUFFICES ASSUME NEW q \in Proc, q # p, Owns(q)'
             PROVE  (proc[q].svc \in Service /\ opLock[proc[q].svc] = q)'
    BY DEF LockInv
<1>1. proc'[q] = proc[q] /\ Owns(q)
    BY DEF Owns, At
<1> QED  BY <1>1 DEF IInv, LockInv

\* A command that goes on after a mesh sync, or ends, gives back its locks
AfterMeshStep(p) ==
    /\ proc' \in [Proc -> Running]
    /\ opLock' \in [Service -> Proc \cup {NoProc}]
    /\ stateLock' = IF proc'[p].pc = "idle" /\ stateLock # p THEN stateLock ELSE NoProc
    /\ \A q \in Proc \ {p} : proc'[q] = proc[q]
    /\ \A s \in Service : opLock[s] # p => opLock'[s] = opLock[s]
    /\ \/ proc'[p].pc \in {"refresh", "idle"}
       \/ /\ proc[p].cmd \in {"deploy", "resume", "inject"}
          /\ proc'[p].pc = "activate" /\ proc'[p].svc = proc[p].svc
          /\ opLock' = opLock

LEMMA AfterMeshEffect ==
    ASSUME IInv, NEW p \in Proc, At(p, {"mesh", "deliver"}), AfterMesh(p)
    PROVE  AfterMeshStep(p)
<1> USE DEF AfterMeshStep
<1> DEFINE active == {t \in Service : phase[t] = "active"}
<1> USE DEF IInv
<1>1. CASE proc[p].cmd = "destroy"
  <2>1. Visit(p, "refresh", active) /\ ReleaseOperation(p) /\ stateLock' = NoProc
      BY <1>1 DEF AfterMesh, Candidate
  <2>2. proc' \in [Proc -> Running]
      BY <2>1, VisitType DEF Points
  <2> QED  BY <2>1, <2>2 DEF Visit, ReleaseOperation, TypeOK
<1>2. CASE proc[p].cmd # "destroy" /\ Candidate(p) # {}
  <2>1. /\ Goto(p, "activate") /\ stateLock' = NoProc /\ opLock' = opLock
        /\ proc[p].cmd \in {"deploy", "resume", "inject"}
      BY <1>2 DEF AfterMesh, Candidate
  <2>2. proc' \in [Proc -> Running]
      BY <2>1, GotoType DEF Points, OwnPoints
  <2>3. proc'[p].pc = "activate" /\ proc'[p].svc = proc[p].svc
      BY <2>1 DEF Goto, TypeOK, Running
  <2> QED  BY <2>1, <2>2, <2>3 DEF Goto, TypeOK
<1>3. CASE proc[p].cmd # "destroy" /\ Candidate(p) = {}
  <2>1. End(p)
      BY <1>3 DEF AfterMesh
  <2>2. proc'[p].pc = "idle"
      BY <2>1 DEF End, Idle, TypeOK
  <2> QED  BY <2>1, <2>2, EndType, LifecycleAssumption DEF End, ReleaseOperation, TypeOK
<1> QED  BY <1>1, <1>2, <1>3

LEMMA AfterMeshLock ==
    ASSUME IInv, NEW p \in Proc, At(p, {"mesh", "deliver"}), AfterMeshStep(p)
    PROVE  LockInv'
<1>1. Owns(p)' => (proc[p].svc \in Service /\ opLock[proc[p].svc] = p)'
  <2> SUFFICES ASSUME Owns(p)' PROVE (proc[p].svc \in Service /\ opLock[proc[p].svc] = p)'
      OBVIOUS
  <2>1. proc'[p].pc = "activate"
      BY DEF AfterMeshStep, Owns, At, OwnPoints
  <2>2. Owns(p) /\ proc'[p].svc = proc[p].svc /\ opLock' = opLock
      BY <2>1 DEF AfterMeshStep, Owns, At, OwnCommands
  <2> QED  BY <2>2 DEF IInv, LockInv
<1> QED  BY <1>1, OwnKept DEF AfterMeshStep

-----------------------------------------------------------------------------
LEMMA OwnService ==
    ASSUME TypeOK, LockInv, NEW p \in Proc, Owns(p)
    PROVE  proc[p].svc \in Service /\ opLock[proc[p].svc] = p
BY DEF LockInv

LEMMA InitIInv == Init => IInv
<1> SUFFICES ASSUME Init PROVE IInv
    OBVIOUS
<1> USE LifecycleAssumption DEF Init
<1>1. TypeOK
    BY DEF TypeOK, Phase, Running, Idle, NoBundle, PeeringEntry
<1>2. LockInv
    BY DEF LockInv, Owns, At, OwnPoints, Idle
<1>3. StageInv
    BY DEF StageInv, Stage, At, Idle
<1>4. EntryInv
    BY DEF EntryInv
<1>5. InstanceOnRecord
    BY DEF InstanceOnRecord, InfraRecorded, InstanceHasEntry, ActiveRuns
<1> QED  BY <1>1, <1>2, <1>3, <1>4, <1>5 DEF IInv

LEMMA BuildStartIInv ==
    ASSUME IInv, NEW p \in Proc, NEW s \in Service, BuildStart(p, s) PROVE IInv'
<1> USE LifecycleAssumption DEF BuildStart, Start, Budget, Idle, cloud, files, rest, locks,
   admission, At
<1>1. TypeOK'
    BY DEF IInv, TypeOK, Running, Recorded, Phase, ActivePeers, Members, PeeringEntry, NoBundle
<1>2. LockInv'
    BY DEF IInv, TypeOK, Running, LockInv, Owns, OwnPoints, OwnCommands
<1>3. StageInv'
    BY DEF IInv, TypeOK, Running, LockInv, Owns, OwnPoints, OwnCommands, StageInv, Stage,
       Recorded, NoBundle
<1>4. EntryInv'
    BY DEF IInv, TypeOK, Running, EntryInv, StageInv, Stage
<1>5. InstanceOnRecord'
    BY DEF IInv, TypeOK, Running, LockInv, Owns, OwnPoints, StageInv, Stage,
       InstanceOnRecord, InfraRecorded, InstanceHasEntry, ActiveRuns, Managed, Recorded,
       NoBundle
<1> QED  BY <1>1, <1>2, <1>3, <1>4, <1>5 DEF IInv

LEMMA BuildCommitIInv ==
    ASSUME IInv, NEW p \in Proc, BuildCommit(p) PROVE IInv'
<1> USE LifecycleAssumption DEF BuildCommit, End, ReleaseOperation, Idle, cloud, files,
   rest, locks, admission, At
<1>1. TypeOK'
    BY DEF IInv, TypeOK, Running, Recorded, Phase, ActivePeers, Members, PeeringEntry, NoBundle
<1>2. LockInv'
    BY DEF IInv, TypeOK, Running, LockInv, Owns, OwnPoints, OwnCommands
<1>3. StageInv'
    BY DEF IInv, TypeOK, Running, LockInv, Owns, OwnPoints, OwnCommands, StageInv, Stage,
       Recorded, NoBundle
<1>4. EntryInv'
    BY DEF IInv, TypeOK, Running, EntryInv, StageInv, Stage
<1>5. InstanceOnRecord'
    BY DEF IInv, TypeOK, Running, LockInv, Owns, OwnPoints, StageInv, Stage,
       InstanceOnRecord, InfraRecorded, InstanceHasEntry, ActiveRuns, Managed, Recorded,
       NoBundle
<1> QED  BY <1>1, <1>2, <1>3, <1>4, <1>5 DEF IInv

LEMMA ForgetIInv ==
    ASSUME IInv, NEW p \in Proc, NEW s \in Service, Forget(p, s) PROVE IInv'
<1> USE LifecycleAssumption DEF Forget, Budget, cloud, files, rest, locks, admission, At
<1>1. TypeOK'
    BY DEF IInv, TypeOK, Running, Recorded, Phase, ActivePeers, Members, PeeringEntry, NoBundle
<1>2. LockInv'
    BY DEF IInv, TypeOK, Running, LockInv, Owns, OwnPoints, OwnCommands
<1>3. StageInv'
    BY DEF IInv, TypeOK, Running, LockInv, Owns, OwnPoints, OwnCommands, StageInv, Stage,
       Recorded, NoBundle
<1>4. EntryInv'
    BY DEF IInv, TypeOK, Running, EntryInv, StageInv, Stage
<1>5. InstanceOnRecord'
    BY DEF IInv, TypeOK, Running, LockInv, Owns, OwnPoints, StageInv, Stage,
       InstanceOnRecord, InfraRecorded, InstanceHasEntry, ActiveRuns, Managed, Recorded,
       NoBundle
<1> QED  BY <1>1, <1>2, <1>3, <1>4, <1>5 DEF IInv

LEMMA MeshSyncIInv ==
    ASSUME IInv, NEW p \in Proc, NEW s \in Service \cup {NoService}, MeshSync(p, s) PROVE IInv'
<1> USE LifecycleAssumption DEF MeshSync, Budget, Idle, cloud, files, rest, locks, admission, At
<1>1. TypeOK'
    BY DEF IInv, TypeOK, Running, Recorded, Phase, ActivePeers, Members, PeeringEntry, NoBundle
<1>2. LockInv'
    BY DEF IInv, TypeOK, Running, LockInv, Owns, OwnPoints, OwnCommands
<1>3. StageInv'
    BY DEF IInv, TypeOK, Running, LockInv, Owns, OwnPoints, OwnCommands, StageInv, Stage,
       Recorded, NoBundle
<1>4. EntryInv'
    BY DEF IInv, TypeOK, Running, EntryInv, StageInv, Stage
<1>5. InstanceOnRecord'
    BY DEF IInv, TypeOK, Running, LockInv, Owns, OwnPoints, StageInv, Stage,
       InstanceOnRecord, InfraRecorded, InstanceHasEntry, ActiveRuns, Managed, Recorded,
       NoBundle
<1> QED  BY <1>1, <1>2, <1>3, <1>4, <1>5 DEF IInv

LEMMA TrusteeSyncIInv ==
    ASSUME IInv, NEW p \in Proc, NEW s \in Service, TrusteeSync(p, s) PROVE IInv'
<1> USE LifecycleAssumption DEF TrusteeSync, Start, Budget, Idle, cloud, files, rest, locks,
   admission, At
<1>1. TypeOK'
    BY DEF IInv, TypeOK, Running, Recorded, Phase, ActivePeers, Members, PeeringEntry, NoBundle
<1>2. LockInv'
    BY DEF IInv, TypeOK, Running, LockInv, Owns, OwnPoints, OwnCommands
<1>3. StageInv'
    BY DEF IInv, TypeOK, Running, LockInv, Owns, OwnPoints, OwnCommands, StageInv, Stage,
       Recorded, NoBundle
<1>4. EntryInv'
    BY DEF IInv, TypeOK, Running, EntryInv, StageInv, Stage
<1>5. InstanceOnRecord'
    BY DEF IInv, TypeOK, Running, LockInv, Owns, OwnPoints, StageInv, Stage,
       InstanceOnRecord, InfraRecorded, InstanceHasEntry, ActiveRuns, Managed, Recorded,
       NoBundle
<1> QED  BY <1>1, <1>2, <1>3, <1>4, <1>5 DEF IInv

LEMMA DeployStartIInv ==
    ASSUME IInv, NEW p \in Proc, NEW s \in Service, DeployStart(p, s) PROVE IInv'
<1> USE LifecycleAssumption DEF DeployStart, cloud, files, admission, At
<1>s. PICK cmd \in {"deploy", "bare"}, pc \in {"sync", "record"} :
           Start(p, s, cmd, pc) /\ (pc = "sync" <=> cmd = "deploy" /\ s \in TrusteeMode)
           /\ (cmd = "bare" => s \notin TrusteeMode)
    OBVIOUS
<1>e. /\ proc' \in [Proc -> Running] /\ opLock' \in [Service -> Proc \cup {NoProc}]
      /\ \A q \in Proc \ {p} : proc'[q] = proc[q]
      /\ proc'[p].pc = pc /\ proc'[p].cmd = cmd /\ proc'[p].svc = s /\ LockInv'
    BY <1>s, StartEffect DEF Points, OwnPoints, Commands
<1>u. UNCHANGED <<files, cloud, stateLock, peerings>>
    BY <1>s DEF Start
<1>1. TypeOK'
    BY <1>e, <1>u DEF IInv, TypeOK
<1>2. LockInv'
    BY <1>e
<1>3. StageInv'
  <2> SUFFICES ASSUME NEW q \in Proc PROVE Stage(q)'
      BY DEF StageInv
  <2>1. CASE q = p
      BY <1>s, <1>e, <1>u, <2>1 DEF IInv, EntryInv, Stage, Recorded
  <2>2. CASE q # p
      BY <1>e, <1>u, <2>2 DEF IInv, StageInv, Stage
  <2> QED  BY <2>1, <2>2
<1>4. EntryInv'
    BY <1>u DEF IInv, EntryInv
<1>5. InstanceOnRecord'
    BY <1>u DEF IInv, InstanceOnRecord, InfraRecorded, InstanceHasEntry, ActiveRuns, Managed
<1> QED  BY <1>1, <1>2, <1>3, <1>4, <1>5 DEF IInv

LEMMA ResumeStartIInv ==
    ASSUME IInv, NEW p \in Proc, NEW s \in Service, ResumeStart(p, s) PROVE IInv'
<1> USE LifecycleAssumption DEF ResumeStart, cloud, files, admission, At
<1>s. PICK cmd \in {"resume", "bare"} : Start(p, s, cmd, "observe")
    OBVIOUS
<1>e. /\ proc' \in [Proc -> Running] /\ opLock' \in [Service -> Proc \cup {NoProc}]
      /\ \A q \in Proc \ {p} : proc'[q] = proc[q]
      /\ proc'[p].pc = "observe" /\ proc'[p].svc = s /\ LockInv'
    BY <1>s, StartEffect DEF Points, OwnPoints, Commands
<1>u. UNCHANGED <<files, cloud, stateLock, peerings>>
    BY <1>s DEF Start
<1>1. TypeOK'
    BY <1>e, <1>u DEF IInv, TypeOK
<1>2. LockInv'
    BY <1>e
<1>3. StageInv'
  <2> SUFFICES ASSUME NEW q \in Proc PROVE Stage(q)'
      BY DEF StageInv
  <2>1. CASE q = p
      BY <1>s, <1>e, <1>u, <2>1 DEF IInv, EntryInv, Stage, Recorded
  <2>2. CASE q # p
      BY <1>e, <1>u, <2>2 DEF IInv, StageInv, Stage
  <2> QED  BY <2>1, <2>2
<1>4. EntryInv'
    BY <1>u DEF IInv, EntryInv
<1>5. InstanceOnRecord'
    BY <1>u DEF IInv, InstanceOnRecord, InfraRecorded, InstanceHasEntry, ActiveRuns, Managed
<1> QED  BY <1>1, <1>2, <1>3, <1>4, <1>5 DEF IInv

LEMMA InjectStartIInv ==
    ASSUME IInv, NEW p \in Proc, NEW s \in Service, InjectStart(p, s) PROVE IInv'
<1> USE LifecycleAssumption DEF InjectStart, Start, Budget, Idle, cloud, files, rest, locks,
   admission, At
<1>1. TypeOK'
    BY DEF IInv, TypeOK, Running, Recorded, Phase, ActivePeers, Members, PeeringEntry, NoBundle
<1>2. LockInv'
    BY DEF IInv, TypeOK, Running, LockInv, Owns, OwnPoints, OwnCommands
<1>3. StageInv'
    BY DEF IInv, TypeOK, Running, LockInv, Owns, OwnPoints, OwnCommands, StageInv, Stage,
       Recorded, NoBundle
<1>4. EntryInv'
    BY DEF IInv, TypeOK, Running, EntryInv, StageInv, Stage
<1>5. InstanceOnRecord'
    BY DEF IInv, TypeOK, Running, LockInv, Owns, OwnPoints, StageInv, Stage,
       InstanceOnRecord, InfraRecorded, InstanceHasEntry, ActiveRuns, Managed, Recorded,
       NoBundle
<1> QED  BY <1>1, <1>2, <1>3, <1>4, <1>5 DEF IInv

LEMMA SyncBeginIInv ==
    ASSUME IInv, NEW p \in Proc, SyncBegin(p) PROVE IInv'
<1> USE LifecycleAssumption DEF SyncBegin, TrusteeFree, cloud, files, rest, locks, admission, At
<1>0. proc[p].svc \in Service /\ opLock[proc[p].svc] = p
    BY OwnService DEF IInv, Owns, OwnPoints
<1>1. TypeOK'
  <2>1. proc' \in [Proc -> Running]
      BY GotoType DEF IInv, Points, OwnPoints
  <2>2. pendingSync' \in TrusteeMode
      BY DEF IInv, StageInv, Stage
  <2> QED  BY <1>0, <2>1, <2>2 DEF IInv, TypeOK, Recorded, Phase
<1> USE DEF Goto
<1>2. LockInv'
    BY <1>0 DEF IInv, TypeOK, Running, LockInv, Owns, OwnPoints, OwnCommands
<1>3. StageInv'
    BY <1>0 DEF IInv, TypeOK, Running, LockInv, Owns, OwnPoints, OwnCommands, StageInv,
       Stage, Recorded, NoBundle
<1>4. EntryInv'
    BY <1>0 DEF IInv, TypeOK, Running, EntryInv, StageInv, Stage
<1>5. InstanceOnRecord'
    BY <1>0 DEF IInv, TypeOK, Running, LockInv, Owns, OwnPoints, StageInv, Stage,
       InstanceOnRecord, InfraRecorded, InstanceHasEntry, ActiveRuns, Managed, Recorded,
       NoBundle
<1> QED  BY <1>1, <1>2, <1>3, <1>4, <1>5 DEF IInv

LEMMA SyncCommitIInv ==
    ASSUME IInv, NEW p \in Proc, SyncCommit(p) PROVE IInv'
<1> USE LifecycleAssumption DEF SyncCommit, ReleaseOperation, cloud, files, rest, locks,
   admission, At
<1>0. proc[p].svc \in Service /\ opLock[proc[p].svc] = p
    BY OwnService DEF IInv, Owns, OwnPoints
<1>1. TypeOK'
  <2>1. proc' \in [Proc -> Running]
      BY <1>0, GotoType DEF IInv, Points, OwnPoints
  <2> QED  BY <1>0, <2>1 DEF IInv, TypeOK, Recorded, Phase
<1> USE DEF Goto
<1>2. LockInv'
    BY <1>0 DEF IInv, TypeOK, Running, LockInv, Owns, OwnPoints, OwnCommands
<1>3. StageInv'
    BY <1>0 DEF IInv, TypeOK, Running, LockInv, Owns, OwnPoints, OwnCommands, StageInv,
       Stage, Recorded, NoBundle
<1>4. EntryInv'
    BY <1>0 DEF IInv, TypeOK, Running, EntryInv, StageInv, Stage
<1>5. InstanceOnRecord'
    BY <1>0 DEF IInv, TypeOK, Running, LockInv, Owns, OwnPoints, StageInv, Stage,
       InstanceOnRecord, InfraRecorded, InstanceHasEntry, ActiveRuns, Managed, Recorded,
       NoBundle
<1> QED  BY <1>1, <1>2, <1>3, <1>4, <1>5 DEF IInv

LEMMA RecordAttemptIInv ==
    ASSUME IInv, NEW p \in Proc, RecordAttempt(p) PROVE IInv'
<1> USE LifecycleAssumption DEF RecordAttempt, cloud, files, rest, locks, admission, At
<1>0. proc[p].svc \in Service /\ opLock[proc[p].svc] = p
    BY OwnService DEF IInv, Owns, OwnPoints
<1>1. TypeOK'
  <2>1. proc' \in [Proc -> Running]
      BY <1>0, GotoType DEF IInv, Points, OwnPoints
  <2> QED  BY <1>0, <2>1 DEF IInv, TypeOK, Recorded, Phase
<1> USE DEF Goto
<1>2. LockInv'
    BY <1>0 DEF IInv, TypeOK, Running, LockInv, Owns, OwnPoints, OwnCommands
<1>3. StageInv'
    BY <1>0 DEF IInv, TypeOK, Running, LockInv, Owns, OwnPoints, OwnCommands, StageInv,
       Stage, Recorded, NoBundle
<1>4. EntryInv'
    BY <1>0 DEF IInv, TypeOK, Running, EntryInv, StageInv, Stage
<1>5. InstanceOnRecord'
    BY <1>0 DEF IInv, TypeOK, Running, LockInv, Owns, OwnPoints, StageInv, Stage,
       InstanceOnRecord, InfraRecorded, InstanceHasEntry, ActiveRuns, Managed, Recorded,
       NoBundle
<1> QED  BY <1>1, <1>2, <1>3, <1>4, <1>5 DEF IInv

LEMMA LaunchIInv ==
    ASSUME IInv, NEW p \in Proc, Launch(p) PROVE IInv'
<1> USE LifecycleAssumption DEF Launch, cloud, files, rest, locks, admission, At
<1>0. proc[p].svc \in Service /\ opLock[proc[p].svc] = p
    BY OwnService DEF IInv, Owns, OwnPoints
<1>1. TypeOK'
  <2>1. ASSUME NEW r \in Running PROVE [r EXCEPT !.pc = "observe", !.held = {}] \in Running
      BY <2>1 DEF Running
  <2>2. [proc[p] EXCEPT !.pc = "observe", !.held = {}] \in Running
      BY <2>1 DEF IInv, TypeOK
  <2> QED  BY <1>0, <2>2 DEF IInv, TypeOK
<1>2. LockInv'
    BY <1>0 DEF IInv, TypeOK, Running, LockInv, Owns, OwnPoints, OwnCommands
<1>3. StageInv'
    BY <1>0 DEF IInv, TypeOK, Running, LockInv, Owns, OwnPoints, OwnCommands, StageInv,
       Stage, Recorded, NoBundle
<1>4. EntryInv'
    BY <1>0 DEF IInv, TypeOK, Running, EntryInv, StageInv, Stage
<1>5. InstanceOnRecord'
    BY <1>0 DEF IInv, TypeOK, Running, LockInv, Owns, OwnPoints, StageInv, Stage,
       InstanceOnRecord, InfraRecorded, InstanceHasEntry, ActiveRuns, Managed, Recorded,
       NoBundle
<1> QED  BY <1>1, <1>2, <1>3, <1>4, <1>5 DEF IInv

LEMMA ObserveIInv ==
    ASSUME IInv, NEW p \in Proc, Observe(p) PROVE IInv'
<1> USE LifecycleAssumption DEF Observe, ReleaseOperation, cloud, files, rest, locks,
   admission, At
<1>0. proc[p].svc \in Service /\ opLock[proc[p].svc] = p
    BY OwnService DEF IInv, Owns, OwnPoints
<1>1. TypeOK'
  <2>1. /\ proc' \in [Proc -> Running]
        /\ opLock' \in [Service -> Proc \cup {NoProc}] /\ stateLock' \in Proc \cup {NoProc}
    <3>1. CASE proc[p].cmd = "bare"
        BY <3>1, EndType DEF IInv
    <3>2. CASE proc[p].cmd # "bare"
        BY <3>2, GotoType DEF IInv, TypeOK, Points, OwnPoints
    <3> QED  BY <3>1, <3>2
  <2> QED  BY <1>0, <2>1 DEF IInv, TypeOK, Recorded, Phase
<1>2. LockInv'
  <2>1. CASE proc[p].cmd = "bare"
      BY <2>1, EndEffect, OwnKept DEF IInv, Owns, OwnPoints
  <2>2. CASE proc[p].cmd # "bare"
      BY <1>0, <2>2, GotoEffect, OwnKept DEF IInv, Owns, OwnPoints
  <2> QED  BY <2>1, <2>2
<1>3. StageInv'
  <2> SUFFICES ASSUME NEW q \in Proc PROVE Stage(q)'
      BY DEF StageInv
  <2>1. CASE q = p /\ proc[p].cmd = "bare"
      BY <2>1, EndEffect DEF IInv, Stage
  <2>2. CASE q = p /\ proc[p].cmd # "bare"
      BY <1>0, <2>2, GotoEffect DEF IInv, Stage
  <2>3. CASE q # p
    <3>1. proc'[q] = proc[q] /\ Stage(q)
        BY <2>3, EndEffect, GotoEffect DEF IInv, StageInv
    <3>2. Owns(q) => proc[q].svc # proc[p].svc /\ proc[q].svc \in Service
        BY <1>0, <2>3 DEF IInv, LockInv
    <3> QED  BY <1>0, <2>3, <3>1, <3>2 DEF IInv, TypeOK, Owns, OwnPoints, OwnCommands,
       Stage, Recorded, NoBundle
  <2> QED  BY <2>1, <2>2, <2>3
<1>4. EntryInv'
    BY <1>0 DEF IInv, TypeOK, Running, EntryInv, StageInv, Stage
<1>5. InstanceOnRecord'
    BY <1>0 DEF IInv, TypeOK, Running, LockInv, Owns, OwnPoints, StageInv, Stage,
       InstanceOnRecord, InfraRecorded, InstanceHasEntry, ActiveRuns, Managed, Recorded,
       NoBundle
<1> QED  BY <1>1, <1>2, <1>3, <1>4, <1>5 DEF IInv

LEMMA ActivateIInv ==
    ASSUME IInv, NEW p \in Proc, Activate(p) PROVE IInv'
<1> USE LifecycleAssumption DEF Activate, ReleaseOperation, ReplicasAnswer, Open, cloud,
   files, rest, locks, admission, At
<1>0. proc[p].svc \in Service /\ opLock[proc[p].svc] = p
    BY OwnService DEF IInv, Owns, OwnPoints
<1>1. TypeOK'
  <2>1. proc' \in [Proc -> Running]
      BY VisitType DEF IInv, Points
  <2> QED  BY <1>0, <2>1 DEF IInv, TypeOK, Recorded, Phase
<1> USE DEF Visit
<1>2. LockInv'
    BY <1>0 DEF IInv, TypeOK, Running, LockInv, Owns, OwnPoints, OwnCommands
<1>3. StageInv'
    BY <1>0 DEF IInv, TypeOK, Running, LockInv, Owns, OwnPoints, OwnCommands, StageInv,
       Stage, Recorded, NoBundle
<1>4. EntryInv'
    BY <1>0 DEF IInv, TypeOK, Running, EntryInv, StageInv, Stage
<1>5. InstanceOnRecord'
  <2>1. InfraRecorded' /\ InstanceHasEntry'
      BY <1>0 DEF IInv, TypeOK, InstanceOnRecord, InfraRecorded, InstanceHasEntry, Managed,
         Recorded
  <2>2. infra[proc[p].svc] /\ guest[proc[p].svc] # NoBundle
      BY <1>0 DEF IInv, StageInv, Stage
  <2>3. ActiveRuns'
      BY <1>0, <2>2 DEF IInv, TypeOK, InstanceOnRecord, ActiveRuns, NoBundle
  <2> QED  BY <2>1, <2>3 DEF InstanceOnRecord
<1> QED  BY <1>1, <1>2, <1>3, <1>4, <1>5 DEF IInv

LEMMA MeshBeginIInv ==
    ASSUME IInv, NEW p \in Proc, MeshBegin(p) PROVE IInv'
<1> USE DEF MeshBegin, cloud, rest, admission, At, Candidate, Filter
<1> DEFINE members == Members \cup Candidate(p)
           visited == IF Filter(p) = {} THEN members ELSE Filter(p)
<1>b. members \subseteq Service /\ visited \subseteq Service
  <2>1. Candidate(p) \subseteq Service
      BY OwnService DEF IInv, Owns, OwnCommands
  <2> QED  BY <2>1 DEF Members
<1>m. members = {} => AfterMeshStep(p) /\ bundle' = NoBundle
    BY AfterMeshEffect
<1>n. members # {} =>
        /\ proc' \in [Proc -> Running]
        /\ bundle' = [gen |-> NextGeneration(p), members |-> members]
        /\ stateLock' = p /\ opLock' = opLock
        /\ \A q \in Proc \ {p} : proc'[q] = proc[q]
        /\ proc'[p] = [proc[p] EXCEPT !.pc = "deliver", !.todo = visited]
  <2> SUFFICES ASSUME members # {} PROVE
        /\ proc' \in [Proc -> Running]
        /\ bundle' = [gen |-> NextGeneration(p), members |-> members]
        /\ stateLock' = p /\ opLock' = opLock
        /\ \A q \in Proc \ {p} : proc'[q] = proc[q]
        /\ proc'[p] = [proc[p] EXCEPT !.pc = "deliver", !.todo = visited]
      OBVIOUS
  <2>1. Visit(p, "deliver", visited) /\ stateLock' = p /\ opLock' = opLock
        /\ bundle' = [gen |-> NextGeneration(p), members |-> members]
      OBVIOUS
  <2>2. proc' \in [Proc -> Running]
    <3> HIDE DEF visited, MeshBegin
    <3> QED  BY <1>b, <2>1, VisitType DEF IInv, Points
  <2>3. /\ \A q \in Proc \ {p} : proc'[q] = proc[q]
        /\ proc'[p] = [proc[p] EXCEPT !.pc = "deliver", !.todo = visited]
    <3> HIDE DEF visited, MeshBegin
    <3> QED  BY <2>1 DEF Visit, IInv, TypeOK
  <2> QED  BY <2>1, <2>2, <2>3
<1>g. NextGeneration(p) \in Nat
    BY GenerationType DEF IInv
<1>l. stateLock \in {NoProc, p} /\ At(p, {"mesh"})
    OBVIOUS
<1>u. UNCHANGED <<phase, meshGen, entry, pendingSync, cloud, peerings>>
    OBVIOUS
<1> HIDE DEF members, MeshBegin
<1>1. TypeOK'
    BY <1>b, <1>m, <1>n, <1>g, <1>l, <1>u DEF IInv, TypeOK, NoBundle, AfterMeshStep
<1>2. LockInv'
  <2>1. CASE members = {}
      BY <1>m, <1>l, <2>1, AfterMeshLock
  <2>2. CASE members # {}
    <3>1. proc'[p].svc = proc[p].svc /\ proc'[p].cmd = proc[p].cmd
        BY <1>n, <2>2 DEF IInv, TypeOK, Running
    <3>2. Owns(p)' => Owns(p)
        BY <1>n, <1>l, <2>2, <3>1 DEF Owns, OwnPoints, IInv, TypeOK, Running
    <3> QED  BY <1>n, <2>2, <3>1, <3>2, OwnKept DEF IInv, LockInv
  <2> QED  BY <2>1, <2>2
<1>3. StageInv'
  <2> SUFFICES ASSUME NEW q \in Proc PROVE Stage(q)'
      BY DEF StageInv
  <2>1. CASE q = p /\ members = {}
    <3>1. proc'[p].pc \in {"refresh", "idle"} \/ proc[p].cmd \in {"deploy", "resume", "inject"}
        BY <1>m, <2>1 DEF AfterMeshStep
    <3>2. Candidate(p) = {}
        BY <2>1 DEF members
    <3>3. proc'[p].pc \in {"refresh", "idle"}
        BY <3>1, <3>2
    <3> QED  BY <2>1, <3>3 DEF Stage
  <2>2. CASE q = p /\ members # {}
    <3>1. /\ proc'[p].pc = "deliver" /\ proc'[p].cmd = proc[p].cmd
          /\ proc'[p].svc = proc[p].svc /\ proc'[p].todo = visited
        BY <1>n, <2>2 DEF IInv, TypeOK, Running
    <3>2. proc[p].cmd \in {"deploy", "resume", "inject"} => proc[p].svc \in visited
        BY DEF members
    <3> QED  BY <1>n, <2>2, <3>1, <3>2 DEF Stage
  <2>3. CASE q # p
    <3>1. proc'[q] = proc[q] /\ Stage(q)
        BY <1>m, <1>n, <2>3 DEF AfterMeshStep, IInv, StageInv
    <3>2. ~At(q, {"syncing", "deliver"})
        BY <1>l, <2>3, <3>1, LifecycleAssumption DEF Stage
    <3> QED  BY <1>u, <3>1, <3>2 DEF Stage
  <2> QED  BY <2>1, <2>2, <2>3
<1>4. EntryInv'
    BY <1>u DEF IInv, EntryInv
<1>5. InstanceOnRecord'
    BY <1>u DEF IInv, InstanceOnRecord, InfraRecorded, InstanceHasEntry, ActiveRuns, Managed
<1> QED  BY <1>1, <1>2, <1>3, <1>4, <1>5 DEF IInv

LEMMA DeliverIInv ==
    ASSUME IInv, NEW p \in Proc, Deliver(p) PROVE IInv'
<1> USE LifecycleAssumption DEF Deliver, Candidate, cloud, files, rest, locks, admission, At
<1>1. TypeOK'
  <2>1. PICK t : /\ proc' = [proc EXCEPT ![p].todo = @ \ {t}]
                 /\ guest' = [guest EXCEPT ![t] = bundle]
      OBVIOUS
  <2>2. proc' \in [Proc -> Running]
      BY <2>1, VisitedType DEF IInv
  <2> QED  BY <2>1, <2>2 DEF IInv, TypeOK
<1>2. LockInv'
    BY DEF IInv, TypeOK, Running, LockInv, Owns, OwnPoints, OwnCommands
<1>3. StageInv'
    BY DEF IInv, TypeOK, Running, LockInv, Owns, OwnPoints, OwnCommands, StageInv, Stage,
       Recorded, NoBundle
<1>4. EntryInv'
    BY DEF IInv, TypeOK, Running, EntryInv, StageInv, Stage
<1>5. InstanceOnRecord'
    BY DEF IInv, TypeOK, Running, LockInv, Owns, OwnPoints, StageInv, Stage,
       InstanceOnRecord, InfraRecorded, InstanceHasEntry, ActiveRuns, Managed, Recorded,
       NoBundle
<1> QED  BY <1>1, <1>2, <1>3, <1>4, <1>5 DEF IInv

LEMMA MeshCommitIInv ==
    ASSUME IInv, NEW p \in Proc, MeshCommit(p) PROVE IInv'
<1> USE DEF MeshCommit, cloud, rest, admission, At, Candidate, Filter
<1>c. Candidate(p) \subseteq Service /\ \A s \in Candidate(p) : opLock[s] = p
    BY OwnService DEF IInv, Owns, OwnCommands
<1>a. AfterMeshStep(p)
    BY AfterMeshEffect
<1>l. stateLock = p /\ At(p, {"deliver"}) /\ proc[p].todo = {}
    BY DEF IInv, StageInv, Stage
<1>h. phase' = [s \in Service |-> IF s \in Candidate(p) THEN "activating" ELSE phase[s]]
    OBVIOUS
<1>u. UNCHANGED <<bundle, entry, pendingSync, cloud, peerings>>
    OBVIOUS
<1>g. meshGen' \in [Service -> Nat]
    BY DEF IInv, TypeOK
<1> HIDE DEF MeshCommit
<1>1. TypeOK'
    BY <1>a, <1>l, <1>h, <1>u, <1>g DEF IInv, TypeOK, AfterMeshStep, Phase, Recorded
<1>2. LockInv'
    BY <1>a, <1>l, AfterMeshLock
<1>3. StageInv'
  <2> SUFFICES ASSUME NEW q \in Proc PROVE Stage(q)'
      BY DEF StageInv
  <2>1. CASE q = p
    <3>1. proc[p].cmd \in {"deploy", "resume", "inject"} => guest[proc[p].svc] # NoBundle
        BY <1>l DEF IInv, StageInv, Stage
    <3> QED  BY <1>a, <1>u, <2>1, <3>1 DEF AfterMeshStep, Stage
  <2>2. CASE q # p
    <3>1. proc'[q] = proc[q] /\ Stage(q) /\ ~At(q, {"syncing", "deliver"})
        BY <1>a, <1>l, <2>2 DEF AfterMeshStep, IInv, StageInv, Stage
    <3>2. At(q, OwnPoints) => proc[q].svc \in Service /\ proc[q].svc \notin Candidate(p)
        BY <1>c, <2>2 DEF IInv, LockInv, Owns
    <3>3. At(q, OwnPoints) => phase'[proc[q].svc] = phase[proc[q].svc]
        BY <1>h, <3>2
    <3> QED  BY <1>u, <3>1, <3>3 DEF Stage, OwnPoints
  <2> QED  BY <2>1, <2>2
<1>4. EntryInv'
    BY <1>u DEF IInv, EntryInv
<1>5. InstanceOnRecord'
    BY <1>h, <1>u DEF IInv, InstanceOnRecord, InfraRecorded, InstanceHasEntry, ActiveRuns,
       Managed, Recorded
<1> QED  BY <1>1, <1>2, <1>3, <1>4, <1>5 DEF IInv

LEMMA RefreshIInv ==
    ASSUME IInv, NEW p \in Proc, Refresh(p) PROVE IInv'
<1> USE LifecycleAssumption DEF Refresh, cloud, files, rest, locks, admission, At
<1>1. TypeOK'
  <2>1. PICK t : proc' = [proc EXCEPT ![p].todo = @ \ {t}]
      OBVIOUS
  <2>2. proc' \in [Proc -> Running]
      BY <2>1, VisitedType DEF IInv
  <2> QED  BY <2>2 DEF IInv, TypeOK
<1>2. LockInv'
    BY DEF IInv, TypeOK, Running, LockInv, Owns, OwnPoints, OwnCommands
<1>3. StageInv'
    BY DEF IInv, TypeOK, Running, LockInv, Owns, OwnPoints, OwnCommands, StageInv, Stage,
       Recorded, NoBundle
<1>4. EntryInv'
    BY DEF IInv, TypeOK, Running, EntryInv, StageInv, Stage
<1>5. InstanceOnRecord'
    BY DEF IInv, TypeOK, Running, LockInv, Owns, OwnPoints, StageInv, Stage,
       InstanceOnRecord, InfraRecorded, InstanceHasEntry, ActiveRuns, Managed, Recorded,
       NoBundle
<1> QED  BY <1>1, <1>2, <1>3, <1>4, <1>5 DEF IInv

LEMMA RefreshDoneIInv ==
    ASSUME IInv, NEW p \in Proc, RefreshDone(p) PROVE IInv'
<1> USE LifecycleAssumption DEF RefreshDone, Idle, End, ReleaseOperation, cloud, files,
   rest, locks, admission, At
<1>1. TypeOK'
    BY DEF IInv, TypeOK, Running, Recorded, Phase, ActivePeers, Members, PeeringEntry, NoBundle
<1>2. LockInv'
    BY DEF IInv, TypeOK, Running, LockInv, Owns, OwnPoints, OwnCommands
<1>3. StageInv'
    BY DEF IInv, TypeOK, Running, LockInv, Owns, OwnPoints, OwnCommands, StageInv, Stage,
       Recorded, NoBundle
<1>4. EntryInv'
    BY DEF IInv, TypeOK, Running, EntryInv, StageInv, Stage
<1>5. InstanceOnRecord'
    BY DEF IInv, TypeOK, Running, LockInv, Owns, OwnPoints, StageInv, Stage,
       InstanceOnRecord, InfraRecorded, InstanceHasEntry, ActiveRuns, Managed, Recorded,
       NoBundle
<1> QED  BY <1>1, <1>2, <1>3, <1>4, <1>5 DEF IInv

LEMMA PeeringAddIInv ==
    ASSUME IInv, PeeringAdd PROVE IInv'
<1> USE LifecycleAssumption DEF PeeringAdd, Budget, Edited, Added, cloud, files, rest,
   locks, admission, At
<1>1. TypeOK'
    BY DEF IInv, TypeOK, Running, Recorded, Phase, ActivePeers, Members, PeeringEntry, NoBundle
<1>2. LockInv'
    BY DEF IInv, TypeOK, Running, LockInv, Owns, OwnPoints, OwnCommands
<1>3. StageInv'
    BY DEF IInv, TypeOK, Running, LockInv, Owns, OwnPoints, OwnCommands, StageInv, Stage,
       Recorded, NoBundle
<1>4. EntryInv'
    BY DEF IInv, TypeOK, Running, EntryInv, StageInv, Stage
<1>5. InstanceOnRecord'
    BY DEF IInv, TypeOK, Running, LockInv, Owns, OwnPoints, StageInv, Stage,
       InstanceOnRecord, InfraRecorded, InstanceHasEntry, ActiveRuns, Managed, Recorded,
       NoBundle
<1> QED  BY <1>1, <1>2, <1>3, <1>4, <1>5 DEF IInv

LEMMA PeeringRemoveIInv ==
    ASSUME IInv, PeeringRemove PROVE IInv'
<1> USE LifecycleAssumption DEF PeeringRemove, Budget, Edited, Removed, cloud, files, rest,
   locks, admission, At
<1>1. TypeOK'
    BY DEF IInv, TypeOK, Running, Recorded, Phase, ActivePeers, Members, PeeringEntry, NoBundle
<1>2. LockInv'
    BY DEF IInv, TypeOK, Running, LockInv, Owns, OwnPoints, OwnCommands
<1>3. StageInv'
    BY DEF IInv, TypeOK, Running, LockInv, Owns, OwnPoints, OwnCommands, StageInv, Stage,
       Recorded, NoBundle
<1>4. EntryInv'
    BY DEF IInv, TypeOK, Running, EntryInv, StageInv, Stage
<1>5. InstanceOnRecord'
    BY DEF IInv, TypeOK, Running, LockInv, Owns, OwnPoints, StageInv, Stage,
       InstanceOnRecord, InfraRecorded, InstanceHasEntry, ActiveRuns, Managed, Recorded,
       NoBundle
<1> QED  BY <1>1, <1>2, <1>3, <1>4, <1>5 DEF IInv

LEMMA PeeringApplyIInv ==
    ASSUME IInv, NEW p \in Proc, PeeringApply(p) PROVE IInv'
<1> USE LifecycleAssumption DEF PeeringApply, Budget, Idle, cloud, files, rest, locks,
   admission, At
<1>1. TypeOK'
    BY DEF IInv, TypeOK, Running, Recorded, Phase, ActivePeers, Members, PeeringEntry, NoBundle
<1>2. LockInv'
    BY DEF IInv, TypeOK, Running, LockInv, Owns, OwnPoints, OwnCommands
<1>3. StageInv'
    BY DEF IInv, TypeOK, Running, LockInv, Owns, OwnPoints, OwnCommands, StageInv, Stage,
       Recorded, NoBundle
<1>4. EntryInv'
    BY DEF IInv, TypeOK, Running, EntryInv, StageInv, Stage
<1>5. InstanceOnRecord'
    BY DEF IInv, TypeOK, Running, LockInv, Owns, OwnPoints, StageInv, Stage,
       InstanceOnRecord, InfraRecorded, InstanceHasEntry, ActiveRuns, Managed, Recorded,
       NoBundle
<1> QED  BY <1>1, <1>2, <1>3, <1>4, <1>5 DEF IInv

LEMMA MigrateReadIInv ==
    ASSUME IInv, NEW p \in Proc, MigrateRead(p) PROVE IInv'
<1> USE LifecycleAssumption DEF MigrateRead, Budget, Idle, cloud, files, rest, locks,
   admission, At
<1>1. TypeOK'
    BY DEF IInv, TypeOK, Running, Recorded, Phase, ActivePeers, Members, PeeringEntry, NoBundle
<1>2. LockInv'
    BY DEF IInv, TypeOK, Running, LockInv, Owns, OwnPoints, OwnCommands
<1>3. StageInv'
    BY DEF IInv, TypeOK, Running, LockInv, Owns, OwnPoints, OwnCommands, StageInv, Stage,
       Recorded, NoBundle
<1>4. EntryInv'
    BY DEF IInv, TypeOK, Running, EntryInv, StageInv, Stage
<1>5. InstanceOnRecord'
    BY DEF IInv, TypeOK, Running, LockInv, Owns, OwnPoints, StageInv, Stage,
       InstanceOnRecord, InfraRecorded, InstanceHasEntry, ActiveRuns, Managed, Recorded,
       NoBundle
<1> QED  BY <1>1, <1>2, <1>3, <1>4, <1>5 DEF IInv

LEMMA MigrateWriteIInv ==
    ASSUME IInv, NEW p \in Proc, MigrateWrite(p) PROVE IInv'
<1> USE LifecycleAssumption DEF MigrateWrite, Edited, Migrated, Idle, End, ReleaseOperation,
   cloud, files, rest, locks, admission, At
<1>1. TypeOK'
    BY DEF IInv, TypeOK, Running, Recorded, Phase, ActivePeers, Members, PeeringEntry, NoBundle
<1>2. LockInv'
    BY DEF IInv, TypeOK, Running, LockInv, Owns, OwnPoints, OwnCommands
<1>3. StageInv'
    BY DEF IInv, TypeOK, Running, LockInv, Owns, OwnPoints, OwnCommands, StageInv, Stage,
       Recorded, NoBundle
<1>4. EntryInv'
    BY DEF IInv, TypeOK, Running, EntryInv, StageInv, Stage
<1>5. InstanceOnRecord'
    BY DEF IInv, TypeOK, Running, LockInv, Owns, OwnPoints, StageInv, Stage,
       InstanceOnRecord, InfraRecorded, InstanceHasEntry, ActiveRuns, Managed, Recorded,
       NoBundle
<1> QED  BY <1>1, <1>2, <1>3, <1>4, <1>5 DEF IInv

LEMMA DestroyStartIInv ==
    ASSUME IInv, NEW p \in Proc, NEW s \in Service, DestroyStart(p, s) PROVE IInv'
<1> USE LifecycleAssumption DEF DestroyStart, cloud, files, admission, At
<1>s. PICK pc \in {"wipe", "revoke", "mark"} :
           /\ Start(p, s, "destroy", pc)
           /\ pc = "wipe" <=> phase[s] = "deleted"
           /\ pc = "revoke" <=> phase[s] # "deleted" /\ s \in TrusteeMode
    OBVIOUS
<1>e. /\ proc' \in [Proc -> Running] /\ opLock' \in [Service -> Proc \cup {NoProc}]
      /\ \A q \in Proc \ {p} : proc'[q] = proc[q]
      /\ proc'[p].pc = pc /\ proc'[p].cmd = "destroy" /\ proc'[p].svc = s /\ LockInv'
    BY <1>s, StartEffect DEF Points, OwnPoints, Commands
<1>u. UNCHANGED <<files, cloud, stateLock, peerings>>
    BY <1>s DEF Start
<1>1. TypeOK'
    BY <1>e, <1>u DEF IInv, TypeOK
<1>2. LockInv'
    BY <1>e
<1>3. StageInv'
  <2> SUFFICES ASSUME NEW q \in Proc PROVE Stage(q)'
      BY DEF StageInv
  <2>1. CASE q = p
      BY <1>s, <1>e, <1>u, <2>1 DEF IInv, EntryInv, Stage, Recorded
  <2>2. CASE q # p
      BY <1>e, <1>u, <2>2 DEF IInv, StageInv, Stage
  <2> QED  BY <2>1, <2>2
<1>4. EntryInv'
    BY <1>u DEF IInv, EntryInv
<1>5. InstanceOnRecord'
    BY <1>u DEF IInv, InstanceOnRecord, InfraRecorded, InstanceHasEntry, ActiveRuns, Managed
<1> QED  BY <1>1, <1>2, <1>3, <1>4, <1>5 DEF IInv

LEMMA RevokeIInv ==
    ASSUME IInv, NEW p \in Proc, Revoke(p) PROVE IInv'
<1> USE LifecycleAssumption DEF Revoke, TrusteeFree, cloud, files, rest, locks, admission, At
<1>0. proc[p].svc \in Service /\ opLock[proc[p].svc] = p
    BY OwnService DEF IInv, Owns, OwnPoints
<1>1. TypeOK'
  <2>1. proc' \in [Proc -> Running]
      BY <1>0, GotoType DEF IInv, Points, OwnPoints
  <2> QED  BY <1>0, <2>1 DEF IInv, TypeOK, Recorded, Phase
<1> USE DEF Goto
<1>2. LockInv'
    BY <1>0 DEF IInv, TypeOK, Running, LockInv, Owns, OwnPoints, OwnCommands
<1>3. StageInv'
    BY <1>0 DEF IInv, TypeOK, Running, LockInv, Owns, OwnPoints, OwnCommands, StageInv,
       Stage, Recorded, NoBundle
<1>4. EntryInv'
    BY <1>0 DEF IInv, TypeOK, Running, EntryInv, StageInv, Stage
<1>5. InstanceOnRecord'
    BY <1>0 DEF IInv, TypeOK, Running, LockInv, Owns, OwnPoints, StageInv, Stage,
       InstanceOnRecord, InfraRecorded, InstanceHasEntry, ActiveRuns, Managed, Recorded,
       NoBundle
<1> QED  BY <1>1, <1>2, <1>3, <1>4, <1>5 DEF IInv

LEMMA MarkDestroyingIInv ==
    ASSUME IInv, NEW p \in Proc, MarkDestroying(p) PROVE IInv'
<1> USE LifecycleAssumption DEF MarkDestroying, cloud, files, rest, locks, admission, At
<1>0. proc[p].svc \in Service /\ opLock[proc[p].svc] = p
    BY OwnService DEF IInv, Owns, OwnPoints
<1>1. TypeOK'
  <2>1. proc' \in [Proc -> Running]
      BY <1>0, GotoType DEF IInv, Points, OwnPoints
  <2> QED  BY <1>0, <2>1 DEF IInv, TypeOK, Recorded, Phase
<1> USE DEF Goto
<1>2. LockInv'
    BY <1>0 DEF IInv, TypeOK, Running, LockInv, Owns, OwnPoints, OwnCommands
<1>3. StageInv'
    BY <1>0 DEF IInv, TypeOK, Running, LockInv, Owns, OwnPoints, OwnCommands, StageInv,
       Stage, Recorded, NoBundle
<1>4. EntryInv'
    BY <1>0 DEF IInv, TypeOK, Running, EntryInv, StageInv, Stage
<1>5. InstanceOnRecord'
    BY <1>0 DEF IInv, TypeOK, Running, LockInv, Owns, OwnPoints, StageInv, Stage,
       InstanceOnRecord, InfraRecorded, InstanceHasEntry, ActiveRuns, Managed, Recorded,
       NoBundle
<1> QED  BY <1>1, <1>2, <1>3, <1>4, <1>5 DEF IInv

LEMMA RemoveInfraIInv ==
    ASSUME IInv, NEW p \in Proc, RemoveInfra(p) PROVE IInv'
<1> USE LifecycleAssumption DEF RemoveInfra, cloud, files, rest, locks, admission, At
<1>0. proc[p].svc \in Service /\ opLock[proc[p].svc] = p
    BY OwnService DEF IInv, Owns, OwnPoints
<1>1. TypeOK'
  <2>1. proc' \in [Proc -> Running]
      BY GotoType DEF IInv, Points, OwnPoints
  <2> QED  BY <1>0, <2>1 DEF IInv, TypeOK, NoBundle
<1> USE DEF Goto
<1>2. LockInv'
    BY <1>0 DEF IInv, TypeOK, Running, LockInv, Owns, OwnPoints, OwnCommands
<1>3. StageInv'
    BY <1>0 DEF IInv, TypeOK, Running, LockInv, Owns, OwnPoints, OwnCommands, StageInv,
       Stage, Recorded, NoBundle
<1>4. EntryInv'
    BY <1>0 DEF IInv, TypeOK, Running, EntryInv, StageInv, Stage
<1>5. InstanceOnRecord'
    BY <1>0 DEF IInv, TypeOK, Running, LockInv, Owns, OwnPoints, StageInv, Stage,
       InstanceOnRecord, InfraRecorded, InstanceHasEntry, ActiveRuns, Managed, Recorded,
       NoBundle
<1> QED  BY <1>1, <1>2, <1>3, <1>4, <1>5 DEF IInv

LEMMA CleanupIInv ==
    ASSUME IInv, NEW p \in Proc, Cleanup(p) PROVE IInv'
<1> USE LifecycleAssumption DEF Cleanup, CanClean, TrusteeFree, cloud, files, rest, locks,
   admission, At
<1>0. proc[p].svc \in Service /\ opLock[proc[p].svc] = p
    BY OwnService DEF IInv, Owns, OwnPoints
<1>1. TypeOK'
  <2>1. proc' \in [Proc -> Running]
      BY <1>0, GotoType DEF IInv, Points, OwnPoints
  <2> QED  BY <1>0, <2>1 DEF IInv, TypeOK, Recorded, Phase
<1> USE DEF Goto
<1>2. LockInv'
    BY <1>0 DEF IInv, TypeOK, Running, LockInv, Owns, OwnPoints, OwnCommands
<1>3. StageInv'
    BY <1>0 DEF IInv, TypeOK, Running, LockInv, Owns, OwnPoints, OwnCommands, StageInv,
       Stage, Recorded, NoBundle
<1>4. EntryInv'
    BY <1>0 DEF IInv, TypeOK, Running, EntryInv, StageInv, Stage
<1>5. InstanceOnRecord'
  <2>1. ~infra[proc[p].svc]
      BY <1>0 DEF IInv, TypeOK, StageInv, Stage, InstanceOnRecord, InfraRecorded, Recorded
  <2>2. InfraRecorded' /\ ActiveRuns'
      BY DEF IInv, InstanceOnRecord, InfraRecorded, ActiveRuns
  <2>3. InstanceHasEntry'
      BY <1>0, <2>1 DEF IInv, TypeOK, InstanceOnRecord, InstanceHasEntry, Managed
  <2> QED  BY <2>2, <2>3 DEF InstanceOnRecord
<1> QED  BY <1>1, <1>2, <1>3, <1>4, <1>5 DEF IInv

LEMMA ReportIInv ==
    ASSUME IInv, NEW p \in Proc, Report(p) PROVE IInv'
<1> USE LifecycleAssumption DEF Report, Idle, End, ReleaseOperation, cloud, files, rest,
   locks, admission, At
<1>1. TypeOK'
    BY DEF IInv, TypeOK, Running, Recorded, Phase, ActivePeers, Members, PeeringEntry, NoBundle
<1>2. LockInv'
    BY DEF IInv, TypeOK, Running, LockInv, Owns, OwnPoints, OwnCommands
<1>3. StageInv'
    BY DEF IInv, TypeOK, Running, LockInv, Owns, OwnPoints, OwnCommands, StageInv, Stage,
       Recorded, NoBundle
<1>4. EntryInv'
    BY DEF IInv, TypeOK, Running, EntryInv, StageInv, Stage
<1>5. InstanceOnRecord'
    BY DEF IInv, TypeOK, Running, LockInv, Owns, OwnPoints, StageInv, Stage,
       InstanceOnRecord, InfraRecorded, InstanceHasEntry, ActiveRuns, Managed, Recorded,
       NoBundle
<1> QED  BY <1>1, <1>2, <1>3, <1>4, <1>5 DEF IInv

LEMMA FinishDestroyIInv ==
    ASSUME IInv, NEW p \in Proc, FinishDestroy(p) PROVE IInv'
<1> USE LifecycleAssumption DEF FinishDestroy, cloud, files, rest, locks, admission, At
<1>0. proc[p].svc \in Service /\ opLock[proc[p].svc] = p
    BY OwnService DEF IInv, Owns, OwnPoints
<1>1. TypeOK'
  <2>1. proc' \in [Proc -> Running]
      BY GotoType DEF IInv, Points, OwnPoints
  <2>2. proc[p].seen \in Nat
      BY DEF IInv, TypeOK, Running
  <2> QED  BY <1>0, <2>1, <2>2 DEF IInv, TypeOK, Phase
<1> USE DEF Goto
<1>2. LockInv'
    BY <1>0 DEF IInv, TypeOK, Running, LockInv, Owns, OwnPoints, OwnCommands
<1>3. StageInv'
    BY <1>0 DEF IInv, TypeOK, Running, LockInv, Owns, OwnPoints, OwnCommands, StageInv,
       Stage, Recorded, NoBundle
<1>4. EntryInv'
    BY <1>0 DEF IInv, TypeOK, Running, EntryInv, StageInv, Stage
<1>5. InstanceOnRecord'
    BY <1>0 DEF IInv, TypeOK, Running, LockInv, Owns, OwnPoints, StageInv, Stage,
       InstanceOnRecord, InfraRecorded, InstanceHasEntry, ActiveRuns, Managed, Recorded,
       NoBundle
<1> QED  BY <1>1, <1>2, <1>3, <1>4, <1>5 DEF IInv

LEMMA FailIInv ==
    ASSUME IInv, NEW p \in Proc, Fail(p) PROVE IInv'
<1> USE LifecycleAssumption DEF Fail, Refused, Idle, End, ReleaseOperation, cloud, files,
   rest, locks, admission, At
<1>1. TypeOK'
    BY DEF IInv, TypeOK, Running, Recorded, Phase, ActivePeers, Members, PeeringEntry, NoBundle
<1>2. LockInv'
    BY DEF IInv, TypeOK, Running, LockInv, Owns, OwnPoints, OwnCommands
<1>3. StageInv'
    BY DEF IInv, TypeOK, Running, LockInv, Owns, OwnPoints, OwnCommands, StageInv, Stage,
       Recorded, NoBundle
<1>4. EntryInv'
    BY DEF IInv, TypeOK, Running, EntryInv, StageInv, Stage
<1>5. InstanceOnRecord'
    BY DEF IInv, TypeOK, Running, LockInv, Owns, OwnPoints, StageInv, Stage,
       InstanceOnRecord, InfraRecorded, InstanceHasEntry, ActiveRuns, Managed, Recorded,
       NoBundle
<1> QED  BY <1>1, <1>2, <1>3, <1>4, <1>5 DEF IInv

LEMMA CrashIInv ==
    ASSUME IInv, NEW p \in Proc, Crash(p) PROVE IInv'
<1> USE LifecycleAssumption DEF Crash, Idle, End, ReleaseOperation, cloud, files, rest,
   locks, admission, At
<1>1. TypeOK'
    BY DEF IInv, TypeOK, Running, Recorded, Phase, ActivePeers, Members, PeeringEntry, NoBundle
<1>2. LockInv'
    BY DEF IInv, TypeOK, Running, LockInv, Owns, OwnPoints, OwnCommands
<1>3. StageInv'
    BY DEF IInv, TypeOK, Running, LockInv, Owns, OwnPoints, OwnCommands, StageInv, Stage,
       Recorded, NoBundle
<1>4. EntryInv'
    BY DEF IInv, TypeOK, Running, EntryInv, StageInv, Stage
<1>5. InstanceOnRecord'
    BY DEF IInv, TypeOK, Running, LockInv, Owns, OwnPoints, StageInv, Stage,
       InstanceOnRecord, InfraRecorded, InstanceHasEntry, ActiveRuns, Managed, Recorded,
       NoBundle
<1> QED  BY <1>1, <1>2, <1>3, <1>4, <1>5 DEF IInv

LEMMA NextIInv == IInv /\ [Next]_vars => IInv'
<1> SUFFICES ASSUME IInv, [Next]_vars PROVE IInv'
    OBVIOUS
<1>1. CASE UNCHANGED vars
    BY <1>1 DEF IInv, TypeOK, LockInv, Owns, At, StageInv, Stage, EntryInv, InstanceOnRecord,
       InfraRecorded, InstanceHasEntry, ActiveRuns, Managed,
       vars, files, cloud, locks, rest, admission
<1>2. ASSUME NEW p \in Proc, Command(p) PROVE IInv'
    BY <1>2, BuildStartIInv, ForgetIInv, TrusteeSyncIInv, DeployStartIInv, ResumeStartIInv,
       InjectStartIInv, DestroyStartIInv, MeshSyncIInv, PeeringApplyIInv, MigrateReadIInv
       DEF Command
<1>3. ASSUME NEW p \in Proc, Step(p) PROVE IInv'
    BY <1>3, BuildCommitIInv, SyncBeginIInv, SyncCommitIInv, RecordAttemptIInv, LaunchIInv,
       ObserveIInv, ActivateIInv, MeshBeginIInv, DeliverIInv, MeshCommitIInv, RefreshIInv,
       RefreshDoneIInv, RevokeIInv, MarkDestroyingIInv, RemoveInfraIInv, CleanupIInv,
       ReportIInv, FinishDestroyIInv, MigrateWriteIInv, FailIInv
       DEF Step
<1> QED  BY <1>1, <1>2, <1>3, CrashIInv, PeeringAddIInv, PeeringRemoveIInv DEF Next

-----------------------------------------------------------------------------
\* The records and the commands have their types, in every reachable state.
THEOREM Typed == Spec => []TypeOK
<1>1. IInv => TypeOK
    BY DEF IInv
<1> QED  BY <1>1, InitIInv, NextIInv, PTL DEF Spec

\* What exists in the cloud stays on the records destroy works from, wherever
\* the commands of any number of services die or fail, and no record calls a
\* service active whose instance is gone or was never given a bundle.
THEOREM OnRecord == Spec => []InstanceOnRecord
<1>1. IInv => InstanceOnRecord
    BY DEF IInv
<1> QED  BY <1>1, InitIInv, NextIInv, PTL DEF Spec

\* A command works at its service's own steps only while it holds the operation
\* lock of that service, so no two commands are ever there together.
Exclusive ==
    \A p, q \in Proc : p # q /\ Owns(p) /\ Owns(q) => proc[p].svc # proc[q].svc
THEOREM OneCommandPerService == Spec => []Exclusive
<1>1. IInv => Exclusive
    BY DEF IInv, LockInv, Exclusive
<1> QED  BY <1>1, InitIInv, NextIInv, PTL DEF Spec

\* No instance goes while the Trustee still gives its service access: only a
\* destroy takes one away, and what it revoked stays revoked until then.
THEOREM RevokedFirst == Spec => RevokedBeforeRemoval
<1> DEFINE Withdrawn == \A s \in Service : infra[s] /\ ~infra'[s] => entry[s] # "enabled"
<1>1. IInv /\ [Next]_vars => [Withdrawn]_vars
  <2> SUFFICES ASSUME IInv, Next, NEW s \in Service, infra[s], ~infra'[s]
               PROVE  entry[s] # "enabled"
      OBVIOUS
  <2>1. PICK p \in Proc : RemoveInfra(p)
    <3> HIDE DEF IInv
    <3>1. ASSUME NEW p \in Proc, Command(p) PROVE UNCHANGED cloud
        BY <3>1 DEF Command, BuildStart, Start, Forget, MeshSync, TrusteeSync, DeployStart,
           ResumeStart, InjectStart, DestroyStart, PeeringApply, MigrateRead
    <3>2. ASSUME NEW p \in Proc, Step(p)
          PROVE  UNCHANGED infra \/ Launch(p) \/ RemoveInfra(p)
        BY <3>2 DEF Step, BuildCommit, SyncBegin, SyncCommit, RecordAttempt, Observe, Activate,
           MeshBegin, Deliver, MeshCommit, Refresh, RefreshDone, Revoke, MarkDestroying,
           Cleanup, Report, FinishDestroy, MigrateWrite, Fail, cloud
    <3>3. ASSUME NEW p \in Proc, Launch(p) PROVE infra'[s]
        BY <3>3 DEF Launch, IInv, TypeOK
    <3>4. \A p \in Proc : ~Command(p) /\ ~Crash(p)
        BY <3>1 DEF Crash, cloud
    <3> QED  BY <3>2, <3>3, <3>4 DEF Next, PeeringAdd, PeeringRemove, cloud
  <2>2. At(p, {"remove"}) /\ s = proc[p].svc
      BY <2>1 DEF RemoveInfra, IInv, TypeOK
  <2> QED  BY <2>2 DEF IInv, StageInv, Stage, At
<1> QED  BY <1>1, InitIInv, NextIInv, PTL DEF Spec, RevokedBeforeRemoval

-----------------------------------------------------------------------------
(* How the meshes settle, as long as no command fails or dies *)

\* Services whose destroy has withdrawn them and not yet told the others, those
\* a deploy or inject is telling the others about, and those whose firewall a
\* running command is about to render
Leaving ==
    {s \in Service : \E p \in Proc :
        /\ proc[p].cmd = "destroy" /\ proc[p].svc = s
        /\ At(p, {"remove", "cleanup", "finish", "mesh", "deliver"})}
Joining == {s \in Service : \E p \in Proc : At(p, {"deliver"}) /\ s \in Candidate(p)}
Awaiting(s) == \E p \in Proc : At(p, {"refresh"}) /\ s \in proc[p].todo
ActiveServices == {s \in Service : phase[s] = "active"}

\* A deploy that has not told the mesh is not of a member; only a destroy
\* withdraws one
Place(p) ==
    /\ At(p, {"record"}) => phase[proc[p].svc] \notin {"activating", "active"}
    /\ At(p, {"observe"}) => phase[proc[p].svc] # "active"
    /\ At(p, {"revoke", "mark"}) => proc[p].cmd = "destroy"
PlaceInv == \A p \in Proc : Place(p)

ActivatingInv ==
    \A s \in Service : phase[s] = "activating" =>
        \E p \in Proc : At(p, {"activate"}) /\ proc[p].svc = s

\* The bundle being delivered lists the members, of whom nobody comes or goes
\* meanwhile
Delivering(p) ==
    /\ bundle.members = Members \cup Candidate(p)
    /\ proc[p].todo \subseteq bundle.members
    /\ Filter(p) = {} =>
         \A s \in bundle.members \ proc[p].todo : guest[s].members = bundle.members
DeliveringInv == \A p \in Proc : At(p, {"deliver"}) => Delivering(p)

GuestsInv ==
    \A s \in Members :
        /\ Members \subseteq guest[s].members
        /\ guest[s].members \subseteq Members \cup Leaving \cup Joining

\* A firewall that no running command is going to render was rendered for the
\* active services, and for others that are about to become active or to leave
Rendering(s, P, M) ==
    /\ applied => P = peerings
    /\ firewall[s] = SecurityGroup(P, M \ {s}, s \in WithSsh)
    /\ ActiveServices \subseteq M /\ M \subseteq Members \cup Leaving
FirewallInv ==
    \A s \in ActiveServices : ~Awaiting(s) =>
        \E P \in SUBSET PeeringEntry, M \in SUBSET Service : Rendering(s, P, M)

Settled == PlaceInv /\ ActivatingInv /\ DeliveringInv /\ GuestsInv /\ FirewallInv
SettlingInv == ~faulty => Settled

\* A step of p outside a mesh sync, an activation and a refresh, that changes
\* no member: it may start or end, and work on a service that is not one
QuietStep(p) ==
    /\ \A q \in Proc \ {p} : proc'[q] = proc[q]
    /\ ~At(p, {"mesh", "deliver", "refresh", "activate"})
    /\ ~At(p, {"deliver", "refresh", "activate"})'
    /\ \A s \in Service : \/ phase'[s] = phase[s]
                          \/ {phase[s], phase'[s]} \cap {"activating", "active"} = {}
    /\ \A s \in Members : firewall'[s] = firewall[s]
    /\ \A s \in Service : guest'[s] = guest[s] \/ (At(p, {"remove"}) /\ s = proc[p].svc)
    /\ UNCHANGED bundle
    /\ applied' => applied /\ peerings' = peerings
    /\ At(p, {"remove", "cleanup", "finish"}) /\ proc[p].cmd = "destroy" =>
          /\ proc'[p].cmd = "destroy" /\ proc'[p].svc = proc[p].svc
          /\ At(p, {"remove", "cleanup", "finish", "mesh"})'

LEMMA QuietStepSettles ==
    ASSUME IInv, Settled, NEW p \in Proc, QuietStep(p), Place(p)'
    PROVE  Settled'
<1>1. \A q \in Proc \ {p} : proc'[q] = proc[q]
    BY DEF QuietStep
<1>2. Members' = Members /\ ActiveServices' = ActiveServices
    BY DEF QuietStep, Members, ActiveServices
<1>3. /\ \A s \in Service : phase'[s] \in {"activating", "active"} => phase'[s] = phase[s]
      /\ \A s \in Members : firewall'[s] = firewall[s]
      /\ bundle' = bundle
    BY DEF QuietStep
<1>4. PlaceInv'
  <2> SUFFICES ASSUME NEW q \in Proc, q # p PROVE Place(q)'
      BY DEF PlaceInv
  <2>1. Place(q) /\ proc'[q] = proc[q]
      BY <1>1 DEF Settled, PlaceInv
  <2>2. CASE At(q, {"record", "observe"})
    <3>1. proc[q].svc \in Service
        BY <2>2, OwnService DEF IInv, Owns, At, OwnPoints
    <3> QED  BY <1>3, <2>1, <3>1 DEF Place, At
  <2>3. CASE ~At(q, {"record", "observe"})
      BY <2>1, <2>3 DEF Place, At
  <2> QED  BY <2>2, <2>3
<1>5. ActivatingInv'
  <2> SUFFICES ASSUME NEW s \in Service, phase'[s] = "activating"
               PROVE  \E q \in Proc : At(q, {"activate"})' /\ proc'[q].svc = s
      BY DEF ActivatingInv
  <2>1. PICK q \in Proc : At(q, {"activate"}) /\ proc[q].svc = s
      BY <1>3 DEF Settled, ActivatingInv
  <2>2. q # p
      BY <2>1 DEF QuietStep, At
  <2> QED  BY <1>1, <2>1, <2>2 DEF At
<1>6. \A s \in Members : guest'[s] = guest[s]
  <2> SUFFICES ASSUME NEW s \in Members, At(p, {"remove"}), s = proc[p].svc PROVE FALSE
      BY DEF QuietStep, Members
  <2> QED  BY DEF IInv, StageInv, Stage, At, Members
<1>7. DeliveringInv'
  <2> SUFFICES ASSUME NEW q \in Proc, At(q, {"deliver"})' PROVE Delivering(q)'
      BY DEF DeliveringInv
  <2>1. q # p /\ proc'[q] = proc[q] /\ At(q, {"deliver"})
      BY <1>1 DEF QuietStep, At
  <2>2. Delivering(q) /\ Candidate(q)' = Candidate(q) /\ Filter(q)' = Filter(q)
      BY <2>1 DEF Settled, DeliveringInv, Candidate, Filter
  <2>3. \A s \in Members \cup Candidate(q) : guest'[s] = guest[s]
    <3> SUFFICES ASSUME NEW s \in Candidate(q) PROVE guest'[s] = guest[s]
        BY <1>6
    <3>1. Owns(q) /\ s = proc[q].svc
        BY <2>1 DEF Candidate, Owns, At, OwnCommands
    <3>2. s \in Service /\ opLock[s] = q
        BY <3>1, OwnService DEF IInv
    <3>3. ~ (At(p, {"remove"}) /\ s = proc[p].svc)
        BY <2>1, <3>2, OwnService DEF IInv, Owns, At, OwnPoints
    <3> QED  BY <3>2, <3>3 DEF QuietStep
  <2> QED  BY <1>2, <1>3, <2>1, <2>2, <2>3 DEF Delivering
<1>8. Leaving \subseteq Leaving' /\ Joining \subseteq Joining'
  <2>1. ASSUME NEW q \in Proc, NEW s \in Service, proc[q].cmd = "destroy", proc[q].svc = s,
               At(q, {"remove", "cleanup", "finish", "mesh", "deliver"})
        PROVE  s \in Leaving'
    <3>1. CASE q # p
        BY <1>1, <2>1, <3>1 DEF Leaving, At
    <3>2. CASE q = p
        BY <2>1, <3>2 DEF Leaving, At, QuietStep
    <3> QED  BY <3>1, <3>2
  <2>2. ASSUME NEW q \in Proc, NEW s \in Service, At(q, {"deliver"}), s \in Candidate(q)
        PROVE  s \in Joining'
    <3>1. q # p
        BY <2>2 DEF QuietStep, At
    <3> QED  BY <1>1, <2>2, <3>1 DEF Joining, At, Candidate
  <2> QED  BY <2>1, <2>2 DEF Leaving, Joining
<1>9. GuestsInv'
    BY <1>2, <1>6, <1>8 DEF Settled, GuestsInv
<1>10. FirewallInv'
  <2> SUFFICES ASSUME NEW s \in ActiveServices', ~Awaiting(s)'
               PROVE  \E P \in SUBSET PeeringEntry, M \in SUBSET Service : Rendering(s, P, M)'
      BY DEF FirewallInv
  <2>1. s \in ActiveServices /\ s \in Members
      BY <1>2 DEF ActiveServices, Members
  <2>2. ~Awaiting(s)
    <3> SUFFICES ASSUME NEW q \in Proc, At(q, {"refresh"}), s \in proc[q].todo PROVE FALSE
        BY DEF Awaiting
    <3>1. q # p
        BY DEF QuietStep, At
    <3> QED  BY <1>1, <3>1 DEF Awaiting, At
  <2>3. PICK P \in SUBSET PeeringEntry, M \in SUBSET Service : Rendering(s, P, M)
      BY <2>1, <2>2 DEF Settled, FirewallInv
  <2>4. applied' => P = peerings'
      BY <2>3 DEF Rendering, QuietStep
  <2>5. firewall'[s] = firewall[s]
      BY <1>3, <2>1
  <2>6. ActiveServices' \subseteq M /\ M \subseteq Members' \cup Leaving'
      BY <1>2, <1>8, <2>3 DEF Rendering
  <2> QED  BY <2>3, <2>4, <2>5, <2>6 DEF Rendering
<1> QED  BY <1>4, <1>5, <1>7, <1>9, <1>10 DEF Settled

QuietStarts == {"build", "sync", "record", "observe", "mesh", "revoke", "mark", "wipe"}
LEMMA QuietStart ==
    ASSUME IInv, Settled, NEW p \in Proc, NEW s \in Service, NEW cmd \in Commands,
           NEW pc \in QuietStarts, Start(p, s, cmd, pc),
           pc = "record" => phase[s] \notin {"activating", "active"},
           pc = "observe" => phase[s] # "active",
           pc \in {"revoke", "mark"} => cmd = "destroy",
           UNCHANGED <<files, cloud, admission>>
    PROVE  Settled'
<1>1. /\ \A q \in Proc \ {p} : proc'[q] = proc[q]
      /\ proc'[p].pc = pc /\ proc'[p].cmd = cmd /\ proc'[p].svc = s
    BY StartEffect DEF QuietStarts, Points, OwnPoints
<1>2. proc[p].pc = "idle"
    BY DEF Start, Idle
<1>3. QuietStep(p)
    BY <1>1, <1>2 DEF QuietStep, At, files, cloud, admission, QuietStarts
<1>4. Place(p)'
    BY <1>1 DEF Place, At, files
<1> QED  BY <1>3, <1>4, QuietStepSettles

LEMMA QuietGoto ==
    ASSUME IInv, Settled, NEW p \in Proc, NEW pc, Goto(p, pc)
    PROVE  /\ \A q \in Proc \ {p} : proc'[q] = proc[q]
           /\ proc'[p].pc = pc /\ proc'[p].cmd = proc[p].cmd /\ proc'[p].svc = proc[p].svc
BY GotoEffect DEF IInv

LEMMA QuietEnd ==
    ASSUME IInv, Settled, NEW p \in Proc, End(p)
    PROVE  (\A q \in Proc \ {p} : proc'[q] = proc[q]) /\ proc'[p].pc = "idle"
BY EndEffect DEF IInv

LEMMA StartsSettle ==
    ASSUME IInv, Settled, NEW p \in Proc, NEW s \in Service,
           BuildStart(p, s) \/ TrusteeSync(p, s) \/ DeployStart(p, s) \/ ResumeStart(p, s)
             \/ InjectStart(p, s) \/ DestroyStart(p, s)
    PROVE  Settled'
<1>1. PICK cmd \in Commands, pc \in QuietStarts :
        /\ Start(p, s, cmd, pc)
        /\ pc = "record" => phase[s] \notin {"activating", "active"}
        /\ pc = "observe" => phase[s] # "active"
        /\ pc \in {"revoke", "mark"} => cmd = "destroy"
  <2> USE DEF Commands, QuietStarts
  <2>1. CASE BuildStart(p, s)
      BY <2>1 DEF BuildStart
  <2>2. CASE TrusteeSync(p, s)
      BY <2>2 DEF TrusteeSync
  <2>3. CASE DeployStart(p, s)
      BY <2>3 DEF DeployStart
  <2>4. CASE ResumeStart(p, s)
      BY <2>4 DEF ResumeStart
  <2>5. CASE InjectStart(p, s)
      BY <2>5 DEF InjectStart
  <2>6. CASE DestroyStart(p, s)
      BY <2>6 DEF DestroyStart
  <2> QED  BY <2>1, <2>2, <2>3, <2>4, <2>5, <2>6
<1>2. UNCHANGED <<files, cloud, admission>>
    BY <1>1 DEF Start
<1> QED  BY <1>1, <1>2, QuietStart

LEMMA UnlockedStartsSettle ==
    ASSUME IInv, Settled, NEW p \in Proc,
           \/ \E s \in Service : Forget(p, s)
           \/ \E s \in Service \cup {NoService} : MeshSync(p, s)
           \/ MigrateRead(p)
    PROVE  Settled'
<1>0. proc \in [Proc -> Running] /\ phase \in [Service -> Phase]
    BY DEF IInv, TypeOK
<1>1. ASSUME NEW s \in Service, Forget(p, s) PROVE Settled'
  <2>1. QuietStep(p)
      BY <1>0, <1>1 DEF Forget, QuietStep, At, Idle, cloud, admission
  <2>2. Place(p)'
      BY <1>1 DEF Forget, Place, At, Idle
  <2> QED  BY <2>1, <2>2, QuietStepSettles
<1>2. ASSUME NEW r, proc[p] = Idle, proc' = [proc EXCEPT ![p] = r], r.pc \in {"mesh", "migrate"},
             UNCHANGED <<files, cloud, admission>>
      PROVE  Settled'
  <2>1. proc[p].pc = "idle" /\ proc'[p].pc \in {"mesh", "migrate"}
      BY <1>0, <1>2 DEF Idle
  <2>2. \A q \in Proc \ {p} : proc'[q] = proc[q]
      BY <1>0, <1>2
  <2>3. QuietStep(p) /\ Place(p)'
      BY <1>2, <2>1, <2>2 DEF QuietStep, Place, At, files, cloud, admission
  <2> QED  BY <2>3, QuietStepSettles
<1>3. ASSUME NEW s \in Service \cup {NoService}, MeshSync(p, s) PROVE Settled'
  <2> DEFINE r == [Idle EXCEPT !.cmd = "mesh", !.svc = s, !.pc = "mesh"]
  <2>1. proc[p] = Idle /\ proc' = [proc EXCEPT ![p] = r] /\ UNCHANGED <<files, cloud, admission>>
      BY <1>3 DEF MeshSync
  <2>2. r.pc = "mesh"
      BY DEF Idle
  <2> HIDE DEF r
  <2> QED  BY <1>2, <2>1, <2>2
<1>4. CASE MigrateRead(p)
  <2> DEFINE r == [Idle EXCEPT !.cmd = "migrate", !.pc = "migrate", !.held = peerings]
  <2>1. proc[p] = Idle /\ proc' = [proc EXCEPT ![p] = r] /\ UNCHANGED <<files, cloud, admission>>
      BY <1>4 DEF MigrateRead, admission
  <2>2. r.pc = "migrate"
      BY DEF Idle
  <2> HIDE DEF r
  <2> QED  BY <1>2, <2>1, <2>2
<1> QED  BY <1>1, <1>3, <1>4

\* The quiet steps of a running command
LEMMA WorkSettles ==
    ASSUME IInv, Settled, NEW p \in Proc,
           BuildCommit(p) \/ SyncBegin(p) \/ SyncCommit(p) \/ RecordAttempt(p) \/ Launch(p)
             \/ Observe(p) \/ MigrateWrite(p) \/ Report(p)
    PROVE  Settled'
<1> DEFINE s == proc[p].svc
<1>0. Stage(p) /\ Place(p) /\ (Owns(p) => s \in Service /\ opLock[s] = p)
    BY OwnService DEF IInv, StageInv, Settled, PlaceInv
<1>1. phase \in [Service -> Phase] /\ proc \in [Proc -> Running] /\ DOMAIN firewall = Service
    BY DEF IInv, TypeOK
<1>2. SUFFICES QuietStep(p) /\ Place(p)'
    BY QuietStepSettles
<1>3. CASE BuildCommit(p)
  <2>1. /\ At(p, {"build"}) /\ End(p) /\ phase' = [phase EXCEPT ![s] = "built"]
        /\ UNCHANGED <<bundle, cloud, admission>>
      BY <1>3 DEF BuildCommit, rest
  <2>2. s \in Service /\ phase[s] \notin Recorded
      BY <1>0, <2>1 DEF Stage, Owns, At, OwnPoints
  <2>3. (\A q \in Proc \ {p} : proc'[q] = proc[q]) /\ proc'[p].pc = "idle"
      BY <2>1, QuietEnd
  <2> QED  BY <1>1, <2>1, <2>2, <2>3 DEF QuietStep, Place, At, cloud, admission, Recorded
<1>4. CASE SyncBegin(p)
  <2>1. At(p, {"sync"}) /\ Goto(p, "syncing") /\ UNCHANGED <<phase, bundle, cloud, admission>>
      BY <1>4 DEF SyncBegin, rest
  <2>2. (\A q \in Proc \ {p} : proc'[q] = proc[q]) /\ proc'[p].pc = "syncing"
      BY <2>1, QuietGoto
  <2> QED  BY <2>1, <2>2 DEF QuietStep, Place, At, cloud, admission
<1>5. CASE SyncCommit(p)
  <2>1. /\ At(p, {"syncing"}) /\ UNCHANGED <<phase, bundle, cloud, admission>>
        /\ \/ Goto(p, "record") /\ phase[s] \in {"built", "deleted"}
           \/ Goto(p, "mesh")
      BY <1>5 DEF SyncCommit, rest
  <2>2. CASE Goto(p, "record") /\ phase[s] \in {"built", "deleted"}
    <3>1. /\ \A q \in Proc \ {p} : proc'[q] = proc[q]
          /\ proc'[p].pc = "record" /\ proc'[p].svc = s
        BY <2>2, QuietGoto
    <3> QED  BY <2>1, <2>2, <3>1 DEF QuietStep, Place, At, cloud, admission
  <2>3. CASE Goto(p, "mesh")
    <3>1. (\A q \in Proc \ {p} : proc'[q] = proc[q]) /\ proc'[p].pc = "mesh"
        BY <2>3, QuietGoto
    <3> QED  BY <2>1, <3>1 DEF QuietStep, Place, At, cloud, admission
  <2> QED  BY <2>1, <2>2, <2>3
<1>6. CASE RecordAttempt(p)
  <2>1. /\ At(p, {"record"}) /\ Goto(p, "launch") /\ phase' = [phase EXCEPT ![s] = "deploying"]
        /\ UNCHANGED <<bundle, cloud, admission>>
      BY <1>6 DEF RecordAttempt, rest
  <2>2. s \in Service /\ phase[s] \notin {"activating", "active"}
      BY <1>0, <2>1 DEF Place, Owns, At, OwnPoints
  <2>3. (\A q \in Proc \ {p} : proc'[q] = proc[q]) /\ proc'[p].pc = "launch"
      BY <2>1, QuietGoto
  <2> QED  BY <1>1, <2>1, <2>2, <2>3 DEF QuietStep, Place, At, cloud, admission
<1>7. CASE Launch(p)
  <2> DEFINE group == SecurityGroup(proc[p].held, proc[p].todo, s \in WithSsh)
  <2>1. /\ At(p, {"launch"}) /\ firewall' = [firewall EXCEPT ![s] = group]
        /\ UNCHANGED <<phase, bundle, guest, admission>>
        /\ proc' = [proc EXCEPT ![p] = [proc[p] EXCEPT !.pc = "observe", !.held = {}]]
      BY <1>7 DEF Launch, rest, files
  <2>2. s \in Service /\ phase[s] = "deploying"
      BY <1>0, <2>1 DEF Stage, Owns, At, OwnPoints
  <2>3. \A x \in Members : firewall'[x] = firewall[x]
    <3> HIDE DEF group
    <3> QED  BY <1>1, <2>1, <2>2 DEF Members
  <2>4. (\A q \in Proc \ {p} : proc'[q] = proc[q]) /\ proc'[p].pc = "observe" /\ proc'[p].svc = s
      BY <1>1, <2>1 DEF Running
  <2> QED  BY <2>1, <2>2, <2>3, <2>4 DEF QuietStep, Place, At, admission
<1>8. CASE Observe(p)
  <2>1. /\ At(p, {"observe"}) /\ phase' = [phase EXCEPT ![s] = "deployed"]
        /\ End(p) \/ Goto(p, "sync") \/ Goto(p, "mesh")
        /\ UNCHANGED <<bundle, cloud, admission>>
      BY <1>8 DEF Observe, rest
  <2>2. s \in Service /\ opLock[s] = p /\ phase[s] # "active"
      BY <1>0, <2>1 DEF Place, Owns, At, OwnPoints
  <2>3. phase[s] # "activating"
    <3> SUFFICES ASSUME NEW q \in Proc, At(q, {"activate"}), proc[q].svc = s PROVE FALSE
        BY <2>2 DEF Settled, ActivatingInv
    <3> QED  BY <2>1, <2>2, OwnService DEF IInv, Owns, At, OwnPoints
  <2>4. (\A q \in Proc \ {p} : proc'[q] = proc[q]) /\ proc'[p].pc \in {"idle", "sync", "mesh"}
      BY <2>1, QuietEnd, QuietGoto
  <2> QED  BY <1>1, <2>1, <2>2, <2>3, <2>4 DEF QuietStep, Place, At, cloud, admission
<1>9. CASE MigrateWrite(p)
  <2>1. /\ At(p, {"migrate"}) /\ End(p) /\ UNCHANGED <<phase, bundle, cloud>>
        /\ applied' => applied /\ peerings' = peerings
      BY <1>9 DEF MigrateWrite, Edited, files
  <2>2. (\A q \in Proc \ {p} : proc'[q] = proc[q]) /\ proc'[p].pc = "idle"
      BY <2>1, QuietEnd
  <2> QED  BY <2>1, <2>2 DEF QuietStep, Place, At, cloud
<1>10. CASE Report(p)
  <2>1. At(p, {"report"}) /\ End(p) /\ UNCHANGED <<phase, bundle, cloud, admission>>
      BY <1>10 DEF Report, files, rest
  <2>2. (\A q \in Proc \ {p} : proc'[q] = proc[q]) /\ proc'[p].pc = "idle"
      BY <2>1, QuietEnd
  <2> QED  BY <2>1, <2>2 DEF QuietStep, Place, At, cloud, admission
<1> QED  BY <1>3, <1>4, <1>5, <1>6, <1>7, <1>8, <1>9, <1>10

\* and of a destroy
LEMMA WithdrawalSettles ==
    ASSUME IInv, Settled, NEW p \in Proc,
           Revoke(p) \/ RemoveInfra(p) \/ Cleanup(p) \/ FinishDestroy(p)
    PROVE  Settled'
<1> DEFINE s == proc[p].svc
<1>0. Stage(p) /\ Place(p) /\ (Owns(p) => s \in Service)
    BY OwnService DEF IInv, StageInv, Settled, PlaceInv
<1>1. phase \in [Service -> Phase] /\ DOMAIN firewall = Service /\ DOMAIN guest = Service
    BY DEF IInv, TypeOK
<1>2. SUFFICES QuietStep(p) /\ Place(p)'
    BY QuietStepSettles
<1>3. CASE Revoke(p)
  <2>1. /\ At(p, {"revoke"}) /\ UNCHANGED <<phase, bundle, cloud, admission>>
        /\ Goto(p, "wipe") \/ Goto(p, "mark")
      BY <1>3 DEF Revoke, rest
  <2>2. /\ \A q \in Proc \ {p} : proc'[q] = proc[q]
        /\ proc'[p].pc \in {"wipe", "mark"} /\ proc'[p].cmd = proc[p].cmd
      BY <2>1, QuietGoto
  <2>3. proc[p].cmd = "destroy"
      BY <1>0, <2>1 DEF Place, At
  <2> QED  BY <2>1, <2>2, <2>3 DEF QuietStep, Place, At, cloud, admission
<1>4. CASE RemoveInfra(p)
  <2>1. /\ At(p, {"remove"})
        /\ Goto(p, "cleanup") \/ Goto(p, "finish")
        /\ firewall' = [firewall EXCEPT ![s] = Closed] /\ guest' = [guest EXCEPT ![s] = NoBundle]
        /\ UNCHANGED <<phase, bundle, admission>>
      BY <1>4 DEF RemoveInfra, rest, files
  <2>2. /\ \A q \in Proc \ {p} : proc'[q] = proc[q]
        /\ proc'[p].pc \in {"cleanup", "finish"} /\ proc'[p].cmd = proc[p].cmd
        /\ proc'[p].svc = s
      BY <2>1, QuietGoto
  <2>3. s \in Service /\ phase[s] = "destroying"
      BY <1>0, <2>1 DEF Stage, Owns, At, OwnPoints
  <2> QED  BY <1>1, <2>1, <2>2, <2>3 DEF QuietStep, Place, At, admission, Members
<1>5. CASE Cleanup(p)
  <2>1. /\ At(p, {"wipe", "cleanup"}) /\ UNCHANGED <<phase, bundle, cloud, admission>>
        /\ Goto(p, IF At(p, {"wipe"}) THEN "report" ELSE "finish")
      BY <1>5 DEF Cleanup, rest
  <2>2. /\ \A q \in Proc \ {p} : proc'[q] = proc[q]
        /\ proc'[p].pc = IF At(p, {"wipe"}) THEN "report" ELSE "finish"
        /\ proc'[p].cmd = proc[p].cmd /\ proc'[p].svc = s
      BY <2>1, QuietGoto
  <2> QED  BY <2>1, <2>2 DEF QuietStep, Place, At, cloud, admission
<1>6. CASE FinishDestroy(p)
  <2>1. /\ At(p, {"finish"}) /\ Goto(p, "mesh") /\ phase' = [phase EXCEPT ![s] = "deleted"]
        /\ UNCHANGED <<bundle, cloud, admission>>
      BY <1>6 DEF FinishDestroy, rest
  <2>2. /\ \A q \in Proc \ {p} : proc'[q] = proc[q]
        /\ proc'[p].pc = "mesh" /\ proc'[p].cmd = proc[p].cmd /\ proc'[p].svc = s
      BY <2>1, QuietGoto
  <2>3. s \in Service /\ phase[s] = "destroying"
      BY <1>0, <2>1 DEF Stage, Owns, At, OwnPoints
  <2> QED  BY <1>1, <2>1, <2>2, <2>3 DEF QuietStep, Place, At, cloud, admission
<1> QED  BY <1>3, <1>4, <1>5, <1>6

-----------------------------------------------------------------------------
(* The steps that change the members, or tell them *)

\* What holds of the commands that p does not touch
LEMMA OthersPlaced ==
    ASSUME IInv, Settled, NEW p \in Proc, \A q \in Proc \ {p} : proc'[q] = proc[q],
           \A s \in Service : opLock[s] # p => phase'[s] = phase[s], Place(p)'
    PROVE  PlaceInv'
<1> SUFFICES ASSUME NEW q \in Proc, q # p PROVE Place(q)'
    BY DEF PlaceInv
<1>1. Place(q) /\ proc'[q] = proc[q]
    BY DEF Settled, PlaceInv
<1>2. CASE At(q, {"record", "observe"})
  <2>1. proc[q].svc \in Service /\ opLock[proc[q].svc] = q
      BY <1>2, OwnService DEF IInv, Owns, At, OwnPoints
  <2> QED  BY <1>1, <1>2, <2>1 DEF Place, At
<1>3. CASE ~At(q, {"record", "observe"})
    BY <1>1, <1>3 DEF Place, At
<1> QED  BY <1>2, <1>3

\* The delivery of a bundle holds the state lock
LEMMA OneDelivery ==
    ASSUME IInv, NEW p \in Proc, NEW q \in Proc, At(q, {"deliver"}), stateLock \in {NoProc, p}
    PROVE  q = p
BY LifecycleAssumption DEF IInv, StageInv, Stage

LEMMA MarkDestroyingSettles ==
    ASSUME IInv, Settled, NEW p \in Proc, MarkDestroying(p) PROVE Settled'
<1> DEFINE s == proc[p].svc
<1>1. /\ At(p, {"mark"}) /\ stateLock = NoProc /\ phase' = [phase EXCEPT ![s] = "destroying"]
      /\ UNCHANGED <<bundle, cloud, admission>>
    BY DEF MarkDestroying, rest
<1>2. /\ \A q \in Proc \ {p} : proc'[q] = proc[q]
      /\ proc'[p].pc = "remove" /\ proc'[p].cmd = proc[p].cmd /\ proc'[p].svc = s
    BY QuietGoto DEF MarkDestroying
<1>3. s \in Service /\ opLock[s] = p /\ proc[p].cmd = "destroy"
    BY <1>1, OwnService DEF IInv, Owns, At, OwnPoints, Settled, PlaceInv, Place
<1>4. /\ phase'[s] = "destroying"
      /\ \A x \in Service : x # s => phase'[x] = phase[x]
    BY <1>1, <1>3 DEF IInv, TypeOK
<1>5. Members' = Members \ {s} /\ ActiveServices' = ActiveServices \ {s}
    BY <1>4 DEF Members, ActiveServices
<1>6. PlaceInv'
    BY <1>1, <1>2, <1>3, <1>4, OthersPlaced DEF Place, At
<1>7. ActivatingInv'
  <2> SUFFICES ASSUME NEW x \in Service, phase'[x] = "activating"
               PROVE  \E q \in Proc : At(q, {"activate"})' /\ proc'[q].svc = x
      BY DEF ActivatingInv
  <2>1. PICK q \in Proc : At(q, {"activate"}) /\ proc[q].svc = x
      BY <1>4 DEF Settled, ActivatingInv
  <2> QED  BY <1>1, <1>2, <2>1 DEF At
<1>8. DeliveringInv'
  <2> SUFFICES ASSUME NEW q \in Proc, At(q, {"deliver"})' PROVE FALSE
      BY DEF DeliveringInv
  <2>1. At(q, {"deliver"})
      BY <1>2 DEF At
  <2> QED  BY <1>1, <2>1, OneDelivery DEF At
<1>9. s \in Leaving' /\ Leaving \subseteq Leaving' /\ Joining \subseteq Joining'
  <2>1. s \in Leaving'
      BY <1>2, <1>3 DEF Leaving, At
  <2>2. \A q \in Proc : At(q, {"remove", "cleanup", "finish", "mesh", "deliver"}) => q # p
      BY <1>1 DEF At
  <2> QED  BY <1>2, <2>1, <2>2 DEF Leaving, Joining, At, Candidate
<1>10. GuestsInv'
    BY <1>1, <1>5, <1>9 DEF Settled, GuestsInv, cloud
<1>11. FirewallInv'
  <2> SUFFICES ASSUME NEW x \in ActiveServices', ~Awaiting(x)'
               PROVE  \E P \in SUBSET PeeringEntry, M \in SUBSET Service : Rendering(x, P, M)'
      BY DEF FirewallInv
  <2>1. ~Awaiting(x)
      BY <1>1, <1>2 DEF Awaiting, At
  <2>2. PICK P \in SUBSET PeeringEntry, M \in SUBSET Service : Rendering(x, P, M)
      BY <1>5, <2>1 DEF Settled, FirewallInv
  <2>3. ActiveServices' \subseteq M /\ M \subseteq Members' \cup Leaving'
      BY <1>5, <1>9, <2>2 DEF Rendering
  <2> QED  BY <1>1, <2>2, <2>3 DEF Rendering, cloud, admission
<1> QED  BY <1>6, <1>7, <1>8, <1>10, <1>11 DEF Settled

\* Where a command is about to render every active firewall
LEMMA AllAwaiting ==
    ASSUME NEW p \in Proc, At(p, {"refresh"})', ActiveServices' \subseteq proc'[p].todo
    PROVE  FirewallInv'
BY DEF FirewallInv, Awaiting, At

LEMMA VisitEffect ==
    ASSUME TypeOK, NEW p \in Proc, NEW pc, NEW services, Visit(p, pc, services)
    PROVE  /\ \A q \in Proc \ {p} : proc'[q] = proc[q]
           /\ proc'[p].pc = pc /\ proc'[p].todo = services
           /\ proc'[p].cmd = proc[p].cmd /\ proc'[p].svc = proc[p].svc
BY DEF TypeOK, Running, Visit

LEMMA ActivateSettles ==
    ASSUME IInv, Settled, NEW p \in Proc, Activate(p) PROVE Settled'
<1> DEFINE s == proc[p].svc
           active == {t \in Service : phase'[t] = "active"}
<1>1. /\ At(p, {"activate"}) /\ stateLock = NoProc
      /\ phase[s] = "activating" /\ phase' = [phase EXCEPT ![s] = "active"]
      /\ Visit(p, "refresh", active)
      /\ UNCHANGED <<bundle, cloud, admission>>
    BY DEF Activate, rest
<1>2. /\ \A q \in Proc \ {p} : proc'[q] = proc[q]
      /\ proc'[p].pc = "refresh" /\ proc'[p].todo = active
  <2> HIDE DEF active
  <2> QED  BY <1>1, VisitEffect DEF IInv
<1>3. s \in Service /\ opLock[s] = p
    BY <1>1, OwnService DEF IInv, Owns, At, OwnPoints
<1>4. phase'[s] = "active" /\ \A x \in Service : x # s => phase'[x] = phase[x]
    BY <1>1, <1>3 DEF IInv, TypeOK
<1>5. Members' = Members
    BY <1>1, <1>3, <1>4 DEF Members
<1>6. PlaceInv'
    BY <1>2, <1>3, <1>4, OthersPlaced DEF Place, At
<1>7. ActivatingInv'
  <2> SUFFICES ASSUME NEW x \in Service, phase'[x] = "activating"
               PROVE  \E q \in Proc : At(q, {"activate"})' /\ proc'[q].svc = x
      BY DEF ActivatingInv
  <2>1. PICK q \in Proc : At(q, {"activate"}) /\ proc[q].svc = x
      BY <1>4 DEF Settled, ActivatingInv
  <2>2. q # p
      BY <1>4, <2>1
  <2> QED  BY <1>2, <2>1, <2>2 DEF At
<1>8. DeliveringInv'
  <2> SUFFICES ASSUME NEW q \in Proc, At(q, {"deliver"})' PROVE FALSE
      BY DEF DeliveringInv
  <2>1. At(q, {"deliver"})
      BY <1>2 DEF At
  <2> QED  BY <1>1, <2>1, OneDelivery DEF At
<1>9. Leaving \subseteq Leaving' /\ Joining \subseteq Joining'
  <2>1. \A q \in Proc : At(q, {"remove", "cleanup", "finish", "mesh", "deliver"}) => q # p
      BY <1>1 DEF At
  <2> QED  BY <1>2, <2>1 DEF Leaving, Joining, At, Candidate
<1>10. GuestsInv'
    BY <1>1, <1>5, <1>9 DEF Settled, GuestsInv, cloud
<1>11. FirewallInv'
    BY <1>2, AllAwaiting DEF ActiveServices, At
<1> QED  BY <1>6, <1>7, <1>8, <1>10, <1>11 DEF Settled

LEMMA CandidateService ==
    ASSUME IInv, NEW p \in Proc, At(p, {"mesh", "deliver"})
    PROVE  \A s \in Candidate(p) :
             s \in Service /\ s = proc[p].svc /\ opLock[s] = p
BY OwnService DEF IInv, Owns, At, OwnCommands, Candidate

\* The steps around a refresh change no record, and deliver nothing
LEMMA RecordsKept ==
    ASSUME IInv, Settled, NEW p \in Proc, \A q \in Proc \ {p} : proc'[q] = proc[q],
           At(p, {"idle", "refresh"}), At(p, {"idle", "refresh"})',
           UNCHANGED <<phase, bundle, guest>>
    PROVE  /\ PlaceInv' /\ ActivatingInv' /\ DeliveringInv' /\ GuestsInv'
           /\ Leaving \subseteq Leaving'
<1>1. PlaceInv'
    BY OthersPlaced DEF Place, At
<1>2. ActivatingInv'
  <2> SUFFICES ASSUME NEW x \in Service, phase[x] = "activating"
               PROVE  \E q \in Proc : At(q, {"activate"})' /\ proc'[q].svc = x
      BY DEF ActivatingInv
  <2>1. PICK q \in Proc : At(q, {"activate"}) /\ proc[q].svc = x
      BY DEF Settled, ActivatingInv
  <2> QED  BY <2>1 DEF At
<1>3. Members' = Members
    BY DEF Members
<1>4. DeliveringInv'
  <2> SUFFICES ASSUME NEW q \in Proc, At(q, {"deliver"})' PROVE Delivering(q)'
      BY DEF DeliveringInv
  <2>1. proc'[q] = proc[q] /\ At(q, {"deliver"})
      BY DEF At
  <2>2. Delivering(q) /\ Candidate(q)' = Candidate(q) /\ Filter(q)' = Filter(q)
      BY <2>1 DEF Settled, DeliveringInv, Candidate, Filter
  <2> QED  BY <1>3, <2>1, <2>2 DEF Delivering
<1>5. Leaving \subseteq Leaving' /\ Joining \subseteq Joining'
  <2>1. \A q \in Proc : At(q, {"remove", "cleanup", "finish", "mesh", "deliver"}) => q # p
      BY DEF At
  <2> QED  BY <2>1 DEF Leaving, Joining, At, Candidate
<1>6. GuestsInv'
    BY <1>3, <1>5 DEF Settled, GuestsInv
<1> QED  BY <1>1, <1>2, <1>4, <1>5, <1>6

LEMMA PeeringApplySettles ==
    ASSUME IInv, Settled, NEW p \in Proc, PeeringApply(p) PROVE Settled'
<1> DEFINE active == {t \in Service : phase[t] = "active"}
           r == [Idle EXCEPT !.cmd = "apply", !.pc = "refresh", !.todo = active]
<1>1. proc[p] = Idle /\ proc' = [proc EXCEPT ![p] = r] /\ UNCHANGED <<phase, bundle, guest>>
    BY DEF PeeringApply, files, cloud
<1>2. r.pc = "refresh" /\ r.todo = active
    BY DEF Idle
<1>3. /\ \A q \in Proc \ {p} : proc'[q] = proc[q]
      /\ proc'[p].pc = "refresh" /\ proc'[p].todo = active
  <2> HIDE DEF r, active
  <2> QED  BY <1>1, <1>2 DEF IInv, TypeOK
<1>4. At(p, {"idle", "refresh"}) /\ At(p, {"idle", "refresh"})'
    BY <1>1, <1>3 DEF At, Idle
<1>5. PlaceInv' /\ ActivatingInv' /\ DeliveringInv' /\ GuestsInv'
    BY <1>1, <1>3, <1>4, RecordsKept
<1>6. FirewallInv'
    BY <1>1, <1>3, AllAwaiting DEF ActiveServices, At
<1> QED  BY <1>5, <1>6 DEF Settled

LEMMA RefreshSettles ==
    ASSUME IInv, Settled, NEW p \in Proc, Refresh(p) \/ RefreshDone(p) PROVE Settled'
<1>1. CASE Refresh(p)
  <2>1. PICK t \in proc[p].todo :
          /\ proc' = [proc EXCEPT ![p].todo = @ \ {t}]
          /\ firewall' = IF phase[t] = "active"
                         THEN [firewall EXCEPT ![t] = Rendered(t)] ELSE firewall
      BY <1>1 DEF Refresh
  <2>2. At(p, {"refresh"}) /\ UNCHANGED <<phase, bundle, guest, peerings, applied>>
      BY <1>1 DEF Refresh, files, rest, admission
  <2>3. /\ \A q \in Proc \ {p} : proc'[q] = proc[q]
        /\ proc'[p].pc = proc[p].pc /\ proc'[p].todo = proc[p].todo \ {t}
      BY <2>1 DEF IInv, TypeOK, Running
  <2>4. At(p, {"idle", "refresh"}) /\ At(p, {"idle", "refresh"})'
      BY <2>2, <2>3 DEF At
  <2>5. PlaceInv' /\ ActivatingInv' /\ DeliveringInv' /\ GuestsInv' /\ Leaving \subseteq Leaving'
      BY <2>2, <2>3, <2>4, RecordsKept
  <2>6. FirewallInv'
    <3> SUFFICES ASSUME NEW s \in ActiveServices', ~Awaiting(s)'
                 PROVE  \E P \in SUBSET PeeringEntry, M \in SUBSET Service :
                          Rendering(s, P, M)'
        BY DEF FirewallInv
    <3>0. s \in ActiveServices /\ Members' = Members /\ ActiveServices' = ActiveServices
        BY <2>2 DEF ActiveServices, Members
    <3>1. CASE s = t
      <4>1. firewall'[s] = SecurityGroup(peerings, Members \ {s}, s \in WithSsh)
          BY <2>1, <3>0, <3>1 DEF ActiveServices, Rendered, ActivePeers, IInv, TypeOK
      <4>2. Rendering(s, peerings, Members)'
          BY <2>2, <3>0, <4>1 DEF Rendering, ActiveServices, Members
      <4>3. peerings' \in SUBSET PeeringEntry /\ Members' \in SUBSET Service
          BY <2>2 DEF IInv, TypeOK, Members
      <4> QED  BY <4>2, <4>3
    <3>2. CASE s # t
      <4>1. ~Awaiting(s)
          BY <2>2, <2>3, <3>2 DEF Awaiting, At
      <4>2. PICK P \in SUBSET PeeringEntry, M \in SUBSET Service : Rendering(s, P, M)
          BY <3>0, <4>1 DEF Settled, FirewallInv
      <4>3. firewall'[s] = firewall[s]
          BY <2>1, <3>0, <3>2 DEF IInv, TypeOK, ActiveServices
      <4>4. Rendering(s, P, M)'
          BY <2>2, <2>5, <3>0, <4>2, <4>3 DEF Rendering
      <4> QED  BY <4>4
    <3> QED  BY <3>1, <3>2
  <2> QED  BY <2>5, <2>6 DEF Settled
<1>2. CASE RefreshDone(p)
  <2>1. /\ At(p, {"refresh"}) /\ proc[p].todo = {} /\ End(p)
        /\ UNCHANGED <<phase, bundle, guest, firewall, peerings, applied>>
      BY <1>2 DEF RefreshDone, files, cloud, rest, admission
  <2>2. (\A q \in Proc \ {p} : proc'[q] = proc[q]) /\ proc'[p].pc = "idle"
      BY <2>1, QuietEnd
  <2>3. At(p, {"idle", "refresh"}) /\ At(p, {"idle", "refresh"})'
      BY <2>1, <2>2 DEF At
  <2>4. PlaceInv' /\ ActivatingInv' /\ DeliveringInv' /\ GuestsInv' /\ Leaving \subseteq Leaving'
      BY <2>1, <2>2, <2>3, RecordsKept
  <2>5. FirewallInv'
    <3> SUFFICES ASSUME NEW s \in ActiveServices', ~Awaiting(s)'
                 PROVE  \E P \in SUBSET PeeringEntry, M \in SUBSET Service :
                          Rendering(s, P, M)'
        BY DEF FirewallInv
    <3>1. s \in ActiveServices /\ Members' = Members /\ ActiveServices' = ActiveServices
        BY <2>1 DEF ActiveServices, Members
    <3>2. ~Awaiting(s)
        BY <2>1, <2>2 DEF Awaiting, At
    <3>3. PICK P \in SUBSET PeeringEntry, M \in SUBSET Service : Rendering(s, P, M)
        BY <3>1, <3>2 DEF Settled, FirewallInv
    <3> QED  BY <2>1, <2>4, <3>1, <3>3 DEF Rendering
  <2> QED  BY <2>4, <2>5 DEF Settled
<1> QED  BY <1>1, <1>2

LEMMA SameSettles ==
    ASSUME Settled, UNCHANGED <<files, cloud, proc>>, applied' => applied /\ peerings' = peerings
    PROVE  Settled'
<1>1. /\ PlaceInv' /\ ActivatingInv' /\ DeliveringInv' /\ GuestsInv'
    BY DEF Settled, PlaceInv, Place, ActivatingInv, DeliveringInv, Delivering, GuestsInv,
       Members, Leaving, Joining, Candidate, Filter, At, files, cloud
<1>2. FirewallInv'
  <2> SUFFICES ASSUME NEW s \in ActiveServices', ~Awaiting(s)'
               PROVE  \E P \in SUBSET PeeringEntry, M \in SUBSET Service : Rendering(s, P, M)'
      BY DEF FirewallInv
  <2>1. /\ s \in ActiveServices /\ Members' = Members /\ ActiveServices' = ActiveServices
        /\ ~Awaiting(s) /\ Leaving' = Leaving
      BY DEF ActiveServices, Members, Awaiting, Leaving, At, files
  <2>2. PICK P \in SUBSET PeeringEntry, M \in SUBSET Service : Rendering(s, P, M)
      BY <2>1 DEF Settled, FirewallInv
  <2> QED  BY <2>1, <2>2 DEF Rendering, cloud
<1> QED  BY <1>1, <1>2 DEF Settled

LEMMA EditsSettle ==
    ASSUME Settled, PeeringAdd \/ PeeringRemove PROVE Settled'
<1>1. UNCHANGED <<files, cloud, proc>> /\ (applied' => applied /\ peerings' = peerings)
    BY DEF PeeringAdd, PeeringRemove, Edited
<1> QED  BY <1>1, SameSettles

LEMMA DeliverSettles ==
    ASSUME IInv, Settled, NEW p \in Proc, Deliver(p) PROVE Settled'
<1>1. PICK t \in proc[p].todo :
        /\ guest' = [guest EXCEPT ![t] = bundle]
        /\ proc' = [proc EXCEPT ![p].todo = @ \ {t}]
    BY DEF Deliver
<1>2. At(p, {"deliver"}) /\ UNCHANGED <<phase, bundle, firewall, peerings, applied>>
    BY DEF Deliver, files, rest, admission
<1>3. /\ \A q \in Proc \ {p} : proc'[q] = proc[q]
      /\ proc'[p].pc = proc[p].pc /\ proc'[p].todo = proc[p].todo \ {t}
      /\ proc'[p].cmd = proc[p].cmd /\ proc'[p].svc = proc[p].svc
    BY <1>1 DEF IInv, TypeOK, Running
<1>4. /\ \A q \in Proc : Candidate(q)' = Candidate(q) /\ Filter(q)' = Filter(q)
      /\ \A q \in Proc : At(q, {"deliver"})' <=> At(q, {"deliver"})
      /\ Members' = Members /\ ActiveServices' = ActiveServices
    BY <1>2, <1>3 DEF Candidate, Filter, At, Members, ActiveServices
<1>5. Leaving' = Leaving /\ Joining' = Joining
    BY <1>2, <1>3, <1>4 DEF Leaving, Joining, At
<1>6. PlaceInv'
    BY <1>2, <1>3, OthersPlaced DEF Place, At
<1>7. ActivatingInv'
    BY <1>2, <1>3 DEF Settled, ActivatingInv, At
<1>8. /\ t \in Service /\ guest'[t] = bundle
      /\ \A s \in Service : s # t => guest'[s] = guest[s]
    BY <1>1 DEF IInv, TypeOK, Running
<1>9. Delivering(p)
    BY <1>2 DEF Settled, DeliveringInv
<1>10. DeliveringInv'
  <2> SUFFICES ASSUME NEW q \in Proc, At(q, {"deliver"})' PROVE Delivering(q)'
      BY DEF DeliveringInv
  <2>1. q = p
      BY <1>2, <1>4, OneDelivery DEF IInv, StageInv, Stage
  <2>2. bundle.members \subseteq Service
      BY DEF IInv, TypeOK
  <2> QED  BY <1>2, <1>3, <1>4, <1>8, <1>9, <2>1, <2>2 DEF Delivering
<1>11. Candidate(p) \subseteq Joining
    BY <1>2, CandidateService DEF Joining, At
<1>12. GuestsInv'
    BY <1>2, <1>4, <1>5, <1>8, <1>9, <1>11 DEF Settled, GuestsInv, Delivering, Members
<1>13. FirewallInv'
  <2>1. \A s \in Service : Awaiting(s) <=> Awaiting(s)'
      BY <1>2, <1>3 DEF Awaiting, At
  <2> QED  BY <1>2, <1>4, <1>5, <2>1 DEF Settled, FirewallInv, Rendering, ActiveServices
<1> QED  BY <1>6, <1>7, <1>10, <1>12, <1>13 DEF Settled

LEMMA AfterMeshPlaces ==
    ASSUME IInv, NEW p \in Proc, AfterMesh(p)
    PROVE  /\ \A q \in Proc \ {p} : proc'[q] = proc[q]
           /\ \/ /\ proc[p].cmd = "destroy" /\ proc'[p].pc = "refresh"
                 /\ proc'[p].todo = ActiveServices
              \/ /\ proc[p].cmd # "destroy" /\ Candidate(p) # {}
                 /\ proc'[p].pc = "activate" /\ proc'[p].svc = proc[p].svc
              \/ proc[p].cmd # "destroy" /\ Candidate(p) = {} /\ proc'[p].pc = "idle"
<1>1. CASE proc[p].cmd = "destroy"
  <2>1. Visit(p, "refresh", ActiveServices)
      BY <1>1 DEF AfterMesh, ActiveServices, Candidate
  <2> QED  BY <1>1, <2>1, VisitEffect DEF IInv
<1>2. CASE proc[p].cmd # "destroy" /\ Candidate(p) # {}
  <2>1. Goto(p, "activate")
      BY <1>2 DEF AfterMesh
  <2> QED  BY <1>2, <2>1, GotoEffect DEF IInv
<1>3. CASE proc[p].cmd # "destroy" /\ Candidate(p) = {}
  <2>1. End(p)
      BY <1>3 DEF AfterMesh
  <2> QED  BY <1>3, <2>1, EndEffect DEF IInv
<1> QED  BY <1>1, <1>2, <1>3

LEMMA MeshBeginSettles ==
    ASSUME IInv, Settled, NEW p \in Proc, MeshBegin(p) PROVE Settled'
<1> DEFINE members == Members \cup Candidate(p)
           targets == IF Filter(p) = {} THEN members ELSE Filter(p)
<1>1. /\ At(p, {"mesh"}) /\ stateLock \in {NoProc, p} /\ Filter(p) \subseteq Members
      /\ UNCHANGED <<phase, firewall, guest, peerings, applied>>
    BY DEF MeshBegin, cloud, rest, admission
<1>2. Members' = Members /\ ActiveServices' = ActiveServices /\ ActiveServices \subseteq Members
    BY <1>1 DEF Members, ActiveServices
<1>3. \A q \in Proc : ~At(q, {"deliver"})
    BY <1>1, OneDelivery DEF At
<1>4. CASE members = {}
  <2>1. /\ \A q \in Proc \ {p} : proc'[q] = proc[q]
        /\ proc'[p].pc \in {"refresh", "idle"}
      BY <1>4, AfterMeshPlaces DEF MeshBegin
  <2>2. PlaceInv'
      BY <1>1, <2>1, OthersPlaced DEF Place, At
  <2>3. ActivatingInv' /\ GuestsInv' /\ FirewallInv'
      BY <1>1, <1>2, <1>4 DEF ActivatingInv, GuestsInv, FirewallInv, Members
  <2>4. DeliveringInv'
      BY <1>3, <2>1 DEF DeliveringInv, At
  <2> QED  BY <2>2, <2>3, <2>4 DEF Settled
<1>5. CASE members # {}
  <2>1. bundle'.members = members /\ Visit(p, "deliver", targets)
      BY <1>5 DEF MeshBegin
  <2>2. /\ \A q \in Proc \ {p} : proc'[q] = proc[q]
        /\ proc'[p].pc = "deliver" /\ proc'[p].todo = targets
        /\ proc'[p].cmd = proc[p].cmd /\ proc'[p].svc = proc[p].svc
    <3> HIDE DEF targets
    <3> QED  BY <2>1, VisitEffect DEF IInv
  <2>3. PlaceInv'
      BY <1>1, <2>2, OthersPlaced DEF Place, At
  <2>4. ActivatingInv'
    <3> SUFFICES ASSUME NEW x \in Service, phase[x] = "activating"
                 PROVE  \E q \in Proc : At(q, {"activate"})' /\ proc'[q].svc = x
        BY <1>1 DEF ActivatingInv
    <3>1. PICK q \in Proc : At(q, {"activate"}) /\ proc[q].svc = x
        BY DEF Settled, ActivatingInv
    <3> QED  BY <1>1, <2>2, <3>1 DEF At
  <2>5. DeliveringInv'
    <3> SUFFICES ASSUME NEW q \in Proc, At(q, {"deliver"})' PROVE Delivering(q)'
        BY DEF DeliveringInv
    <3>1. q = p
        BY <1>3, <2>2 DEF At
    <3>2. Candidate(p)' = Candidate(p) /\ Filter(p)' = Filter(p)
        BY <2>2 DEF Candidate, Filter
    <3> QED  BY <1>1, <1>2, <2>1, <2>2, <3>1, <3>2 DEF Delivering
  <2>6. Leaving \subseteq Leaving' /\ Joining \subseteq Joining'
    <3>1. ASSUME NEW s \in Leaving PROVE s \in Leaving'
      <4>1. PICK q \in Proc :
              /\ proc[q].cmd = "destroy" /\ proc[q].svc = s
              /\ At(q, {"remove", "cleanup", "finish", "mesh", "deliver"})
          BY DEF Leaving
      <4>2. CASE q = p
          BY <2>2, <4>1, <4>2 DEF Leaving, At
      <4>3. CASE q # p
          BY <2>2, <4>1, <4>3 DEF Leaving, At
      <4> QED  BY <4>2, <4>3
    <3>2. Joining = {}
        BY <1>3 DEF Joining
    <3> QED  BY <3>1, <3>2
  <2>7. GuestsInv'
      BY <1>1, <1>2, <2>6 DEF Settled, GuestsInv
  <2>8. FirewallInv'
    <3> SUFFICES ASSUME NEW s \in ActiveServices', ~Awaiting(s)'
                 PROVE  \E P \in SUBSET PeeringEntry, M \in SUBSET Service :
                          Rendering(s, P, M)'
        BY DEF FirewallInv
    <3>1. ~Awaiting(s)
        BY <1>1, <2>2 DEF Awaiting, At
    <3>2. PICK P \in SUBSET PeeringEntry, M \in SUBSET Service : Rendering(s, P, M)
        BY <1>2, <3>1 DEF Settled, FirewallInv
    <3> QED  BY <1>1, <1>2, <2>6, <3>2 DEF Rendering
  <2> QED  BY <2>3, <2>4, <2>5, <2>7, <2>8 DEF Settled
<1> QED  BY <1>4, <1>5

LEMMA MeshCommitSettles ==
    ASSUME IInv, Settled, NEW p \in Proc, MeshCommit(p) PROVE Settled'
<1>1. /\ At(p, {"deliver"}) /\ proc[p].todo = {} /\ AfterMesh(p)
      /\ phase' = [s \in Service |-> IF s \in Candidate(p) THEN "activating" ELSE phase[s]]
      /\ UNCHANGED <<bundle, firewall, guest, peerings, applied>>
    BY DEF MeshCommit, cloud, rest, admission
<1>2. /\ \A q \in Proc \ {p} : proc'[q] = proc[q]
      /\ proc'[p].pc \in {"refresh", "activate", "idle"}
    BY <1>1, AfterMeshPlaces
<1>3. Delivering(p) /\ stateLock = p
    BY <1>1 DEF Settled, DeliveringInv, IInv, StageInv, Stage
<1>4. \A q \in Proc \ {p} : ~At(q, {"deliver"})
    BY <1>3, OneDelivery
<1>5. \A s \in Candidate(p) : s \in Service /\ s = proc[p].svc /\ opLock[s] = p
    BY <1>1, CandidateService DEF At
<1>6. Members' = Members \cup Candidate(p) /\ ActiveServices' \subseteq ActiveServices
    BY <1>1, <1>5 DEF Members, ActiveServices
<1>7. PlaceInv'
    BY <1>1, <1>2, <1>5, OthersPlaced DEF Place, At
<1>8. ActivatingInv'
  <2> SUFFICES ASSUME NEW x \in Service, phase'[x] = "activating"
               PROVE  \E q \in Proc : At(q, {"activate"})' /\ proc'[q].svc = x
      BY DEF ActivatingInv
  <2>1. CASE x \in Candidate(p)
    <3>1. proc'[p].pc = "activate" /\ proc'[p].svc = proc[p].svc
        BY <1>1, <2>1, AfterMeshPlaces DEF Candidate
    <3> QED  BY <1>5, <2>1, <3>1 DEF At
  <2>2. CASE x \notin Candidate(p)
    <3>1. PICK q \in Proc : At(q, {"activate"}) /\ proc[q].svc = x
        BY <1>1, <2>2 DEF Settled, ActivatingInv
    <3> QED  BY <1>1, <1>2, <3>1 DEF At
  <2> QED  BY <2>1, <2>2
<1>9. DeliveringInv'
    BY <1>2, <1>4 DEF DeliveringInv, At
<1>10. proc[p].cmd # "destroy" => Leaving \subseteq Leaving'
    BY <1>2 DEF Leaving, At
<1>11. GuestsInv'
  <2>1. CASE Filter(p) = {}
      BY <1>1, <1>3, <1>6, <2>1 DEF Delivering, GuestsInv
  <2>2. CASE Filter(p) # {}
    <3>1. proc[p].cmd # "destroy" /\ Candidate(p) = {}
        BY <2>2 DEF Filter, Candidate
    <3>2. Joining \subseteq Joining'
        BY <1>2, <3>1 DEF Joining, At, Candidate
    <3> QED  BY <1>1, <1>6, <1>10, <3>1, <3>2 DEF Settled, GuestsInv
  <2> QED  BY <2>1, <2>2
<1>12. FirewallInv'
  <2>1. CASE proc[p].cmd = "destroy"
    <3>1. proc'[p].pc = "refresh" /\ proc'[p].todo = ActiveServices
        BY <1>1, <2>1, AfterMeshPlaces
    <3> QED  BY <1>6, <3>1, AllAwaiting DEF At
  <2>2. CASE proc[p].cmd # "destroy"
    <3> SUFFICES ASSUME NEW s \in ActiveServices', ~Awaiting(s)'
                 PROVE  \E P \in SUBSET PeeringEntry, M \in SUBSET Service :
                          Rendering(s, P, M)'
        BY DEF FirewallInv
    <3>1. ~Awaiting(s)
        BY <1>1, <1>2 DEF Awaiting, At
    <3>2. PICK P \in SUBSET PeeringEntry, M \in SUBSET Service : Rendering(s, P, M)
        BY <1>6, <3>1 DEF Settled, FirewallInv
    <3>3. ActiveServices' \subseteq M /\ M \subseteq Members' \cup Leaving'
        BY <1>6, <1>10, <2>2, <3>2 DEF Rendering
    <3> QED  BY <1>1, <3>2, <3>3 DEF Rendering
  <2> QED  BY <2>1, <2>2
<1> QED  BY <1>7, <1>8, <1>9, <1>11, <1>12 DEF Settled

LEMMA InitSettles == Init => SettlingInv
<1> SUFFICES ASSUME Init PROVE Settled
    BY DEF SettlingInv
<1>1. /\ \A p \in Proc : proc[p].pc = "idle"
      /\ \A s \in Service : phase[s] = "built"
    BY DEF Init, Idle
<1> QED  BY <1>1 DEF Settled, PlaceInv, Place, ActivatingInv, DeliveringInv, GuestsInv, Members,
            FirewallInv, ActiveServices, At

LEMMA NextSettles == IInv /\ SettlingInv /\ [Next]_vars => SettlingInv'
<1> SUFFICES ASSUME IInv, SettlingInv, [Next]_vars, ~faulty' PROVE Settled'
    BY DEF SettlingInv
<1>1. ~faulty /\ \A p \in Proc : ~Fail(p) /\ ~Crash(p)
  <2>1. \A p \in Proc : ~Fail(p) /\ ~Crash(p)
      BY DEF Fail, Crash
  <2>2. ASSUME NEW p \in Proc, Command(p) PROVE faulty' = faulty
      BY <2>2 DEF Command, BuildStart, Start, Forget, MeshSync, TrusteeSync, DeployStart,
         ResumeStart, InjectStart, DestroyStart, PeeringApply, MigrateRead
  <2>3. ASSUME NEW p \in Proc, Step(p) PROVE faulty' = faulty
      BY <2>1, <2>3 DEF Step, BuildCommit, SyncBegin, SyncCommit, RecordAttempt, Launch, Observe,
         Activate, MeshBegin, Deliver, MeshCommit, Refresh, RefreshDone, Revoke, MarkDestroying,
         RemoveInfra, Cleanup, Report, FinishDestroy, MigrateWrite, rest
  <2> QED  BY <2>1, <2>2, <2>3 DEF Next, PeeringAdd, PeeringRemove, vars, rest
<1>2. Settled
    BY <1>1 DEF SettlingInv
<1>3. CASE UNCHANGED vars
  <2>1. UNCHANGED <<files, cloud, proc, admission>>
      BY <1>3 DEF vars, rest
  <2>2. applied' => applied /\ peerings' = peerings
      BY <2>1 DEF admission
  <2> QED  BY <1>2, <2>1, <2>2, SameSettles
<1>4. ASSUME NEW p \in Proc, Command(p) PROVE Settled'
    BY <1>2, <1>4, StartsSettle, UnlockedStartsSettle, PeeringApplySettles DEF Command
<1>5. ASSUME NEW p \in Proc, Step(p) PROVE Settled'
    BY <1>1, <1>2, <1>5, WorkSettles, WithdrawalSettles, MarkDestroyingSettles, ActivateSettles,
       MeshBeginSettles, DeliverSettles, MeshCommitSettles, RefreshSettles DEF Step
<1> QED  BY <1>1, <1>2, <1>3, <1>4, <1>5, EditsSettle DEF Next

\* When every command has ended without an error, each active service's guests
\* have the list of the members and its firewall was rendered for exactly them,
\* and once `peering apply' ran for the entries of peerings.yaml, however the
\* commands of any number of services and the edits overlapped.
THEOREM MeshesSettle == Spec => []MeshSettles
<1>1. IInv /\ SettlingInv => MeshSettles
  <2> SUFFICES ASSUME IInv, SettlingInv, Quiet, NEW s \in Service, phase[s] = "active"
               PROVE  KnowsMembers(s)
      BY DEF MeshSettles
  <2>1. Settled /\ \A p \in Proc : proc[p].pc = "idle"
      BY DEF SettlingInv, Quiet, Idle
  <2>2. Leaving = {} /\ Joining = {} /\ ~Awaiting(s)
      BY <2>1 DEF Leaving, Joining, Awaiting, At
  <2>3. Members = ActiveServices /\ s \in ActiveServices
      BY <2>1 DEF Settled, ActivatingInv, At, Members, ActiveServices
  <2>4. guest[s].members = Members
      BY <2>1, <2>2, <2>3 DEF Settled, GuestsInv
  <2>5. PICK P \in SUBSET PeeringEntry, M \in SUBSET Service : Rendering(s, P, M)
      BY <2>1, <2>2, <2>3 DEF Settled, FirewallInv
  <2>6. M = Members
      BY <2>2, <2>3, <2>5 DEF Rendering
  <2> QED  BY <2>4, <2>5, <2>6 DEF KnowsMembers, Rendering, ActivePeers
<1> QED  BY <1>1, InitIInv, NextIInv, InitSettles, NextSettles, PTL DEF Spec

=============================================================================
