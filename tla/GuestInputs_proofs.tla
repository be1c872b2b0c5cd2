------------------------ MODULE GuestInputs_proofs -------------------------
(* What a guest is given.  It boots in the mode of its user data, with the   *)
(* key of its disk and the identity of its deployment, for every deadline,   *)
(* any number of contents, edits and boots.  And what the application has    *)
(* made of its resources stays its own, for any resources, contents and      *)
(* bootstraps, and any number of failures.                                   *)
EXTENDS Delivery, GuestResources, TLAPS

-----------------------------------------------------------------------------
(* The boot and what is delivered for it *)

BootConfig == [mode: Mode, gateway: Version, app: Version]
AppSpec == [mode: Mode, infra: Version, rev: Version]
Frozen == [Input -> Version]
Steps == {"freeze", "render", "bootstrap", "disk", "prepare", "record",
          "launch", "confirm", "finish"}
Delivering == {"resume", "inject", "sync"}
JobRecord == [op: {"deploy"} \cup Delivering, step: Steps, spec: AppSpec,
              inputs: UNION {[s -> Version] : s \in SUBSET Input},
              bootstrap: BootConfig \cup {Absent}]
Stored(f) ==
    /\ f = [r \in Resource |-> f[r]]
    /\ f["bootstrap"] \in BootConfig \cup {Absent}
    /\ f["disk"] \in Version \cup {Absent}

GuestType ==
    /\ point \in {"off", "failed", "unlock"} \cup InInitrd \cup InRootfs
    /\ userdata \in {"none", "runtime"} /\ Stored(cdh) /\ Stored(kbs)
    /\ mode \in {"none"} \cup Mode /\ want \in Resource /\ Stored(got)
    /\ staged \in Version \cup {Absent}
    /\ child \in {"none", "running", "exited"}
    /\ answer # Absent => answer \in (IF want = "disk" THEN Version ELSE BootConfig)
TimeType == left \in Nat /\ budget \in Nat /\ readyIn \in Nat
FlagType ==
    /\ runtime \in BOOLEAN /\ measured \in BOOLEAN
    /\ agent \in BOOLEAN /\ heirs \in BOOLEAN
RecordType ==
    /\ file \in Frozen /\ spec \in AppSpec
    /\ phase \in {"built", "deploying", "deployed", "active"}
    /\ manifest \in [spec: AppSpec, inputs: Frozen \cup {NoInputs}]
    /\ injected \in BOOLEAN
    /\ diskKey \in Version \cup {Absent} /\ served \subseteq BootConfig
OperatorType == RecordType /\ job \in JobRecord \cup {NoJob}

\* The mode is decided once, in the initrd, and everything else follows it
ModeInv ==
    /\ point \notin {"off", "detect", "failed"} =>
          mode = (IF userdata = "runtime" THEN "trustee" ELSE "challenge")
    /\ point \in {"stage", "persist", "unlock"} \cup InRootfs =>
          got["bootstrap"].mode = mode
    /\ point \in {"unlock"} \cup InRootfs => (runtime <=> mode = "trustee")
    /\ point \in {"register", "serve"} => daemonMode = mode
    /\ point = "serve" /\ mode = "trustee" => measured

\* A fetch from the KBS is one of a Trustee guest, and its helpers are its own
FetchInv ==
    /\ point \in {"token", "run", "join"} => mode = "trustee"
    /\ point \notin {"run", "join"} => answer = Absent
    /\ HelpersBounded

\* What has been consumed is there when it is used
ConsumedInv ==
    /\ want = "disk" => got["bootstrap"] \in BootConfig
    /\ point \in {"validate", "stage", "persist", "unlock"} =>
          want = "disk" /\ got["disk"] # Absent
    /\ point \in {"persist", "unlock"} => staged = got["disk"]

Uploads == job.spec.mode = "trustee"
DeployInv ==
    /\ job.step # "finish"
    /\ IF job.step \in {"launch", "confirm"}
       THEN phase = "deploying" /\ job.spec = manifest.spec
                                /\ job.inputs = manifest.inputs
       ELSE phase = "built"
    /\ job.step # "freeze" => DOMAIN job.inputs = Input
    /\ job.step \in {"render", "bootstrap", "disk"} => Uploads
    /\ job.step \in {"prepare", "record"} /\ Uploads => kbs["disk"] = job.inputs["disk"]
DeliverInv ==
    /\ job.step \in {"render", "bootstrap", "disk", "finish"}
    /\ phase # "built"
    /\ job.spec = manifest.spec /\ job.inputs = manifest.inputs
    /\ job.op # "resume" => injected
JobInv ==
    /\ job # NoJob => IF job.op = "deploy" THEN DeployInv ELSE DeliverInv
    /\ job # NoJob /\ job.step \in {"bootstrap", "disk"} => job.bootstrap \in BootConfig

\* The instance and the records
InstanceInv ==
    /\ phase = "built" => point = "off"
    /\ point = "off" =>
          /\ diskKey = Absent /\ served = {} /\ staged = Absent
          /\ cdh = NothingGot /\ got = NothingGot /\ want = "bootstrap"
    /\ point # "off" =>
          userdata = IF manifest.spec.mode = "trustee" THEN "runtime" ELSE "none"
    /\ manifest.inputs = NoInputs /\ phase # "built" =>
          job = NoJob /\ manifest.spec.mode = "trustee"

\* One key is under way to an instance: the one frozen for it
Trusted == manifest.spec.mode = "trustee"
Key == IF Trusted THEN kbs["disk"] ELSE manifest.inputs["disk"]
KeyInv ==
    phase # "built" =>
        /\ Key \in Version
        /\ manifest.inputs # NoInputs => manifest.inputs["disk"] = Key
        /\ diskKey \in {Absent, Key} /\ staged \in {Absent, Key}
        /\ cdh["disk"] \in {Absent, Key} /\ got["disk"] \in {Absent, Key}
        /\ want = "disk" => answer \in {Absent, Key}

DeliveryInv ==
    /\ GuestType /\ TimeType /\ FlagType /\ OperatorType
    /\ ModeInv /\ FetchInv /\ ConsumedInv /\ JobInv /\ InstanceInv /\ KeyInv

\* And one gateway identity, with the resources frozen beside it or those of a
\* later inject
Gateway == IF Trusted THEN kbs["bootstrap"].gateway ELSE manifest.inputs["gateway"]
Suits(b) ==
    /\ b.gateway = Gateway
    /\ manifest.inputs # NoInputs => b.app = manifest.inputs["app"] \/ injected
RenderedInv ==
    /\ job # NoJob /\ "gateway" \in DOMAIN job.inputs =>
          file["gateway"] = job.inputs["gateway"]
    /\ job # NoJob /\ job.step \in {"bootstrap", "disk", "prepare", "record"}
          /\ (job.op = "deploy" => Uploads) =>
          /\ job.bootstrap \in BootConfig
          /\ job.bootstrap.gateway = job.inputs["gateway"]
          /\ job.bootstrap.app = job.inputs["app"] \/ job.op \in {"inject", "sync"}
    /\ job # NoJob /\ job.op = "deploy" /\ Uploads
          /\ job.step \in {"disk", "prepare", "record"} =>
          kbs["bootstrap"] = job.bootstrap
BoundInv ==
    phase # "built" =>
        /\ Trusted => kbs["bootstrap"] \in BootConfig /\ Suits(kbs["bootstrap"])
        /\ manifest.inputs # NoInputs => manifest.inputs["gateway"] = Gateway
        /\ cdh["bootstrap"] # Absent => Suits(cdh["bootstrap"])
        /\ want = "disk" => Suits(got["bootstrap"])
        /\ want = "bootstrap" /\ answer # Absent => Suits(answer)
        /\ \A b \in served : Suits(b)
FrozenInv == RenderedInv /\ BoundInv

GuestInv == GuestType /\ TimeType /\ FlagType /\ ModeInv /\ FetchInv /\ ConsumedInv

LEMMA OutOfTimeStep ==
    ASSUME DeliveryInv, OutOfTime, UNCHANGED <<operator, instance>>
    PROVE  GuestInv' /\ InstanceInv' /\ KeyInv'
<1> USE BootAssumption, DeliveryAssumption
    DEF DeliveryInv, InInitrd, InRootfs, OutOfTime, FailClosed, HelpersIdle,
       operator, instance, outside, booting, helpers
<1>1. GuestType'
    BY DEF GuestType
<1>2. TimeType'
    BY DEF TimeType
<1>3. FlagType'
    BY DEF FlagType
<1>4. ModeInv' /\ FetchInv' /\ ConsumedInv'
    BY DEF ModeInv, FetchInv, HelpersBounded, TimeType, ConsumedInv
<1>7. InstanceInv' /\ KeyInv'
    BY DEF InstanceInv, KeyInv, Key, Trusted
<1> QED  BY <1>1, <1>2, <1>3, <1>4, <1>7 DEF GuestInv

LEMMA DetectStep ==
    ASSUME DeliveryInv, Detect, UNCHANGED <<operator, instance>>
    PROVE  GuestInv' /\ InstanceInv' /\ KeyInv'
<1> USE BootAssumption, DeliveryAssumption
    DEF DeliveryInv, InInitrd, InRootfs, Detect, DetectChallenge, DetectTrustee,
       QueryFails, FailClosed, HelpersIdle, Canonical, operator, instance, outside,
       booting, helpers
<1>1. GuestType'
    BY DEF GuestType, Mode
<1>2. TimeType'
    BY DEF TimeType
<1>3. FlagType'
    BY DEF FlagType
<1>4. ModeInv' /\ FetchInv' /\ ConsumedInv'
    BY DEF ModeInv, FetchInv, HelpersBounded, TimeType, ConsumedInv
<1>7. InstanceInv' /\ KeyInv'
    BY DEF InstanceInv, KeyInv, Key, Trusted
<1> QED  BY <1>1, <1>2, <1>3, <1>4, <1>7 DEF GuestInv

LEMMA MeasureStep ==
    ASSUME DeliveryInv, Measure, UNCHANGED <<operator, instance>>
    PROVE  GuestInv' /\ InstanceInv' /\ KeyInv'
<1> USE BootAssumption, DeliveryAssumption
    DEF DeliveryInv, InInitrd, InRootfs, Measure, Retry, FailClosed, HelpersIdle,
       operator, instance, outside, booting, helpers
<1>0. /\ UNCHANGED <<operator, instance, outside>>
      /\ \/ point' = "fetch" /\ UNCHANGED <<left, budget, readyIn, agent, child, heirs, answer>>
         \/ point' \in {"failed", "measure"} /\ UNCHANGED left /\ HelpersIdle
    OBVIOUS
<1>00. UNCHANGED <<mode, want, got, staged, runtime, daemonMode>>
    OBVIOUS
<1>1. GuestType'
    BY <1>0, <1>00 DEF GuestType
<1>2. TimeType'
    BY <1>0 DEF TimeType
<1>3. FlagType'
    BY DEF FlagType
<1>4. ModeInv' /\ FetchInv' /\ ConsumedInv'
    BY <1>0, <1>00 DEF ModeInv, FetchInv, HelpersBounded, TimeType, ConsumedInv
<1>7. InstanceInv' /\ KeyInv'
    BY DEF InstanceInv, KeyInv, Key, Trusted
<1> QED  BY <1>1, <1>2, <1>3, <1>4, <1>7 DEF GuestInv

LEMMA ReadInjectedStep ==
    ASSUME DeliveryInv, ReadInjected, UNCHANGED <<operator, instance>>
    PROVE  GuestInv' /\ InstanceInv' /\ KeyInv'
<1> USE BootAssumption, DeliveryAssumption
    DEF DeliveryInv, InInitrd, InRootfs, ReadInjected, Consume, HelpersIdle,
       operator, instance, outside, booting, helpers
<1>1. GuestType' /\ TimeType' /\ FlagType'
    BY DEF GuestType, Stored, Resource, TimeType, FlagType
<1>4. ModeInv' /\ FetchInv' /\ ConsumedInv'
    BY DEF ModeInv, GuestType, Stored, Resource, FetchInv, HelpersBounded, TimeType,
       ConsumedInv
<1>7. InstanceInv' /\ KeyInv'
    BY DEF InstanceInv, KeyInv, Key, Trusted
<1> QED  BY <1>1, <1>4, <1>7 DEF GuestInv

LEMMA StartAgentStep ==
    ASSUME DeliveryInv, StartAgent, UNCHANGED <<operator, instance>>
    PROVE  GuestInv' /\ InstanceInv' /\ KeyInv'
<1> USE BootAssumption, DeliveryAssumption
    DEF DeliveryInv, InInitrd, InRootfs, StartAgent, FetchTimeout, Least, operator,
       instance, outside, booting, helpers
<1>1. GuestType' /\ TimeType' /\ FlagType'
    BY DEF GuestType, TimeType, FlagType
<1>4. ModeInv' /\ FetchInv' /\ ConsumedInv'
    BY DEF ModeInv, FetchInv, HelpersBounded, TimeType, ConsumedInv
<1>7. InstanceInv' /\ KeyInv'
    BY DEF InstanceInv, KeyInv, Key, Trusted
<1> QED  BY <1>1, <1>4, <1>7 DEF GuestInv

LEMMA AgentReadyStep ==
    ASSUME DeliveryInv, AgentReady, UNCHANGED <<operator, instance>>
    PROVE  GuestInv' /\ InstanceInv' /\ KeyInv'
<1> USE BootAssumption, DeliveryAssumption
    DEF DeliveryInv, InInitrd, InRootfs, AgentReady, operator, instance, outside,
       booting, helpers
<1>1. GuestType' /\ TimeType' /\ FlagType'
    BY DEF GuestType, TimeType, FlagType
<1>4. ModeInv' /\ FetchInv' /\ ConsumedInv'
    BY DEF ModeInv, FetchInv, HelpersBounded, ConsumedInv
<1>7. InstanceInv' /\ KeyInv'
    BY DEF InstanceInv, KeyInv, Key, Trusted
<1> QED  BY <1>1, <1>4, <1>7 DEF GuestInv

LEMMA AgentFailsStep ==
    ASSUME DeliveryInv, AgentFails, UNCHANGED <<operator, instance>>
    PROVE  GuestInv' /\ InstanceInv' /\ KeyInv'
<1> USE BootAssumption, DeliveryAssumption
    DEF DeliveryInv, InInitrd, InRootfs, AgentFails, Retry, FailClosed, HelpersIdle,
       operator, instance, outside, booting, helpers
<1>1. GuestType'
    BY DEF GuestType
<1>2. TimeType'
    BY DEF TimeType
<1>3. FlagType'
    BY DEF FlagType
<1>4. ModeInv' /\ FetchInv' /\ ConsumedInv'
    BY DEF ModeInv, FetchInv, HelpersBounded, TimeType, ConsumedInv
<1>7. InstanceInv' /\ KeyInv'
    BY DEF InstanceInv, KeyInv, Key, Trusted
<1> QED  BY <1>1, <1>2, <1>3, <1>4, <1>7 DEF GuestInv

LEMMA ReapStep ==
    ASSUME DeliveryInv, Reap, UNCHANGED <<operator, instance>>
    PROVE  GuestInv' /\ InstanceInv' /\ KeyInv'
<1> USE BootAssumption, DeliveryAssumption
    DEF DeliveryInv, InInitrd, InRootfs, Reap, operator, instance, outside, booting,
       helpers
<1>1. GuestType'
    BY DEF GuestType
<1>2. TimeType'
    BY DEF TimeType
<1>3. FlagType'
    BY DEF FlagType
<1>4. ModeInv' /\ FetchInv' /\ ConsumedInv'
    BY DEF ModeInv, FetchInv, HelpersBounded, ConsumedInv
<1>7. InstanceInv' /\ KeyInv'
    BY DEF InstanceInv, KeyInv, Key, Trusted
<1> QED  BY <1>1, <1>2, <1>3, <1>4, <1>7 DEF GuestInv

LEMMA KillGroupStep ==
    ASSUME DeliveryInv, KillGroup, UNCHANGED <<operator, instance>>
    PROVE  GuestInv' /\ InstanceInv' /\ KeyInv'
<1> USE BootAssumption, DeliveryAssumption
    DEF DeliveryInv, InInitrd, InRootfs, KillGroup, operator, instance, outside,
       booting, helpers
<1>1. GuestType'
    BY DEF GuestType
<1>2. TimeType'
    BY DEF TimeType
<1>3. FlagType'
    BY DEF FlagType
<1>4. ModeInv' /\ FetchInv' /\ ConsumedInv'
    BY DEF ModeInv, FetchInv, HelpersBounded, ConsumedInv
<1>7. InstanceInv' /\ KeyInv'
    BY DEF InstanceInv, KeyInv, Key, Trusted
<1> QED  BY <1>1, <1>2, <1>3, <1>4, <1>7 DEF GuestInv

LEMMA JoinStep ==
    ASSUME DeliveryInv, Join, UNCHANGED <<operator, instance>>
    PROVE  GuestInv' /\ InstanceInv' /\ KeyInv'
<1> USE BootAssumption, DeliveryAssumption
    DEF DeliveryInv, InInitrd, InRootfs, Join, Retry, FailClosed, Consume,
       HelpersIdle, operator, instance, outside, booting, helpers
<1>1. GuestType'
    BY DEF GuestType, Stored, Resource
<1>2. TimeType'
    BY DEF TimeType
<1>3. FlagType'
    BY DEF FlagType
<1>4. ModeInv' /\ FetchInv' /\ ConsumedInv'
    BY DEF ModeInv, GuestType, Stored, Resource, FetchInv, HelpersBounded, TimeType,
       ConsumedInv
<1>7. InstanceInv' /\ KeyInv'
    BY DEF InstanceInv, GuestType, KeyInv, Key, Trusted, Stored, Resource
<1> QED  BY <1>1, <1>2, <1>3, <1>4, <1>7 DEF GuestInv

LEMMA ValidateStep ==
    ASSUME DeliveryInv, Validate, UNCHANGED <<operator, instance>>
    PROVE  GuestInv' /\ InstanceInv' /\ KeyInv'
<1> USE BootAssumption, DeliveryAssumption
    DEF DeliveryInv, InInitrd, InRootfs, Validate, FailClosed, HelpersIdle,
       operator, instance, outside, booting, helpers
<1>1. GuestType'
    BY DEF GuestType
<1>2. TimeType'
    BY DEF TimeType
<1>3. FlagType'
    BY DEF FlagType
<1>4. ModeInv' /\ FetchInv' /\ ConsumedInv'
    BY DEF ModeInv, FetchInv, HelpersBounded, TimeType, ConsumedInv
<1>7. InstanceInv' /\ KeyInv'
    BY DEF InstanceInv, KeyInv, Key, Trusted
<1> QED  BY <1>1, <1>2, <1>3, <1>4, <1>7 DEF GuestInv

LEMMA StageStep ==
    ASSUME DeliveryInv, Stage, UNCHANGED <<operator, instance>>
    PROVE  GuestInv' /\ InstanceInv' /\ KeyInv'
<1> USE BootAssumption, DeliveryAssumption
    DEF DeliveryInv, InInitrd, InRootfs, Stage, operator, instance, outside,
       booting, helpers
<1>1. GuestType' /\ TimeType' /\ FlagType'
    BY DEF GuestType, Stored, TimeType, FlagType
<1>4. ModeInv' /\ FetchInv' /\ ConsumedInv'
    BY DEF ModeInv, FetchInv, HelpersBounded, ConsumedInv
<1>7. InstanceInv' /\ KeyInv'
    BY DEF InstanceInv, KeyInv, Key, Trusted
<1> QED  BY <1>1, <1>4, <1>7 DEF GuestInv

LEMMA PersistStep ==
    ASSUME DeliveryInv, Persist, UNCHANGED <<operator, instance>>
    PROVE  GuestInv' /\ InstanceInv' /\ KeyInv'
<1> USE BootAssumption, DeliveryAssumption
    DEF DeliveryInv, InInitrd, InRootfs, Persist, operator, instance, outside,
       booting, helpers
<1>1. GuestType'
    BY DEF GuestType
<1>2. TimeType'
    BY DEF TimeType
<1>3. FlagType'
    BY DEF FlagType
<1>4. ModeInv' /\ FetchInv' /\ ConsumedInv'
    BY DEF ModeInv, FetchInv, HelpersBounded, ConsumedInv
<1>7. InstanceInv' /\ KeyInv'
    BY DEF InstanceInv, KeyInv, Key, Trusted
<1> QED  BY <1>1, <1>2, <1>3, <1>4, <1>7 DEF GuestInv

LEMMA LoadRuntimeStep ==
    ASSUME DeliveryInv, LoadRuntime, UNCHANGED <<operator, instance>>
    PROVE  GuestInv' /\ InstanceInv' /\ KeyInv'
<1> USE BootAssumption, DeliveryAssumption
    DEF DeliveryInv, InInitrd, InRootfs, LoadRuntime, operator, instance, outside,
       booting, helpers
<1>1. GuestType' /\ TimeType' /\ FlagType'
    BY DEF GuestType, TimeType, FlagType
<1>4. ModeInv' /\ FetchInv' /\ ConsumedInv'
    BY DEF ModeInv, FetchInv, HelpersBounded, ConsumedInv
<1>7. InstanceInv' /\ KeyInv'
    BY DEF InstanceInv, KeyInv, Key, Trusted
<1> QED  BY <1>1, <1>4, <1>7 DEF GuestInv

LEMMA RegisterStep ==
    ASSUME DeliveryInv, Register, UNCHANGED <<operator, instance>>
    PROVE  GuestInv' /\ InstanceInv' /\ KeyInv'
<1> USE BootAssumption, DeliveryAssumption
    DEF DeliveryInv, InInitrd, InRootfs, Register, operator, instance, outside,
       booting, helpers
<1>0. point' \in {"serve", "load"}
      /\ UNCHANGED <<operator, instance, outside, mode, want, got, staged, child, answer>>
    OBVIOUS
<1>1. GuestType'
    BY <1>0 DEF GuestType
<1>2. TimeType'
    BY DEF TimeType
<1>3. FlagType'
    BY DEF FlagType
<1>4. ModeInv' /\ FetchInv' /\ ConsumedInv'
    BY DEF ModeInv, FetchInv, HelpersBounded, ConsumedInv
<1>7. InstanceInv' /\ KeyInv'
    BY DEF InstanceInv, KeyInv, Key, Trusted
<1> QED  BY <1>1, <1>2, <1>3, <1>4, <1>7 DEF GuestInv

LEMMA DaemonRestartsStep ==
    ASSUME DeliveryInv, DaemonRestarts, UNCHANGED <<operator, instance>>
    PROVE  GuestInv' /\ InstanceInv' /\ KeyInv'
<1> USE BootAssumption, DeliveryAssumption
    DEF DeliveryInv, InInitrd, InRootfs, DaemonRestarts, operator, instance,
       outside, booting, helpers
<1>1. GuestType' /\ TimeType' /\ FlagType'
    BY DEF GuestType, TimeType, FlagType
<1>4. ModeInv' /\ FetchInv' /\ ConsumedInv'
    BY DEF ModeInv, FetchInv, HelpersBounded, ConsumedInv
<1>7. InstanceInv' /\ KeyInv'
    BY DEF InstanceInv, KeyInv, Key, Trusted
<1> QED  BY <1>1, <1>4, <1>7 DEF GuestInv

LEMMA ChildForksStep ==
    ASSUME DeliveryInv, ChildForks, UNCHANGED <<operator, instance>>
    PROVE  GuestInv' /\ InstanceInv' /\ KeyInv'
<1> USE BootAssumption, DeliveryAssumption
    DEF DeliveryInv, InInitrd, InRootfs, ChildForks, operator, instance, outside,
       booting, helpers
<1>1. GuestType' /\ TimeType' /\ FlagType'
    BY DEF GuestType, TimeType, FlagType
<1>4. ModeInv' /\ FetchInv' /\ ConsumedInv'
    BY DEF ModeInv, FetchInv, HelpersBounded, ConsumedInv
<1>7. InstanceInv' /\ KeyInv'
    BY DEF InstanceInv, KeyInv, Key, Trusted
<1> QED  BY <1>1, <1>4, <1>7 DEF GuestInv

LEMMA ChildExitsStep ==
    ASSUME DeliveryInv, ChildExits, UNCHANGED <<operator, instance>>
    PROVE  GuestInv' /\ InstanceInv' /\ KeyInv'
<1> USE BootAssumption, DeliveryAssumption
    DEF DeliveryInv, InInitrd, InRootfs, ChildExits, operator, instance, outside,
       booting, helpers
<1>0. point = "run" /\ userdata = "runtime" /\ Trusted
    BY DEF FetchInv, HelpersBounded, ModeInv, InstanceInv, Trusted
<1>9. want = "disk" => answer' \in {Absent, kbs["disk"]}
    OBVIOUS
<1>1. GuestType' /\ TimeType' /\ FlagType'
    BY DEF GuestType, Stored, Resource, TimeType, FlagType
<1>4. ModeInv' /\ FetchInv' /\ ConsumedInv'
    BY DEF ModeInv, FetchInv, HelpersBounded, ConsumedInv
<1>7. InstanceInv' /\ KeyInv'
    BY <1>0, <1>9 DEF InstanceInv, KeyInv, Key, Trusted
<1> QED  BY <1>1, <1>4, <1>7 DEF GuestInv

LEMMA TickStep ==
    ASSUME DeliveryInv, Tick, UNCHANGED <<operator, instance>>
    PROVE  GuestInv' /\ InstanceInv' /\ KeyInv'
<1> USE BootAssumption, DeliveryAssumption
    DEF DeliveryInv, InInitrd, InRootfs, Tick, operator, instance, outside, booting,
       helpers
<1>1. GuestType' /\ TimeType' /\ FlagType'
    BY DEF GuestType, TimeType, FlagType
<1>4. ModeInv' /\ FetchInv' /\ ConsumedInv'
    BY DEF ModeInv, FetchInv, HelpersBounded, TimeType, ConsumedInv
<1>7. InstanceInv' /\ KeyInv'
    BY DEF InstanceInv, KeyInv, Key, Trusted
<1> QED  BY <1>1, <1>4, <1>7 DEF GuestInv

(* The record of a command *)
LEMMA JobTypes ==
    ASSUME NEW j \in JobRecord
    PROVE  /\ j.op \in {"deploy"} \cup Delivering /\ j.step \in Steps /\ j.spec \in AppSpec
           /\ j.inputs \in [DOMAIN j.inputs -> Version] /\ DOMAIN j.inputs \subseteq Input
           /\ j.bootstrap \in BootConfig \cup {Absent} /\ j # NoJob
           /\ \A s \in Steps : [j EXCEPT !.step = s] \in JobRecord
BY DEF JobRecord, NoJob

LEMMA SnapshotJob ==
    ASSUME NEW op \in Delivering, NEW snap \in [spec: AppSpec, inputs: Frozen]
    PROVE  Job(op, "render", snap) \in JobRecord
BY DEF Job, JobRecord, Steps, Frozen

LEMMA SavedTypes ==
    ASSUME OperatorType
    PROVE  /\ manifest.spec \in AppSpec
           /\ manifest.inputs # NoInputs => manifest \in [spec: AppSpec, inputs: Frozen]
                                        /\ manifest.inputs \in Frozen
BY DEF OperatorType, RecordType

LEMMA EmptyInputs == NoInputs \in [{} -> Version] /\ DOMAIN NoInputs = {}
BY DEF NoInputs

(* Once the inputs are frozen they are all there *)
LEMMA AllFrozen ==
    ASSUME DeliveryInv, job # NoJob, job.step # "freeze"
    PROVE  job.inputs \in Frozen
<1>1. job \in JobRecord
    BY DEF DeliveryInv, OperatorType, RecordType
<1>2. CASE job.op = "deploy"
    BY <1>1, <1>2, JobTypes DEF DeliveryInv, JobInv, DeployInv, Frozen
<1>3. CASE job.op # "deploy"
  <2>1. manifest.inputs # NoInputs /\ job.inputs = manifest.inputs
      BY <1>3 DEF DeliveryInv, JobInv, DeliverInv, InstanceInv
  <2> QED  BY <2>1, SavedTypes DEF DeliveryInv
<1> QED  BY <1>2, <1>3

LEMMA EditFilesStep ==
    ASSUME DeliveryInv, \E i \in Input : EditFile(i)
    PROVE  DeliveryInv'
<1> USE BootAssumption, DeliveryAssumption
    DEF DeliveryInv, InInitrd, InRootfs, EditFile, Edit, operator, instance,
       outside, booting, helpers, guestVars, NothingGot, NoJob, NoInputs
<1>1. GuestType' /\ TimeType' /\ FlagType'
    BY DEF GuestType, TimeType, FlagType
<1>2. ModeInv' /\ FetchInv' /\ ConsumedInv'
    BY DEF ModeInv, FetchInv, HelpersBounded, ConsumedInv
<1>3. (job \in JobRecord \cup {NoJob})'
    BY JobTypes DEF OperatorType, RecordType
<1>4. RecordType'
    BY JobTypes DEF OperatorType, RecordType, Frozen
<1>5. OperatorType'
    BY <1>3, <1>4 DEF OperatorType
<1>6. JobInv'
    BY DEF JobInv, DeployInv, DeliverInv, Uploads
<1>7. InstanceInv' /\ KeyInv'
    BY DEF InstanceInv, KeyInv, Key, Trusted
<1> QED  BY <1>1, <1>2, <1>5, <1>6, <1>7

LEMMA EditSpecStep ==
    ASSUME DeliveryInv, EditSpec
    PROVE  DeliveryInv'
<1> USE BootAssumption, DeliveryAssumption
    DEF DeliveryInv, InInitrd, InRootfs, EditSpec, Edit, operator, instance,
       outside, booting, helpers, guestVars, NothingGot, NoJob, NoInputs
<1>1. GuestType' /\ TimeType' /\ FlagType'
    BY DEF GuestType, TimeType, FlagType
<1>2. ModeInv' /\ FetchInv' /\ ConsumedInv'
    BY DEF ModeInv, FetchInv, HelpersBounded, ConsumedInv
<1>3. (job \in JobRecord \cup {NoJob})'
    BY JobTypes DEF OperatorType, RecordType
<1>4. RecordType'
    BY JobTypes DEF OperatorType, RecordType, AppSpec
<1>5. OperatorType'
    BY <1>3, <1>4 DEF OperatorType
<1>6. JobInv'
    BY DEF JobInv, DeployInv, DeliverInv, Uploads
<1>7. InstanceInv' /\ KeyInv'
    BY DEF InstanceInv, KeyInv, Key, Trusted
<1> QED  BY <1>1, <1>2, <1>5, <1>6, <1>7

LEMMA BeginDeployStep ==
    ASSUME DeliveryInv, BeginDeploy
    PROVE  DeliveryInv'
<1> USE BootAssumption, DeliveryAssumption
    DEF DeliveryInv, InInitrd, InRootfs, BeginDeploy, Job, Snapshot, operator,
       instance, outside, booting, helpers, guestVars, NothingGot, NoJob, NoInputs
<1>1. GuestType' /\ TimeType' /\ FlagType'
    BY DEF GuestType, TimeType, FlagType
<1>2. ModeInv' /\ FetchInv' /\ ConsumedInv'
    BY DEF ModeInv, FetchInv, HelpersBounded, ConsumedInv
<1>3. (job \in JobRecord \cup {NoJob})'
  <2>1. NoInputs \in UNION {[s -> Version] : s \in SUBSET Input}
      BY EmptyInputs
  <2> HIDE DEF NoInputs
  <2> QED  BY <2>1 DEF OperatorType, RecordType, JobRecord, Steps
<1>4. RecordType'
    BY JobTypes DEF OperatorType, RecordType
<1>5. OperatorType'
    BY <1>3, <1>4 DEF OperatorType
<1>6. JobInv'
    BY DEF JobInv, DeployInv
<1>7. InstanceInv' /\ KeyInv'
    BY DEF InstanceInv, KeyInv
<1> QED  BY <1>1, <1>2, <1>5, <1>6, <1>7

LEMMA FreezesStep ==
    ASSUME DeliveryInv, \E i \in Input : Freeze(i)
    PROVE  DeliveryInv'
<1> USE BootAssumption, DeliveryAssumption
    DEF DeliveryInv, InInitrd, InRootfs, Freeze, operator, instance, outside,
       booting, helpers, guestVars, NothingGot, NoJob, NoInputs
<1>1. GuestType' /\ TimeType' /\ FlagType'
    BY DEF GuestType, TimeType, FlagType
<1>2. ModeInv' /\ FetchInv' /\ ConsumedInv'
    BY DEF ModeInv, FetchInv, HelpersBounded, ConsumedInv
<1>3. (job \in JobRecord \cup {NoJob})'
  <2>1. job \in JobRecord
      BY DEF OperatorType, RecordType
  <2>2. PICK i \in Input : Freeze(i)
      OBVIOUS
  <2> DEFINE frozen == [k \in DOMAIN job.inputs \cup {i} |->
                           IF k = i THEN file[i] ELSE job.inputs[k]]
  <2>3. frozen \in UNION {[s -> Version] : s \in SUBSET Input}
    <3>1. frozen \in [DOMAIN job.inputs \cup {i} -> Version]
        BY <2>1, JobTypes DEF OperatorType, RecordType, Frozen
    <3>2. DOMAIN job.inputs \cup {i} \in SUBSET Input
        BY <2>1, JobTypes
    <3> HIDE DEF frozen
    <3> QED  BY <3>1, <3>2
  <2>4. \E s \in {"freeze", "render", "prepare"} :
            job' = [job EXCEPT !.inputs = frozen, !.step = s]
      BY <2>2
  <2> HIDE DEF frozen
  <2> QED  BY <2>1, <2>3, <2>4, ZenonT(40) DEF JobRecord, Steps
<1>4. RecordType'
    BY JobTypes DEF OperatorType, RecordType
<1>5. OperatorType'
    BY <1>3, <1>4 DEF OperatorType
<1>6. JobInv'
    BY DEF JobInv, DeployInv, Uploads
<1>7. InstanceInv' /\ KeyInv'
    BY DEF InstanceInv, JobInv, DeployInv, KeyInv
<1> QED  BY <1>1, <1>2, <1>5, <1>6, <1>7

LEMMA PrepareStep ==
    ASSUME DeliveryInv, Prepare
    PROVE  DeliveryInv'
<1> USE BootAssumption, DeliveryAssumption
    DEF DeliveryInv, InInitrd, InRootfs, Prepare, Snapshot, operator, instance,
       outside, booting, helpers, guestVars, NothingGot, NoJob, NoInputs
<1>1. GuestType' /\ TimeType' /\ FlagType'
    BY DEF GuestType, TimeType, FlagType
<1>2. ModeInv' /\ FetchInv' /\ ConsumedInv'
    BY DEF ModeInv, FetchInv, HelpersBounded, ConsumedInv
<1>3. (job \in JobRecord \cup {NoJob})'
    BY JobTypes DEF OperatorType, RecordType, Steps
<1>4. RecordType'
    BY JobTypes DEF OperatorType, RecordType
<1>5. OperatorType'
    BY <1>3, <1>4 DEF OperatorType
<1>6. JobInv'
    BY DEF JobInv, DeployInv, Uploads
<1>7. InstanceInv' /\ KeyInv'
    BY DEF InstanceInv, JobInv, DeployInv, KeyInv
<1> QED  BY <1>1, <1>2, <1>5, <1>6, <1>7

LEMMA RecordStep ==
    ASSUME DeliveryInv, Record
    PROVE  DeliveryInv'
<1> USE BootAssumption, DeliveryAssumption
    DEF DeliveryInv, InInitrd, InRootfs, Record, Snapshot, operator, instance,
       outside, booting, helpers, guestVars, NothingGot, NoJob, NoInputs
<1>1. GuestType' /\ TimeType' /\ FlagType'
    BY DEF GuestType, TimeType, FlagType
<1>3. ModeInv' /\ FetchInv' /\ ConsumedInv'
    BY DEF ModeInv, FetchInv, HelpersBounded, ConsumedInv
<1>51. (job \in JobRecord \cup {NoJob})'
    BY JobTypes DEF OperatorType, RecordType, Steps
<1>52. (file \in Frozen /\ spec \in AppSpec)'
    BY DEF OperatorType, RecordType
<1>53. (manifest \in [spec: AppSpec, inputs: Frozen \cup {NoInputs}])'
    BY JobTypes DEF OperatorType, RecordType, JobInv, DeployInv, Frozen
<1>54. (diskKey \in Version \cup {Absent} /\ served \subseteq BootConfig)'
    BY DEF OperatorType, RecordType
<1>55. (injected \in BOOLEAN /\ phase \in {"built", "deploying", "deployed", "active"})'
    OBVIOUS
<1>5. OperatorType'
    BY <1>51, <1>52, <1>53, <1>54, <1>55 DEF OperatorType, RecordType
<1>6. JobInv'
    BY DEF JobInv, DeployInv
<1>7. InstanceInv' /\ KeyInv'
    BY DEF InstanceInv, JobInv, DeployInv, OperatorType, RecordType, JobRecord,
       Steps, Delivering, Input, KeyInv, Key, Trusted, Uploads, Resource
<1> QED  BY <1>1, <1>3, <1>5, <1>6, <1>7

LEMMA LaunchStep ==
    ASSUME DeliveryInv, Launch
    PROVE  DeliveryInv'
<1> USE BootAssumption, DeliveryAssumption
    DEF DeliveryInv, InInitrd, InRootfs, Launch, PowerOn, Becomes, HelpersIdle,
       operator, instance, outside, booting, helpers, guestVars, NothingGot, NoJob,
       NoInputs
<1>1. GuestType' /\ TimeType' /\ FlagType'
    BY DEF GuestType, Stored, Resource, TimeType, FlagType
<1>2. ModeInv' /\ FetchInv' /\ ConsumedInv'
    BY DEF ModeInv, FetchInv, HelpersBounded, ConsumedInv
<1>3. (job \in JobRecord \cup {NoJob})'
    BY JobTypes DEF OperatorType, RecordType, Steps
<1>4. RecordType'
    BY JobTypes DEF OperatorType, RecordType
<1>5. OperatorType'
    BY <1>3, <1>4 DEF OperatorType
<1>6. JobInv'
    BY DEF JobInv, DeployInv
<1>7. InstanceInv' /\ KeyInv'
    BY DEF InstanceInv, JobInv, DeployInv, KeyInv, Key, Trusted, Resource
<1> QED  BY <1>1, <1>2, <1>5, <1>6, <1>7

LEMMA ConfirmStep ==
    ASSUME DeliveryInv, Confirm
    PROVE  DeliveryInv'
<1> USE BootAssumption, DeliveryAssumption
    DEF DeliveryInv, InInitrd, InRootfs, Confirm, operator, instance, outside,
       booting, helpers, guestVars, NothingGot, NoJob, NoInputs
<1>1. GuestType' /\ TimeType' /\ FlagType'
    BY DEF GuestType, TimeType, FlagType
<1>2. ModeInv' /\ FetchInv' /\ ConsumedInv'
    BY DEF ModeInv, FetchInv, HelpersBounded, ConsumedInv
<1>3. (job \in JobRecord \cup {NoJob})'
  <2>1. job \in JobRecord
      BY DEF OperatorType, RecordType
  <2>2. job' = [job EXCEPT !.step = "render", !.op = "resume"]
      OBVIOUS
  <2> QED  BY <2>1, <2>2 DEF JobRecord, Steps, Delivering
<1>4. RecordType'
    BY JobTypes DEF OperatorType, RecordType
<1>5. OperatorType'
    BY <1>3, <1>4 DEF OperatorType
<1>6. JobInv'
    BY DEF JobInv, DeployInv, DeliverInv
<1>7. InstanceInv' /\ KeyInv'
    BY DEF InstanceInv, JobInv, DeployInv, KeyInv, Key, Trusted
<1> QED  BY <1>1, <1>2, <1>5, <1>6, <1>7

LEMMA ResumeStep ==
    ASSUME DeliveryInv, Resume
    PROVE  DeliveryInv'
<1> USE BootAssumption, DeliveryAssumption
    DEF DeliveryInv, InInitrd, InRootfs, Resume, ResumeAccepted, Job, operator,
       instance, outside, booting, helpers, guestVars, NothingGot, NoJob, NoInputs
<1>1. GuestType' /\ TimeType' /\ FlagType'
    BY DEF GuestType, TimeType, FlagType
<1>2. ModeInv' /\ FetchInv' /\ ConsumedInv'
    BY DEF ModeInv, FetchInv, HelpersBounded, ConsumedInv
<1>3. (job \in JobRecord \cup {NoJob})'
    BY SnapshotJob, SavedTypes DEF Delivering
<1>4. RecordType'
    BY JobTypes DEF OperatorType, RecordType
<1>5. OperatorType'
    BY <1>3, <1>4 DEF OperatorType
<1>6. JobInv'
    BY DEF JobInv, DeliverInv
<1>7. InstanceInv' /\ KeyInv'
    BY DEF InstanceInv, KeyInv, Key, Trusted
<1> QED  BY <1>1, <1>2, <1>5, <1>6, <1>7

LEMMA InjectStep ==
    ASSUME DeliveryInv, Inject
    PROVE  DeliveryInv'
<1> USE BootAssumption, DeliveryAssumption
    DEF DeliveryInv, InInitrd, InRootfs, Inject, InjectAccepted, Job, operator,
       instance, outside, booting, helpers, guestVars, NothingGot, NoJob, NoInputs
<1>1. GuestType' /\ TimeType' /\ FlagType'
    BY DEF GuestType, TimeType, FlagType
<1>2. ModeInv' /\ FetchInv' /\ ConsumedInv'
    BY DEF ModeInv, FetchInv, HelpersBounded, ConsumedInv
<1>3. (job \in JobRecord \cup {NoJob})'
    BY SnapshotJob, SavedTypes DEF Delivering
<1>4. RecordType'
    BY JobTypes DEF OperatorType, RecordType
<1>5. OperatorType'
    BY <1>3, <1>4 DEF OperatorType
<1>6. JobInv'
    BY DEF JobInv, DeliverInv
<1>7. InstanceInv' /\ KeyInv'
    BY DEF InstanceInv, KeyInv, Key, Trusted
<1> QED  BY <1>1, <1>2, <1>5, <1>6, <1>7

LEMMA SyncStep ==
    ASSUME DeliveryInv, Sync
    PROVE  DeliveryInv'
<1> USE BootAssumption, DeliveryAssumption
    DEF DeliveryInv, InInitrd, InRootfs, Sync, InjectAccepted, Job, operator,
       instance, outside, booting, helpers, guestVars, NothingGot, NoJob, NoInputs
<1>1. GuestType' /\ TimeType' /\ FlagType'
    BY DEF GuestType, TimeType, FlagType
<1>2. ModeInv' /\ FetchInv' /\ ConsumedInv'
    BY DEF ModeInv, FetchInv, HelpersBounded, ConsumedInv
<1>3. (job \in JobRecord \cup {NoJob})'
    BY SnapshotJob, SavedTypes DEF Delivering
<1>4. RecordType'
    BY JobTypes DEF OperatorType, RecordType
<1>5. OperatorType'
    BY <1>3, <1>4 DEF OperatorType
<1>6. JobInv'
    BY DEF JobInv, DeliverInv
<1>7. InstanceInv' /\ KeyInv'
    BY DEF InstanceInv, KeyInv, Key, Trusted
<1> QED  BY <1>1, <1>2, <1>5, <1>6, <1>7

LEMMA BindInputsStep ==
    ASSUME DeliveryInv, BindInputs
    PROVE  DeliveryInv'
<1> USE BootAssumption, DeliveryAssumption
    DEF DeliveryInv, InInitrd, InRootfs, BindInputs, MatchesRecord, HistoricalDisk,
       Snapshot, operator, instance, outside, booting, helpers, guestVars,
       NothingGot, NoJob, NoInputs
<1>1. GuestType' /\ TimeType' /\ FlagType'
    BY DEF GuestType, TimeType, FlagType
<1>2. ModeInv' /\ FetchInv' /\ ConsumedInv'
    BY DEF ModeInv, FetchInv, HelpersBounded, ConsumedInv
<1>3. (job \in JobRecord \cup {NoJob})'
    BY JobTypes
<1>4. RecordType'
    BY JobTypes DEF OperatorType, RecordType
<1>5. OperatorType'
    BY <1>3, <1>4 DEF OperatorType
<1>6. JobInv'
    BY DEF JobInv
<1>7. InstanceInv' /\ KeyInv'
    BY DEF InstanceInv, KeyInv, Key, Trusted
<1> QED  BY <1>1, <1>2, <1>5, <1>6, <1>7

LEMMA RenderStep ==
    ASSUME DeliveryInv, Render
    PROVE  DeliveryInv'
<1> USE BootAssumption, DeliveryAssumption
    DEF DeliveryInv, InInitrd, InRootfs, Render, BootstrapOf, operator, instance,
       outside, booting, helpers, guestVars, NothingGot, NoJob, NoInputs
<1>1. GuestType' /\ TimeType' /\ FlagType'
    BY DEF GuestType, TimeType, FlagType
<1>2. ModeInv' /\ FetchInv' /\ ConsumedInv'
    BY DEF ModeInv, FetchInv, HelpersBounded, ConsumedInv
<1>3. (job \in JobRecord \cup {NoJob})'
  <2>1. job \in JobRecord /\ job.inputs \in Frozen
      BY AllFrozen DEF OperatorType, RecordType
  <2>2. PICK user \in {file["app"], job.inputs["app"]} :
            job' = [job EXCEPT !.step = "bootstrap",
                               !.bootstrap = BootstrapOf(job.spec, file["gateway"], user)]
      OBVIOUS
  <2>3. BootstrapOf(job.spec, file["gateway"], user) \in BootConfig
      BY <2>1, JobTypes DEF BootConfig, OperatorType, RecordType, Frozen, AppSpec, Input
  <2> HIDE DEF BootstrapOf
  <2> QED  BY <2>1, <2>2, <2>3 DEF JobRecord, Steps
<1>4. RecordType'
    BY JobTypes DEF OperatorType, RecordType
<1>5. OperatorType'
    BY <1>3, <1>4 DEF OperatorType
<1>6. JobInv'
    BY <1>3, AllFrozen DEF Input, BootConfig, JobInv, DeployInv, DeliverInv,
       Uploads, OperatorType, RecordType, JobRecord, AppSpec, Frozen
<1>7. InstanceInv' /\ KeyInv'
    BY DEF InstanceInv, KeyInv, Key, Trusted
<1> QED  BY <1>1, <1>2, <1>5, <1>6, <1>7

LEMMA SendBootstrapStep ==
    ASSUME DeliveryInv, SendBootstrap
    PROVE  DeliveryInv'
<1> USE BootAssumption, DeliveryAssumption
    DEF DeliveryInv, InInitrd, InRootfs, SendBootstrap, Put, operator, instance,
       outside, booting, helpers, guestVars, NothingGot, NoJob, NoInputs
<1>1. GuestType' /\ TimeType' /\ FlagType'
    BY DEF GuestType, Stored, Resource, OperatorType, RecordType, JobRecord,
       TimeType, FlagType
<1>2. ModeInv' /\ FetchInv' /\ ConsumedInv'
    BY DEF ModeInv, FetchInv, HelpersBounded, ConsumedInv
<1>3. (job \in JobRecord \cup {NoJob})'
    BY JobTypes DEF OperatorType, RecordType, Steps
<1>4. RecordType'
    BY JobTypes DEF OperatorType, RecordType
<1>5. OperatorType'
    BY <1>3, <1>4 DEF OperatorType
<1>6. JobInv'
    BY DEF JobInv, DeployInv, DeliverInv, Uploads
<1>7. InstanceInv' /\ KeyInv'
    BY DEF InstanceInv, GuestType, KeyInv, Key, Trusted, Stored, Resource
<1> QED  BY <1>1, <1>2, <1>5, <1>6, <1>7

LEMMA SendDiskStep ==
    ASSUME DeliveryInv, SendDisk
    PROVE  DeliveryInv'
<1> USE BootAssumption, DeliveryAssumption
    DEF DeliveryInv, InInitrd, InRootfs, SendDisk, Put, DiskBytes, operator,
       instance, outside, booting, helpers, guestVars, NothingGot, NoJob, NoInputs
<1>1. GuestType' /\ TimeType' /\ FlagType'
    BY AllFrozen DEF Input, GuestType, Stored, Resource, Frozen, TimeType, FlagType
<1>2. ModeInv' /\ FetchInv' /\ ConsumedInv'
    BY DEF ModeInv, FetchInv, HelpersBounded, ConsumedInv
<1>3. (job \in JobRecord \cup {NoJob})'
    BY JobTypes DEF OperatorType, RecordType, Steps
<1>4. RecordType'
    BY JobTypes DEF OperatorType, RecordType
<1>5. OperatorType'
    BY <1>3, <1>4 DEF OperatorType
<1>6. JobInv'
    BY DEF GuestType, Stored, Resource, JobInv, DeployInv, DeliverInv, Uploads
<1>7. InstanceInv' /\ KeyInv'
    BY DEF InstanceInv, JobInv, DeployInv, DeliverInv, GuestType, KeyInv, Key,
       Trusted, Stored
<1> QED  BY <1>1, <1>2, <1>5, <1>6, <1>7

LEMMA FinishStep ==
    ASSUME DeliveryInv, Finish
    PROVE  DeliveryInv'
<1> USE BootAssumption, DeliveryAssumption
    DEF DeliveryInv, InInitrd, InRootfs, Finish, operator, instance, outside,
       booting, helpers, guestVars, NothingGot, NoJob, NoInputs
<1>1. GuestType' /\ TimeType' /\ FlagType'
    BY DEF GuestType, TimeType, FlagType
<1>2. ModeInv' /\ FetchInv' /\ ConsumedInv'
    BY DEF ModeInv, FetchInv, HelpersBounded, ConsumedInv
<1>3. (job \in JobRecord \cup {NoJob})'
    BY JobTypes
<1>4. RecordType'
    BY JobTypes DEF OperatorType, RecordType
<1>5. OperatorType'
    BY <1>3, <1>4 DEF OperatorType
<1>6. JobInv'
    BY DEF JobInv
<1>7. InstanceInv' /\ KeyInv'
    BY DEF InstanceInv, KeyInv, Key, Trusted
<1> QED  BY <1>1, <1>2, <1>5, <1>6, <1>7

LEMMA GiveUpStep ==
    ASSUME DeliveryInv, GiveUp
    PROVE  DeliveryInv'
<1> USE BootAssumption, DeliveryAssumption
    DEF DeliveryInv, InInitrd, InRootfs, GiveUp, operator, instance, outside,
       booting, helpers, guestVars, NothingGot, NoJob, NoInputs
<1>1. GuestType' /\ TimeType' /\ FlagType'
    BY DEF GuestType, TimeType, FlagType
<1>2. ModeInv' /\ FetchInv' /\ ConsumedInv'
    BY DEF ModeInv, FetchInv, HelpersBounded, ConsumedInv
<1>3. (job \in JobRecord \cup {NoJob})'
    BY JobTypes
<1>4. RecordType'
    BY JobTypes DEF OperatorType, RecordType
<1>5. OperatorType'
    BY <1>3, <1>4 DEF OperatorType
<1>6. JobInv'
    BY DEF JobInv
<1>7. InstanceInv' /\ KeyInv'
    BY DEF InstanceInv, KeyInv, Key, Trusted
<1> QED  BY <1>1, <1>2, <1>5, <1>6, <1>7

LEMMA DestroyStep ==
    ASSUME DeliveryInv, Destroy
    PROVE  DeliveryInv'
<1> USE BootAssumption, DeliveryAssumption
    DEF DeliveryInv, InInitrd, InRootfs, Destroy, PowerOff, Becomes, HelpersIdle,
       operator, instance, outside, booting, helpers, guestVars, NothingGot, NoJob,
       NoInputs
<1>1. GuestType' /\ TimeType' /\ FlagType'
    BY DEF GuestType, Stored, Resource, TimeType, FlagType
<1>2. ModeInv' /\ FetchInv' /\ ConsumedInv'
    BY DEF ModeInv, FetchInv, HelpersBounded, ConsumedInv
<1>3. (job \in JobRecord \cup {NoJob})'
    BY JobTypes
<1>4. RecordType'
    BY JobTypes DEF OperatorType, RecordType
<1>5. OperatorType'
    BY <1>3, <1>4 DEF OperatorType
<1>6. JobInv'
    BY DEF JobInv
<1>7. InstanceInv' /\ KeyInv'
    BY DEF InstanceInv, KeyInv
<1> QED  BY <1>1, <1>2, <1>5, <1>6, <1>7

LEMMA UnlockStep ==
    ASSUME DeliveryInv, Unlock
    PROVE  DeliveryInv'
<1> USE BootAssumption, DeliveryAssumption
    DEF DeliveryInv, InInitrd, InRootfs, Unlock, SwitchRoot, operator, instance,
       outside, booting, helpers, guestVars, NothingGot, NoJob, NoInputs
<1>1. GuestType'
    BY DEF GuestType
<1>2. TimeType' /\ FlagType'
    BY DEF TimeType, FlagType
<1>3. ModeInv' /\ FetchInv' /\ ConsumedInv'
    BY DEF ModeInv, FetchInv, HelpersBounded, ConsumedInv
<1>51. (job \in JobRecord \cup {NoJob})'
    BY JobTypes DEF OperatorType, RecordType
<1>52. RecordType'
    BY JobTypes DEF OperatorType, RecordType, GuestType, ConsumedInv
<1>5. OperatorType'
    BY <1>51, <1>52 DEF OperatorType
<1>6. JobInv'
    BY DEF JobInv, DeployInv, DeliverInv, Uploads
<1>7. InstanceInv' /\ KeyInv'
    BY DEF InstanceInv, KeyInv, Key, Trusted
<1> QED  BY <1>1, <1>2, <1>3, <1>5, <1>6, <1>7

LEMMA ColdBootStep ==
    ASSUME DeliveryInv, ColdBoot
    PROVE  DeliveryInv'
<1> USE BootAssumption, DeliveryAssumption
    DEF DeliveryInv, InInitrd, InRootfs, ColdBoot, PowerOn, Becomes, HelpersIdle,
       operator, instance, outside, booting, helpers, guestVars, NothingGot, NoJob,
       NoInputs
<1>1. GuestType' /\ TimeType' /\ FlagType'
    BY DEF GuestType, Stored, Resource, TimeType, FlagType
<1>2. ModeInv' /\ FetchInv' /\ ConsumedInv'
    BY DEF ModeInv, FetchInv, HelpersBounded, ConsumedInv
<1>3. (job \in JobRecord \cup {NoJob})'
    BY JobTypes DEF OperatorType, RecordType
<1>4. RecordType'
    BY JobTypes DEF OperatorType, RecordType
<1>5. OperatorType'
    BY <1>3, <1>4 DEF OperatorType
<1>6. JobInv'
    BY DEF JobInv, DeployInv, DeliverInv, Uploads
<1>7. InstanceInv' /\ KeyInv'
    BY DEF InstanceInv, KeyInv, Key, Trusted, Resource
<1> QED  BY <1>1, <1>2, <1>5, <1>6, <1>7

LEMMA InitDeliveryInv == DeliveryInit => DeliveryInv /\ FrozenInv
<1> USE BootAssumption, DeliveryAssumption
    DEF DeliveryInit, Fresh, NothingGot, NoJob, NoInputs, Snapshot, BootstrapOf,
       InInitrd, InRootfs
<1>1. CASE DeliveryInit /\ InitBuilt
  <2> USE <1>1 DEF InitBuilt
  <2>1. GuestType /\ TimeType /\ FlagType
      BY DEF GuestType, TimeType, FlagType, Stored, Resource
  <2>2. OperatorType
    <3>1. 1 \in Version /\ manifest.spec \in AppSpec /\ manifest.spec = spec
        BY DEF AppSpec, Version
    <3>2. manifest = [spec |-> spec, inputs |-> NoInputs]
        OBVIOUS
    <3> HIDE DEF NoInputs
    <3>3. job = NoJob /\ file \in Frozen /\ injected \in BOOLEAN
        BY <3>1 DEF Frozen
    <3>4. manifest \in [spec: AppSpec, inputs: Frozen \cup {NoInputs}]
        BY <3>1, <3>2
    <3> QED  BY <3>1, <3>3, <3>4 DEF OperatorType, RecordType
  <2>3. ModeInv /\ FetchInv /\ ConsumedInv
      BY DEF ModeInv, FetchInv, HelpersBounded, ConsumedInv
  <2>4. JobInv /\ InstanceInv /\ KeyInv /\ FrozenInv
      BY DEF JobInv, InstanceInv, KeyInv, FrozenInv, RenderedInv, BoundInv
  <2> QED  BY <2>1, <2>2, <2>3, <2>4 DEF DeliveryInv
<1>2. CASE DeliveryInit /\ InitLegacy
  <2> USE <1>2 DEF InitLegacy
  <2>0. 1 \in Version /\ "trustee" \in Mode
      BY DEF Version, Mode
  <2>1. GuestType /\ TimeType /\ FlagType
      BY <2>0 DEF GuestType, TimeType, FlagType, Stored, Resource, BootConfig
  <2>2. OperatorType
    <3>1. spec \in AppSpec /\ BootstrapOf(spec, 1, 1) \in BootConfig
        BY <2>0 DEF AppSpec, BootConfig
    <3>2. manifest = [spec |-> spec, inputs |-> NoInputs]
        OBVIOUS
    <3> HIDE DEF NoInputs, BootstrapOf
    <3>3. job = NoJob /\ file \in Frozen /\ injected \in BOOLEAN
        BY <2>0 DEF Frozen
    <3>4. manifest \in [spec: AppSpec, inputs: Frozen \cup {NoInputs}]
        BY <3>1, <3>2
    <3> QED  BY <2>0, <3>1, <3>3, <3>4 DEF OperatorType, RecordType
  <2>3. ModeInv
      BY DEF ModeInv, Resource
  <2>6. FetchInv
      BY DEF FetchInv, HelpersBounded
  <2>7. ConsumedInv
      BY <2>0 DEF ConsumedInv, Resource, BootConfig
  <2>4. JobInv /\ InstanceInv /\ KeyInv
      BY <2>0 DEF JobInv, InstanceInv, KeyInv, Key, Trusted, Resource
  <2>5. FrozenInv
      BY <2>0 DEF FrozenInv, RenderedInv, BoundInv, Gateway, Suits, Trusted,
         Resource, BootConfig
  <2> QED  BY <2>1, <2>2, <2>3, <2>4, <2>5, <2>6, <2>7 DEF DeliveryInv
<1> QED  BY <1>1, <1>2

LEMMA OutOfTimeFrozen ==
    ASSUME DeliveryInv, FrozenInv, OutOfTime, UNCHANGED <<operator, instance>>
    PROVE  FrozenInv'
BY DEF FrozenInv, OutOfTime, FailClosed, HelpersIdle, operator, instance, outside,
   RenderedInv, Uploads, BoundInv, Trusted, Gateway, Suits

LEMMA DetectFrozen ==
    ASSUME DeliveryInv, FrozenInv, Detect, UNCHANGED <<operator, instance>>
    PROVE  FrozenInv'
BY DEF FrozenInv, Detect, DetectChallenge, DetectTrustee, QueryFails, FailClosed,
   HelpersIdle, operator, instance, outside, helpers, RenderedInv, Uploads,
   BoundInv, Trusted, Gateway, Suits

LEMMA MeasureFrozen ==
    ASSUME DeliveryInv, FrozenInv, Measure, UNCHANGED <<operator, instance>>
    PROVE  FrozenInv'
BY ZenonT(40) DEF DeliveryInv, FrozenInv, Measure, Retry, FailClosed, HelpersIdle, operator,
   instance, outside, helpers, InInitrd, InRootfs, RenderedInv, Uploads, BoundInv,
   Trusted, Gateway, Suits, GuestType, Stored, Resource, FetchInv, HelpersBounded,
   ModeInv, InstanceInv

LEMMA ReadInjectedFrozen ==
    ASSUME DeliveryInv, FrozenInv, ReadInjected, UNCHANGED <<operator, instance>>
    PROVE  FrozenInv'
BY DEF DeliveryInv, FrozenInv, ReadInjected, Consume, operator, instance, outside,
   RenderedInv, Uploads, BoundInv, Trusted, Gateway, Suits, GuestType, Stored

LEMMA StartAgentFrozen ==
    ASSUME DeliveryInv, FrozenInv, StartAgent, UNCHANGED <<operator, instance>>
    PROVE  FrozenInv'
BY DEF FrozenInv, StartAgent, operator, instance, outside, RenderedInv, Uploads,
   BoundInv, Trusted, Gateway, Suits

LEMMA AgentReadyFrozen ==
    ASSUME DeliveryInv, FrozenInv, AgentReady, UNCHANGED <<operator, instance>>
    PROVE  FrozenInv'
BY DEF FrozenInv, AgentReady, operator, instance, outside, RenderedInv, Uploads,
   BoundInv, Trusted, Gateway, Suits

LEMMA AgentFailsFrozen ==
    ASSUME DeliveryInv, FrozenInv, AgentFails, UNCHANGED <<operator, instance>>
    PROVE  FrozenInv'
BY DEF FrozenInv, AgentFails, Retry, FailClosed, HelpersIdle, operator, instance,
   outside, RenderedInv, Uploads, BoundInv, Trusted, Gateway, Suits

LEMMA ReapFrozen ==
    ASSUME DeliveryInv, FrozenInv, Reap, UNCHANGED <<operator, instance>>
    PROVE  FrozenInv'
BY DEF FrozenInv, Reap, operator, instance, outside, RenderedInv, Uploads, BoundInv,
   Trusted, Gateway, Suits

LEMMA KillGroupFrozen ==
    ASSUME DeliveryInv, FrozenInv, KillGroup, UNCHANGED <<operator, instance>>
    PROVE  FrozenInv'
BY DEF FrozenInv, KillGroup, operator, instance, outside, RenderedInv, Uploads,
   BoundInv, Trusted, Gateway, Suits

LEMMA JoinFrozen ==
    ASSUME DeliveryInv, FrozenInv, Join, UNCHANGED <<operator, instance>>
    PROVE  FrozenInv'
BY DEF DeliveryInv, FrozenInv, Join, Retry, FailClosed, Consume, HelpersIdle,
   operator, instance, outside, RenderedInv, Uploads, BoundInv, Trusted, Gateway,
   Suits, GuestType, Stored, Resource

LEMMA ValidateFrozen ==
    ASSUME DeliveryInv, FrozenInv, Validate, UNCHANGED <<operator, instance>>
    PROVE  FrozenInv'
BY DEF FrozenInv, Validate, FailClosed, HelpersIdle, operator, instance, outside,
   helpers, RenderedInv, Uploads, BoundInv, Trusted, Gateway, Suits

LEMMA StageFrozen ==
    ASSUME DeliveryInv, FrozenInv, Stage, UNCHANGED <<operator, instance>>
    PROVE  FrozenInv'
BY DEF FrozenInv, Stage, operator, instance, outside, helpers, RenderedInv, Uploads,
   BoundInv, Trusted, Gateway, Suits

LEMMA PersistFrozen ==
    ASSUME DeliveryInv, FrozenInv, Persist, UNCHANGED <<operator, instance>>
    PROVE  FrozenInv'
BY DEF FrozenInv, Persist, operator, instance, outside, helpers, RenderedInv,
   Uploads, BoundInv, Trusted, Gateway, Suits

LEMMA LoadRuntimeFrozen ==
    ASSUME DeliveryInv, FrozenInv, LoadRuntime, UNCHANGED <<operator, instance>>
    PROVE  FrozenInv'
BY DEF FrozenInv, LoadRuntime, operator, instance, outside, helpers, RenderedInv,
   Uploads, BoundInv, Trusted, Gateway, Suits

LEMMA RegisterFrozen ==
    ASSUME DeliveryInv, FrozenInv, Register, UNCHANGED <<operator, instance>>
    PROVE  FrozenInv'
BY DEF FrozenInv, Register, operator, instance, outside, helpers, RenderedInv,
   Uploads, BoundInv, Trusted, Gateway, Suits

LEMMA DaemonRestartsFrozen ==
    ASSUME DeliveryInv, FrozenInv, DaemonRestarts, UNCHANGED <<operator, instance>>
    PROVE  FrozenInv'
BY DEF FrozenInv, DaemonRestarts, operator, instance, outside, helpers, RenderedInv,
   Uploads, BoundInv, Trusted, Gateway, Suits

LEMMA ChildForksFrozen ==
    ASSUME DeliveryInv, FrozenInv, ChildForks, UNCHANGED <<operator, instance>>
    PROVE  FrozenInv'
BY DEF FrozenInv, ChildForks, operator, instance, outside, booting, RenderedInv,
   Uploads, BoundInv, Trusted, Gateway, Suits

LEMMA ChildExitsFrozen ==
    ASSUME DeliveryInv, FrozenInv, ChildExits, UNCHANGED <<operator, instance>>
    PROVE  FrozenInv'
BY DEF DeliveryInv, FrozenInv, ChildExits, operator, instance, outside, booting,
   RenderedInv, Uploads, BoundInv, Trusted, Gateway, Suits, FetchInv,
   HelpersBounded, ModeInv, InstanceInv

LEMMA TickFrozen ==
    ASSUME DeliveryInv, FrozenInv, Tick, UNCHANGED <<operator, instance>>
    PROVE  FrozenInv'
BY DEF FrozenInv, Tick, operator, instance, outside, RenderedInv, Uploads, BoundInv,
   Trusted, Gateway, Suits

LEMMA EditFilesFrozen ==
    ASSUME DeliveryInv, FrozenInv, RacesWithKeys = FALSE, \E i \in Input : EditFile(i)
    PROVE  FrozenInv'
<1> USE DeliveryAssumption
    DEF DeliveryInv, FrozenInv, InInitrd, InRootfs, EditFile, Edit, operator,
       instance, outside, booting, helpers, guestVars, NothingGot, NoJob, NoInputs
<1>1. RenderedInv' /\ BoundInv'
    BY AllFrozen, SavedTypes DEF RenderedInv, Uploads, BoundInv, Gateway, Suits, Trusted
<1> QED  BY <1>1

LEMMA EditSpecFrozen ==
    ASSUME DeliveryInv, FrozenInv, RacesWithKeys = FALSE, EditSpec
    PROVE  FrozenInv'
<1> USE DeliveryAssumption
    DEF DeliveryInv, FrozenInv, InInitrd, InRootfs, EditSpec, Edit, operator,
       instance, outside, booting, helpers, guestVars, NothingGot, NoJob, NoInputs
<1>1. RenderedInv' /\ BoundInv'
    BY AllFrozen, SavedTypes DEF RenderedInv, Uploads, BoundInv, Gateway, Suits, Trusted
<1> QED  BY <1>1

LEMMA BeginDeployFrozen ==
    ASSUME DeliveryInv, FrozenInv, RacesWithKeys = FALSE, BeginDeploy
    PROVE  FrozenInv'
<1> USE DeliveryAssumption
    DEF DeliveryInv, FrozenInv, InInitrd, InRootfs, BeginDeploy, Job, Snapshot,
       operator, instance, outside, booting, helpers, guestVars, NothingGot, NoJob,
       NoInputs
<1>1. RenderedInv' /\ BoundInv'
    BY AllFrozen, SavedTypes DEF RenderedInv, BoundInv
<1> QED  BY <1>1

LEMMA FreezesFrozen ==
    ASSUME DeliveryInv, FrozenInv, RacesWithKeys = FALSE, \E i \in Input : Freeze(i)
    PROVE  FrozenInv'
<1> USE DeliveryAssumption
    DEF DeliveryInv, FrozenInv, InInitrd, InRootfs, Freeze, operator, instance,
       outside, booting, helpers, guestVars, NothingGot, NoJob, NoInputs
<1>1. RenderedInv' /\ BoundInv'
    BY AllFrozen, SavedTypes DEF RenderedInv, JobInv, DeployInv, Uploads, BoundInv
<1> QED  BY <1>1

LEMMA PrepareFrozen ==
    ASSUME DeliveryInv, FrozenInv, RacesWithKeys = FALSE, Prepare
    PROVE  FrozenInv'
<1> USE DeliveryAssumption
    DEF DeliveryInv, FrozenInv, InInitrd, InRootfs, Prepare, Snapshot, operator,
       instance, outside, booting, helpers, guestVars, NothingGot, NoJob, NoInputs
<1>1. RenderedInv' /\ BoundInv'
    BY AllFrozen, SavedTypes DEF RenderedInv, JobInv, DeployInv, Uploads, BoundInv
<1> QED  BY <1>1

LEMMA RecordFrozen ==
    ASSUME DeliveryInv, FrozenInv, RacesWithKeys = FALSE, Record
    PROVE  FrozenInv'
<1> USE DeliveryAssumption
    DEF DeliveryInv, FrozenInv, InInitrd, InRootfs, Record, Snapshot, operator,
       instance, outside, booting, helpers, guestVars, NothingGot, NoJob, NoInputs
<1>1. RenderedInv' /\ BoundInv'
    BY AllFrozen, SavedTypes DEF RenderedInv, JobInv, DeployInv, Uploads,
       InstanceInv, GuestType, BoundInv, Gateway, Suits, Trusted, FetchInv
<1> QED  BY <1>1

LEMMA LaunchFrozen ==
    ASSUME DeliveryInv, FrozenInv, RacesWithKeys = FALSE, Launch
    PROVE  FrozenInv'
<1> USE DeliveryAssumption
    DEF DeliveryInv, FrozenInv, InInitrd, InRootfs, Launch, PowerOn, Becomes,
       HelpersIdle, operator, instance, outside, booting, helpers, guestVars,
       NothingGot, NoJob, NoInputs
<1>1. RenderedInv' /\ BoundInv'
    BY AllFrozen, SavedTypes DEF RenderedInv, Resource, BoundInv, Gateway, Suits,
       Trusted
<1> QED  BY <1>1

LEMMA ConfirmFrozen ==
    ASSUME DeliveryInv, FrozenInv, RacesWithKeys = FALSE, Confirm
    PROVE  FrozenInv'
<1> USE DeliveryAssumption
    DEF DeliveryInv, FrozenInv, InInitrd, InRootfs, Confirm, operator, instance,
       outside, booting, helpers, guestVars, NothingGot, NoJob, NoInputs
<1>1. RenderedInv' /\ BoundInv'
    BY AllFrozen, SavedTypes DEF RenderedInv, JobInv, DeployInv, BoundInv, Gateway,
       Suits, Trusted
<1> QED  BY <1>1

LEMMA ResumeFrozen ==
    ASSUME DeliveryInv, FrozenInv, RacesWithKeys = FALSE, Resume
    PROVE  FrozenInv'
<1> USE DeliveryAssumption
    DEF DeliveryInv, FrozenInv, InInitrd, InRootfs, Resume, ResumeAccepted, Job,
       operator, instance, outside, booting, helpers, guestVars, NothingGot, NoJob,
       NoInputs
<1>1. RenderedInv' /\ BoundInv'
    BY AllFrozen, SavedTypes DEF RenderedInv, Frozen, BoundInv, Gateway, Suits, Trusted
<1> QED  BY <1>1

LEMMA InjectFrozen ==
    ASSUME DeliveryInv, FrozenInv, RacesWithKeys = FALSE, Inject
    PROVE  FrozenInv'
<1> USE DeliveryAssumption
    DEF DeliveryInv, FrozenInv, InInitrd, InRootfs, Inject, InjectAccepted, Job,
       operator, instance, outside, booting, helpers, guestVars, NothingGot, NoJob,
       NoInputs
<1>1. RenderedInv' /\ BoundInv'
    BY AllFrozen, SavedTypes DEF RenderedInv, Immutable, BoundInv, Gateway, Suits,
       Trusted
<1> QED  BY <1>1

LEMMA SyncFrozen ==
    ASSUME DeliveryInv, FrozenInv, RacesWithKeys = FALSE, Sync
    PROVE  FrozenInv'
<1> USE DeliveryAssumption
    DEF DeliveryInv, FrozenInv, InInitrd, InRootfs, Sync, InjectAccepted, Job,
       operator, instance, outside, booting, helpers, guestVars, NothingGot, NoJob,
       NoInputs
<1>1. RenderedInv' /\ BoundInv'
    BY AllFrozen, SavedTypes DEF RenderedInv, Immutable, BoundInv, Gateway, Suits,
       Trusted
<1> QED  BY <1>1

LEMMA BindInputsFrozen ==
    ASSUME DeliveryInv, FrozenInv, RacesWithKeys = FALSE, BindInputs
    PROVE  FrozenInv'
<1> USE DeliveryAssumption
    DEF DeliveryInv, FrozenInv, InInitrd, InRootfs, BindInputs, MatchesRecord,
       HistoricalDisk, Snapshot, operator, instance, outside, booting, helpers,
       guestVars, NothingGot, NoJob, NoInputs
<1>1. RenderedInv' /\ BoundInv'
    BY AllFrozen, SavedTypes DEF RenderedInv, BoundInv, Gateway, Suits, Trusted
<1> QED  BY <1>1

LEMMA RenderFrozen ==
    ASSUME DeliveryInv, FrozenInv, RacesWithKeys = FALSE, Render
    PROVE  FrozenInv'
<1> USE DeliveryAssumption
    DEF DeliveryInv, FrozenInv, InInitrd, InRootfs, Render, BootstrapOf, operator,
       instance, outside, booting, helpers, guestVars, NothingGot, NoJob, NoInputs
<1>1. RenderedInv' /\ BoundInv'
    BY AllFrozen, RenderStep, SavedTypes DEF RenderedInv, JobInv, Frozen, Resource,
       Input, BoundInv, Gateway, Suits, Trusted
<1> QED  BY <1>1

LEMMA SendBootstrapFrozen ==
    ASSUME DeliveryInv, FrozenInv, RacesWithKeys = FALSE, SendBootstrap
    PROVE  FrozenInv'
<1> USE DeliveryAssumption
    DEF DeliveryInv, FrozenInv, InInitrd, InRootfs, SendBootstrap, Put, operator,
       instance, outside, booting, helpers, guestVars, NothingGot, NoJob, NoInputs
<1>1. RenderedInv' /\ BoundInv'
    BY AllFrozen, SavedTypes DEF RenderedInv, JobInv, DeployInv, DeliverInv,
       InstanceInv, GuestType, Stored, BoundInv, Gateway, Suits, Trusted
<1> QED  BY <1>1

LEMMA SendDiskFrozen ==
    ASSUME DeliveryInv, FrozenInv, RacesWithKeys = FALSE, SendDisk
    PROVE  FrozenInv'
<1> USE DeliveryAssumption
    DEF DeliveryInv, FrozenInv, InInitrd, InRootfs, SendDisk, Put, DiskBytes,
       operator, instance, outside, booting, helpers, guestVars, NothingGot, NoJob,
       NoInputs
<1>1. RenderedInv' /\ BoundInv'
    BY AllFrozen, SavedTypes DEF RenderedInv, JobInv, DeployInv, GuestType, Stored,
       Resource, Input, BoundInv, Gateway, Suits, Trusted
<1> QED  BY <1>1

LEMMA FinishFrozen ==
    ASSUME DeliveryInv, FrozenInv, RacesWithKeys = FALSE, Finish
    PROVE  FrozenInv'
<1> USE DeliveryAssumption
    DEF DeliveryInv, FrozenInv, InInitrd, InRootfs, Finish, operator, instance,
       outside, booting, helpers, guestVars, NothingGot, NoJob, NoInputs
<1>1. RenderedInv' /\ BoundInv'
    BY AllFrozen, SavedTypes DEF RenderedInv, JobInv, DeployInv, DeliverInv,
       BoundInv, Gateway, Suits, Trusted
<1> QED  BY <1>1

LEMMA GiveUpFrozen ==
    ASSUME DeliveryInv, FrozenInv, RacesWithKeys = FALSE, GiveUp
    PROVE  FrozenInv'
<1> USE DeliveryAssumption
    DEF DeliveryInv, FrozenInv, InInitrd, InRootfs, GiveUp, operator, instance,
       outside, booting, helpers, guestVars, NothingGot, NoJob, NoInputs
<1>1. RenderedInv' /\ BoundInv'
    BY AllFrozen, SavedTypes DEF RenderedInv, BoundInv, Gateway, Suits, Trusted
<1> QED  BY <1>1

LEMMA DestroyFrozen ==
    ASSUME DeliveryInv, FrozenInv, RacesWithKeys = FALSE, Destroy
    PROVE  FrozenInv'
<1> USE DeliveryAssumption
    DEF DeliveryInv, FrozenInv, InInitrd, InRootfs, Destroy, PowerOff, Becomes,
       HelpersIdle, operator, instance, outside, booting, helpers, guestVars,
       NothingGot, NoJob, NoInputs
<1>1. RenderedInv' /\ BoundInv'
    BY AllFrozen, SavedTypes DEF RenderedInv, BoundInv
<1> QED  BY <1>1

LEMMA UnlockFrozen ==
    ASSUME DeliveryInv, FrozenInv, RacesWithKeys = FALSE, Unlock
    PROVE  FrozenInv'
<1> USE DeliveryAssumption
    DEF DeliveryInv, FrozenInv, InInitrd, InRootfs, Unlock, SwitchRoot, operator,
       instance, outside, booting, helpers, guestVars, NothingGot, NoJob, NoInputs
<1>1. RenderedInv' /\ BoundInv'
    BY AllFrozen, SavedTypes DEF RenderedInv, Uploads, Input, BoundInv, Gateway,
       Suits, Trusted, ConsumedInv
<1> QED  BY <1>1

LEMMA RebootFrozen ==
    ASSUME DeliveryInv, FrozenInv, RacesWithKeys = FALSE, ColdBoot
    PROVE  FrozenInv'
<1> USE DeliveryAssumption
    DEF DeliveryInv, FrozenInv, InInitrd, InRootfs, ColdBoot, PowerOn, Becomes,
       HelpersIdle, operator, instance, outside, booting, helpers, guestVars,
       NothingGot, NoJob, NoInputs
<1>1. RenderedInv' /\ BoundInv'
    BY AllFrozen, SavedTypes DEF RenderedInv, Uploads, Resource, Input, BoundInv,
       Gateway, Suits, Trusted
<1> QED  BY <1>1

----------------------------------------------------------------------------
LEMMA StutterStep ==
    ASSUME DeliveryInv, UNCHANGED deliveryVars
    PROVE  DeliveryInv'
<1> USE DEF DeliveryInv, deliveryVars, operator, instance, outside, booting, helpers
<1>1. (GuestType /\ TimeType /\ FlagType /\ OperatorType)'
    BY DEF GuestType, TimeType, FlagType, OperatorType, RecordType
<1>2. (ModeInv /\ FetchInv /\ ConsumedInv)'
    BY DEF ModeInv, FetchInv, HelpersBounded, ConsumedInv
<1>3. (JobInv /\ InstanceInv /\ KeyInv)'
    BY DEF JobInv, DeployInv, DeliverInv, Uploads, InstanceInv, KeyInv, Key, Trusted
<1> QED  BY <1>1, <1>2, <1>3

(* The guest changes nothing the operator keeps *)
LEMMA GuestStep ==
    ASSUME DeliveryInv, Guest
    PROVE  DeliveryInv'
<1>1. UNCHANGED <<operator, instance>>
    BY DEF Guest
<1>2. GuestInv' /\ InstanceInv' /\ KeyInv'
    BY <1>1, OutOfTimeStep, DetectStep, MeasureStep, ReadInjectedStep,
       StartAgentStep, AgentReadyStep, AgentFailsStep, ReapStep, KillGroupStep,
       JoinStep, ValidateStep, StageStep, PersistStep, LoadRuntimeStep,
       RegisterStep, DaemonRestartsStep, ChildForksStep, ChildExitsStep, TickStep
       DEF Guest, Initrd, Rootfs, Child
<1>3. UNCHANGED kbs
    BY DEF Guest, Initrd, Rootfs, Child, OutOfTime, Detect, Measure, ReadInjected,
       StartAgent, AgentReady, AgentFails, Reap, KillGroup, Join, Validate, Stage,
       Persist, LoadRuntime, Register, DaemonRestarts, ChildForks, ChildExits, Tick,
       outside
<1>4. OperatorType' /\ JobInv'
    BY <1>1, <1>3 DEF DeliveryInv, OperatorType, RecordType, JobInv, DeployInv,
       DeliverInv, Uploads, operator, instance
<1> QED  BY <1>2, <1>4 DEF DeliveryInv, GuestInv

LEMMA NextDeliveryInv == DeliveryInv /\ [DeliveryNext]_deliveryVars => DeliveryInv'
<1> SUFFICES ASSUME DeliveryInv, [DeliveryNext]_deliveryVars PROVE DeliveryInv'
    OBVIOUS
<1>1. CASE Command
    BY <1>1, BeginDeployStep, FreezesStep, PrepareStep, RecordStep, LaunchStep,
       ConfirmStep, ResumeStep, InjectStep, SyncStep, BindInputsStep, RenderStep,
       SendBootstrapStep, SendDiskStep, FinishStep, GiveUpStep, DestroyStep
       DEF Command
<1>2. CASE UNCHANGED deliveryVars
    BY <1>2, StutterStep
<1> QED
    BY <1>1, <1>2, EditFilesStep, EditSpecStep, GuestStep, UnlockStep, ColdBootStep
       DEF DeliveryNext

LEMMA NextFrozen ==
    ASSUME RacesWithKeys = FALSE
    PROVE  DeliveryInv /\ FrozenInv /\ [DeliveryNext]_deliveryVars => FrozenInv'
<1> SUFFICES ASSUME DeliveryInv, FrozenInv, [DeliveryNext]_deliveryVars PROVE FrozenInv'
    OBVIOUS
<1>1. CASE Command
    BY <1>1, BeginDeployFrozen, FreezesFrozen, PrepareFrozen, RecordFrozen,
       LaunchFrozen, ConfirmFrozen, ResumeFrozen, InjectFrozen, SyncFrozen,
       BindInputsFrozen, RenderFrozen, SendBootstrapFrozen, SendDiskFrozen,
       FinishFrozen, GiveUpFrozen, DestroyFrozen DEF Command
<1>2. CASE Guest
  <2>1. UNCHANGED <<operator, instance>>
      BY <1>2 DEF Guest
  <2> QED
      BY <1>2, <2>1, OutOfTimeFrozen, DetectFrozen, MeasureFrozen,
         ReadInjectedFrozen, StartAgentFrozen, AgentReadyFrozen, AgentFailsFrozen,
         ReapFrozen, KillGroupFrozen, JoinFrozen, ValidateFrozen, StageFrozen,
         PersistFrozen, LoadRuntimeFrozen, RegisterFrozen, DaemonRestartsFrozen,
         ChildForksFrozen, ChildExitsFrozen, TickFrozen DEF Guest, Initrd, Rootfs,
         Child
<1>3. CASE UNCHANGED deliveryVars
    BY <1>3 DEF deliveryVars, operator, instance, outside, booting, helpers,
       FrozenInv, RenderedInv, Uploads, BoundInv, Trusted, Gateway, Suits
<1> QED
    BY <1>1, <1>2, <1>3, EditFilesFrozen, EditSpecFrozen, UnlockFrozen, RebootFrozen
       DEF DeliveryNext

LEMMA Inductive == DeliverySpec => []DeliveryInv
BY InitDeliveryInv, NextDeliveryInv, PTL DEF DeliverySpec

(* A guest serves in the mode of its user data: what it unlocked with was    *)
(* made for that mode, the rootfs daemon finds it in /run, and a Trustee     *)
(* daemon serves only with the mode in its own event log.                    *)
THEOREM ModeKept == DeliverySpec => []OneMode
<1>1. DeliveryInv => OneMode
    BY DEF DeliveryInv, ModeInv, OneMode, InRootfs
<1> QED  BY <1>1, Inductive, PTL

(* No helper process outlives its fetch, and none is given more time than is *)
(* left of the boot, whatever the three limits are.                          *)
THEOREM HelpersKept == DeliverySpec => []HelpersBounded
<1>1. DeliveryInv => HelpersBounded
    BY DEF DeliveryInv, FetchInv
<1> QED  BY <1>1, Inductive, PTL

(* However the files change, however often a delivery is repeated, dies or   *)
(* the guest boots, the key staged for the disk is the one it was made with. *)
THEOREM KeyKept == DeliverySpec => []DiskOpens
<1>1. DeliveryInv => DiskOpens
  <2> SUFFICES ASSUME DeliveryInv, point = "unlock" PROVE diskKey \in {Absent, staged}
      BY DEF DiskOpens
  <2>1. phase # "built" /\ staged # Absent
      BY DEF DeliveryInv, InstanceInv, ConsumedInv
  <2> QED  BY <2>1 DEF DeliveryInv, KeyInv
<1> QED  BY <1>1, Inductive, PTL

(* An instance unlocks with the gateway identity of its deployment only, and *)
(* with the resources frozen beside it until an inject was accepted -- unless *)
(* the identity's private file is replaced while a command runs.             *)
THEOREM IdentityKept ==
    ASSUME RacesWithKeys = FALSE
    PROVE  DeliverySpec => []DeliveredAsFrozen
<1>1. DeliveryInv /\ FrozenInv => DeliveredAsFrozen
  <2> SUFFICES ASSUME DeliveryInv, FrozenInv, manifest.inputs # NoInputs, NEW b \in served
               PROVE  /\ b.gateway = manifest.inputs["gateway"]
                      /\ b.app = manifest.inputs["app"] \/ injected
      BY DEF DeliveredAsFrozen
  <2>1. phase # "built"
      BY DEF DeliveryInv, InstanceInv
  <2> QED  BY <2>1 DEF FrozenInv, BoundInv, Suits
<1> QED  BY <1>1, InitDeliveryInv, NextDeliveryInv, NextFrozen, PTL DEF DeliverySpec

-----------------------------------------------------------------------------
(* The resources and the daemon that applies them *)

Bootstrap == [gen : Nat, want : Offer]
PlanType == [boot : Bootstrap \cup {None}, todo : SUBSET Res, write : SUBSET Res,
             touch : SUBSET Res, stopped : BOOLEAN]

\* What arrives belongs to the bootstrap delivered last
DueInv ==
    \A x \in due : offer \in Bootstrap /\ (x # "bootstrap" => offer.want[x] # None)

\* A round works for one bootstrap, on resources that have a source, and is
\* about to write a claimed one only where it is missing
PlanInv ==
    /\ plan \in PlanType /\ (boot = None \/ boot \in Bootstrap)
    /\ pc \in {"manage", "plan", "apply"} => plan.boot \in Bootstrap
    /\ pc = "apply" => \A r \in plan.todo :
          /\ r \in Dom(plan.boot) /\ src[r] # None
          /\ r \in plan.write \cap claimed => target[r] = None

\* Of a claimed resource there is a record
ClaimInv == \A r \in claimed : state.applied[r] # None

ResourceInv == TypeOK /\ DueInv /\ PlanInv /\ ClaimInv

LEMMA NoPlanType == NoPlan \in PlanType
BY DEF NoPlan, PlanType

LEMMA NewPlan ==
    ASSUME NEW b \in Bootstrap
    PROVE  /\ [NoPlan EXCEPT !.boot = b] \in PlanType
           /\ [NoPlan EXCEPT !.boot = b].boot = b
BY NoPlanType DEF PlanType

LEMMA InitResourceInv == Init => ResourceInv
<1> SUFFICES ASSUME Init PROVE ResourceInv
    OBVIOUS
<1> USE ConstAssumption DEF Init
<1>1. TypeOK
    BY DEF TypeOK, StateType, Nothing
<1>2. DueInv /\ PlanInv /\ ClaimInv
    BY NoPlanType DEF DueInv, PlanInv, ClaimInv
<1> QED  BY <1>1, <1>2 DEF ResourceInv

LEMMA DeliverStep ==
    ASSUME ResourceInv, NEW o \in Offer, Deliver(o)
    PROVE  ResourceInv'
<1> USE ConstAssumption
    DEF ResourceInv, Bootstrap, Dom, Deliver, files, guest, daemon, counts
<1>1. TypeOK'
    BY DEF TypeOK, StateType, PlanInv, PlanType, DueInv
<1>2. DueInv'
    BY DEF DueInv, TypeOK
<1>3. PlanInv'
    BY DEF PlanInv, PlanType, TypeOK, StateType, DueInv, ClaimInv
<1>4. ClaimInv'
    BY DEF ClaimInv, TypeOK, StateType, PlanInv, PlanType
<1> QED  BY <1>1, <1>2, <1>3, <1>4

LEMMA ArriveStep ==
    ASSUME ResourceInv, NEW x \in Res \cup {"bootstrap"}, Arrive(x)
    PROVE  ResourceInv'
<1> USE ConstAssumption
    DEF ResourceInv, Bootstrap, Dom, Arrive, files, guest, daemon, counts
<1>1. TypeOK'
    BY DEF TypeOK, StateType, PlanInv, PlanType, DueInv
<1>2. DueInv'
    BY DEF DueInv, TypeOK
<1>3. PlanInv'
    BY DEF PlanInv, PlanType, TypeOK, StateType, DueInv, ClaimInv
<1>4. ClaimInv'
    BY DEF ClaimInv, TypeOK, StateType, PlanInv, PlanType
<1> QED  BY <1>1, <1>2, <1>3, <1>4

LEMMA AppWritesStep ==
    ASSUME ResourceInv, NEW r \in Res, NEW content \in {Own, None}, AppWrites(r, content)
    PROVE  ResourceInv'
<1> USE ConstAssumption
    DEF ResourceInv, Bootstrap, Dom, AppWrites, Change, files, guest, daemon, counts
<1>1. TypeOK'
    BY DEF TypeOK, StateType, PlanInv, PlanType, DueInv
<1>2. DueInv'
    BY DEF DueInv, TypeOK
<1>3. PlanInv'
    BY DEF PlanInv, PlanType, TypeOK, StateType, DueInv, ClaimInv
<1>4. ClaimInv'
    BY DEF ClaimInv, TypeOK, StateType, PlanInv, PlanType
<1> QED  BY <1>1, <1>2, <1>3, <1>4

LEMMA DriftStep ==
    ASSUME ResourceInv, NEW r \in Res, Drift(r)
    PROVE  ResourceInv'
<1> USE ConstAssumption
    DEF ResourceInv, Bootstrap, Dom, Drift, Change, files, guest, daemon, counts
<1>1. TypeOK'
    BY ZenonT(40) DEF TypeOK, StateType, PlanInv, PlanType, DueInv
<1>2. DueInv'
    BY DEF DueInv, TypeOK
<1>3. PlanInv'
    BY DEF PlanInv, PlanType, TypeOK, StateType, DueInv, ClaimInv
<1>4. ClaimInv'
    BY DEF ClaimInv, TypeOK, StateType, PlanInv, PlanType
<1> QED  BY <1>1, <1>2, <1>3, <1>4

LEMMA RoundStep ==
    ASSUME ResourceInv, Round
    PROVE  ResourceInv'
<1> USE ConstAssumption DEF ResourceInv, Round, files, guest, daemon, counts
<1>1. TypeOK'
  <2>1. Retained(boot) \in [Res -> Ver \cup {None}]
      BY DEF TypeOK, StateType, Retained
  <2>2. state' \in StateType
      BY <2>1 DEF TypeOK, StateType
  <2>3. app' \in BOOLEAN /\ claimed' \subseteq Mutable /\ pc' \in {"save", "manage"}
      BY DEF TypeOK
  <2> QED  BY <2>2, <2>3 DEF TypeOK
<1>2. DueInv'
    BY DEF DueInv
<1>3. PlanInv'
  <2>1. CASE pc' = "save"
    <3>1. UNCHANGED plan
        BY <2>1
    <3> QED  BY <2>1, <3>1 DEF PlanInv
  <2>2. CASE pc' = "manage"
    <3>1. boot # None /\ plan' = [NoPlan EXCEPT !.boot = boot]
        BY <2>2
    <3> QED  BY <2>2, <3>1, NewPlan DEF PlanInv
  <2> QED  BY <2>1, <2>2
<1>4. ClaimInv'
    BY DEF ClaimInv, TypeOK, StateType, Retained
<1> QED  BY <1>1, <1>2, <1>3, <1>4

LEMMA ManageStep ==
    ASSUME ResourceInv, Manage
    PROVE  ResourceInv'
<1> USE ConstAssumption
    DEF ResourceInv, Bootstrap, Dom, Manage, Mismatch, Verified, files, guest, daemon, counts
<1>5. [r \in Res |-> IF r \in Management THEN src[r] ELSE target[r]]
          \in [Res -> Ver \cup {Own, None}]
    BY DEF TypeOK
<1>6. [r \in Res |-> IF r \in Management THEN src[r] ELSE state.applied[r]]
          \in [Res -> Ver \cup {None}]
    BY DEF TypeOK, StateType
<1>7. [r \in Res |-> r \in Management \/ meta[r]] \in [Res -> BOOLEAN]
    BY Zenon DEF TypeOK
<1>1. TypeOK'
  <2>1. target' \in [Res -> Ver \cup {Own, None}]
      BY <1>5 DEF TypeOK
  <2>2. meta' \in [Res -> BOOLEAN] /\ ready' \in BOOLEAN
      BY <1>7 DEF TypeOK
  <2>3. state' \in StateType /\ pc' \in {"plan", "save"}
      BY <1>6 DEF TypeOK, StateType
  <2> QED  BY <2>1, <2>2, <2>3 DEF TypeOK
<1>2. DueInv'
    BY DEF DueInv, TypeOK
<1>3. PlanInv'
    BY DEF PlanInv, PlanType, TypeOK, StateType, DueInv, ClaimInv
<1>4. ClaimInv'
    BY DEF ClaimInv, TypeOK, StateType, PlanInv, PlanType
<1> QED  BY <1>1, <1>2, <1>3, <1>4

LEMMA PlanStep ==
    ASSUME ResourceInv, Plan
    PROVE  ResourceInv'
<1> USE ConstAssumption
    DEF ResourceInv, Bootstrap, Dom, Plan, Mismatch, Verified, Rewrite, Touch,
        files, guest, daemon, counts
<1>1. TypeOK'
    BY DEF TypeOK, StateType, PlanInv, PlanType, DueInv
<1>2. DueInv'
    BY DEF DueInv, TypeOK
<1>3. PlanInv'
  <2>1. CASE pc' = "save"
      BY <2>1 DEF PlanInv
  <2>2. CASE pc' = "apply"
    <3> DEFINE b == plan.boot
               present == {r \in Dom(b) : src[r] # None}
               content == {r \in present : Rewrite(b, r)}
               touch == {r \in present : Touch(b, r)}
               stopped == content # {} /\ app
    <3>1. plan' = [boot |-> b, todo |-> present, write |-> content, touch |-> touch,
                   stopped |-> stopped]
        BY <2>2
    <3>2. present \in SUBSET Res /\ content \in SUBSET Res /\ touch \in SUBSET Res
        OBVIOUS
    <3>3. stopped \in BOOLEAN
        BY Zenon
    <3>4. \A r \in present : r \in content \cap claimed => target[r] = None
        BY DEF TypeOK, ClaimInv
    <3> HIDE DEF present, content, touch, stopped
    <3>5. plan' \in PlanType
        BY <3>1, <3>2, <3>3 DEF PlanInv, PlanType
    <3> QED  BY <2>2, <3>1, <3>4, <3>5 DEF PlanInv, present
  <2> QED  BY <2>1, <2>2
<1>4. ClaimInv'
    BY DEF ClaimInv, TypeOK, StateType, PlanInv, PlanType
<1> QED  BY <1>1, <1>2, <1>3, <1>4

LEMMA WriteStep ==
    ASSUME ResourceInv, NEW r \in Res, Write(r)
    PROVE  ResourceInv'
<1> USE ConstAssumption
    DEF ResourceInv, Bootstrap, Dom, Write, Digest, files, guest, daemon, counts
<1>1. TypeOK'
    BY DEF TypeOK, StateType, PlanInv, PlanType, DueInv
<1>2. DueInv'
    BY DEF DueInv, TypeOK
<1>3. PlanInv'
    BY DEF PlanInv, PlanType, TypeOK, StateType, DueInv, ClaimInv
<1>4. ClaimInv'
    BY DEF ClaimInv, TypeOK, StateType, PlanInv, PlanType
<1> QED  BY <1>1, <1>2, <1>3, <1>4

LEMMA StartStep ==
    ASSUME ResourceInv, Start
    PROVE  ResourceInv'
<1> USE ConstAssumption
    DEF ResourceInv, Bootstrap, Dom, Start, NoPlan, files, guest, daemon, counts
<1>1. TypeOK'
    BY DEF TypeOK, StateType, PlanInv, PlanType, DueInv
<1>2. DueInv'
    BY DEF DueInv, TypeOK
<1>3. PlanInv'
    BY DEF PlanInv, PlanType, TypeOK, StateType, DueInv, ClaimInv
<1>4. ClaimInv'
    BY DEF ClaimInv, TypeOK, StateType, PlanInv, PlanType
<1> QED  BY <1>1, <1>2, <1>3, <1>4

LEMMA FailStep ==
    ASSUME ResourceInv, Fail
    PROVE  ResourceInv'
<1> USE ConstAssumption
    DEF ResourceInv, Bootstrap, Dom, Fail, Fault, NoPlan, files, guest, daemon, counts
<1>1. TypeOK'
    BY DEF TypeOK, StateType, PlanInv, PlanType, DueInv
<1>2. DueInv'
    BY DEF DueInv, TypeOK
<1>3. PlanInv'
    BY DEF PlanInv, PlanType, TypeOK, StateType, DueInv, ClaimInv
<1>4. ClaimInv'
    BY DEF ClaimInv, TypeOK, StateType, PlanInv, PlanType
<1> QED  BY <1>1, <1>2, <1>3, <1>4

LEMMA SaveStep ==
    ASSUME ResourceInv, Save
    PROVE  ResourceInv'
<1> USE ConstAssumption
    DEF ResourceInv, Bootstrap, Dom, Save, Seeded, NoPlan, files, guest, daemon, counts
<1>1. TypeOK'
    BY DEF TypeOK, StateType, PlanInv, PlanType, DueInv
<1>2. DueInv'
    BY DEF DueInv, TypeOK
<1>3. PlanInv'
    BY DEF PlanInv, PlanType, TypeOK, StateType, DueInv, ClaimInv
<1>4. ClaimInv'
    BY DEF ClaimInv, TypeOK, StateType, PlanInv, PlanType
<1> QED  BY <1>1, <1>2, <1>3, <1>4

LEMMA SaveFailsStep ==
    ASSUME ResourceInv, SaveFails
    PROVE  ResourceInv'
<1> USE ConstAssumption
    DEF ResourceInv, Bootstrap, Dom, SaveFails, Fault, NoPlan, files, guest, daemon, counts
<1>1. TypeOK'
    BY DEF TypeOK, StateType, PlanInv, PlanType, DueInv
<1>2. DueInv'
    BY DEF DueInv, TypeOK
<1>3. PlanInv'
    BY DEF PlanInv, PlanType, TypeOK, StateType, DueInv, ClaimInv
<1>4. ClaimInv'
    BY DEF ClaimInv, TypeOK, StateType, PlanInv, PlanType
<1> QED  BY <1>1, <1>2, <1>3, <1>4

LEMMA DieStep ==
    ASSUME ResourceInv, Die
    PROVE  ResourceInv'
<1> USE ConstAssumption
    DEF ResourceInv, Bootstrap, Dom, Die, Fault, Restart, NoPlan, files, guest, daemon, counts
<1>1. TypeOK'
    BY DEF TypeOK, StateType, PlanInv, PlanType, DueInv
<1>2. DueInv'
    BY DEF DueInv, TypeOK
<1>3. PlanInv'
    BY DEF PlanInv, PlanType, TypeOK, StateType, DueInv, ClaimInv
<1>4. ClaimInv'
    BY DEF ClaimInv, TypeOK, StateType, PlanInv, PlanType
<1> QED  BY <1>1, <1>2, <1>3, <1>4

LEMMA RebootStep ==
    ASSUME ResourceInv, Reboot
    PROVE  ResourceInv'
<1> USE ConstAssumption
    DEF ResourceInv, Bootstrap, Dom, Reboot, Fault, Restart, NoPlan, files, guest, daemon, counts
<1>1. TypeOK'
    BY DEF TypeOK, StateType, PlanInv, PlanType, DueInv
<1>2. DueInv'
    BY DEF DueInv, TypeOK
<1>3. PlanInv'
    BY DEF PlanInv, PlanType, TypeOK, StateType, DueInv, ClaimInv
<1>4. ClaimInv'
    BY DEF ClaimInv, TypeOK, StateType, PlanInv, PlanType
<1> QED  BY <1>1, <1>2, <1>3, <1>4

LEMMA NextResourceInv == ResourceInv /\ [Next]_vars => ResourceInv'
<1> SUFFICES ASSUME ResourceInv, [Next]_vars PROVE ResourceInv'
    OBVIOUS
<1>1. CASE UNCHANGED vars
    BY <1>1 DEF vars, files, guest, daemon, counts, ResourceInv, TypeOK, DueInv, PlanInv, ClaimInv
<1> QED
    BY <1>1, DeliverStep, ArriveStep, DriftStep, AppWritesStep, RoundStep, ManageStep, PlanStep,
       WriteStep, StartStep, SaveStep, FailStep, SaveFailsStep, DieStep, RebootStep
       DEF Next, Step

(* The types are kept, for any resources and versions.                       *)
THEOREM TypeCorrect == Spec => []TypeOK
<1>1. ResourceInv => TypeOK
    BY DEF ResourceInv
<1> QED  BY <1>1, InitResourceInv, NextResourceInv, PTL DEF Spec

(* A mutable resource whose seeding was saved is written again only where it *)
(* is missing: what the application made of it is never replaced.            *)
LEMMA KeptStep == ResourceInv /\ [Next]_vars =>
    \A r \in Mutable : r \in claimed /\ target[r] = Own => target'[r] \in {Own, None}
<1> SUFFICES ASSUME ResourceInv, [Next]_vars, NEW r \in Mutable, r \in claimed, target[r] = Own
             PROVE  target'[r] \in {Own, None}
    OBVIOUS
<1> USE ConstAssumption DEF ResourceInv, TypeOK
<1>1. ASSUME NEW x \in Res, Write(x) PROVE target'[r] = Own
    BY <1>1 DEF Write, PlanInv
<1>2. CASE Manage
    BY <1>2 DEF Manage
<1>3. ASSUME NEW x \in Res, Drift(x) \/ AppWrites(x, Own) \/ AppWrites(x, None)
      PROVE  target'[r] \in {Own, None}
    BY <1>3 DEF Drift, AppWrites
<1>4. CASE UNCHANGED target
    BY <1>4
<1> QED
    BY <1>1, <1>2, <1>3, <1>4
       DEF Next, Step, vars, Deliver, Arrive, Round, Plan, Start, Save, Fail, SaveFails, Die,
           Reboot, guest

(* Once state.json has the seeding of a mutable resource, no round, death or *)
(* reboot replaces what the application made of it (docs/spec.md:365).       *)
THEOREM MutablesKept == Spec => MutableKept
<1>1. Init /\ [][Next]_vars => []ResourceInv
    BY InitResourceInv, NextResourceInv, PTL
<1> QED  BY <1>1, KeptStep, PTL DEF Spec, MutableKept

=============================================================================
