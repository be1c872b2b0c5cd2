------------------------------ MODULE Delivery ------------------------------
(***************************************************************************)
(* What a deployment freezes and what is delivered to its guest            *)
(* (cli/src/app/state.rs, commands.rs cmd_deploy and cmd_inject,           *)
(* workflows.rs inject_resources), composed with the boot of the guest.    *)
(*                                                                         *)
(* The operator edits the AppSpec and the files it names between and       *)
(* during commands; deploy freezes them, deploy --resume delivers what was *)
(* frozen, inject delivers current resources around the frozen secrets.    *)
(* One service, one instance; file contents are version numbers.  The      *)
(* instance's disk is bound to the first key it is opened with.            *)
(***************************************************************************)
EXTENDS GuestBoot

CONSTANTS
    MaxVersion, \* bound: contents a file can have
    MaxEdits,   \* bound on edits
    MaxBoots,   \* bound on starts of the instance
    RacesWithKeys   \* the generated identity is edited while a command runs

ASSUME DeliveryAssumption ==
    /\ MaxVersion \in Nat \ {0} /\ MaxEdits \in Nat /\ MaxBoots \in Nat
    /\ RacesWithKeys \in BOOLEAN

Mode == {"challenge", "trustee"}
Version == 1..MaxVersion
\* secret:disk_passphrase, identity:gateway, the user's resource:*
Input == {"disk", "gateway", "app"}

\* immutable_deployment_input
Immutable == {"disk", "gateway"}

NoInputs == << >>
Snapshot(s, inputs) == [spec |-> s, inputs |-> inputs]
NoJob == [op |-> "none"]

\* deploy and resume deliver the frozen inputs (deployment_delivery_spec),
\* inject the frozen disk key among the resources of today
Job(op, step, snap) ==
    [op |-> op, step |-> step, spec |-> snap.spec, inputs |-> snap.inputs,
     bootstrap |-> Absent]

VARIABLES
    file,       \* the contents of each input's source
    spec,       \* the AppSpec: attestation.mode, what inject may not change
                \* (infra) and what it may (rev)
    phase,      \* LocalServiceState.phase: "built", "deploying", "deployed", "active"
    manifest,   \* manifest.deployment: the AppSpec and the frozen inputs
    job,        \* the running command
    injected,   \* an inject has been accepted for this instance
    edits,
    (* the instance *)
    diskKey,    \* the key its disk was made with, or Absent
    served,     \* the bootstraps it has unlocked with
    boots

operator == <<file, spec, phase, manifest, job, injected, edits>>
instance == <<diskKey, served, boots>>
deliveryVars == <<operator, instance, outside, booting, helpers>>

BootstrapOf(s, gateway, app) ==
    [mode |-> s.mode, gateway |-> gateway, app |-> app]

\* nothing is deployed yet, or a Trustee instance is whose deployment was
\* recorded by a version that froze nothing
InitBuilt ==
    /\ spec \in [mode: Mode, infra: {1}, rev: {1}]
    /\ phase = "built"
    /\ diskKey = Absent /\ served = {} /\ boots = 0
    /\ userdata = "none" /\ kbs = NothingGot
    /\ Fresh("off")
InitLegacy ==
    /\ spec = [mode |-> "trustee", infra |-> 1, rev |-> 1]
    /\ phase = "active"
    /\ diskKey = 1 /\ served = {BootstrapOf(spec, 1, 1)} /\ boots = 1
    /\ userdata = "runtime"
    /\ kbs = [r \in Resource |-> IF r = "disk" THEN 1
                                 ELSE BootstrapOf(spec, 1, 1)]
    /\ point = "serve" /\ left = 0 /\ mode = "trustee"
    /\ want = "disk" /\ got = kbs /\ staged = 1 /\ runtime = TRUE
    /\ measured = TRUE /\ daemonMode = "trustee"
    /\ budget = 0 /\ readyIn = 0 /\ agent = FALSE
    /\ child = "none" /\ heirs = FALSE /\ answer = Absent

DeliveryInit ==
    /\ file = [i \in Input |-> 1]
    /\ InitBuilt \/ InitLegacy
    /\ manifest = Snapshot(spec, NoInputs) /\ job = NoJob
    /\ injected = FALSE /\ edits = 0
    /\ cdh = NothingGot

----------------------------------------------------------------------------
(* The operator's files *)

Edit == edits < MaxEdits /\ edits' = edits + 1

\* the generated identity lies in the state directory: while a command runs
\* nobody touches it, unless RacesWithKeys
EditFile(i) ==
    /\ Edit
    /\ i = "gateway" => job = NoJob \/ RacesWithKeys
    /\ \E v \in Version \ {file[i]} : file' = [file EXCEPT ![i] = v]
    /\ UNCHANGED <<spec, phase, manifest, job, injected, instance, outside,
                   guestVars>>

EditSpec ==
    /\ Edit
    /\ \/ \E m \in Mode \ {spec.mode} : spec' = [spec EXCEPT !.mode = m]
       \/ \E v \in Version \ {spec.infra} : spec' = [spec EXCEPT !.infra = v]
       \/ \E v \in Version \ {spec.rev} : spec' = [spec EXCEPT !.rev = v]
    /\ UNCHANGED <<file, phase, manifest, job, injected, instance, outside,
                   guestVars>>

----------------------------------------------------------------------------
(* deploy *)

\* deployment_snapshot: the AppSpec is read once
BeginDeploy ==
    /\ job = NoJob /\ phase = "built" /\ boots < MaxBoots
    /\ job' = Job("deploy", "freeze", Snapshot(spec, NoInputs))
    /\ UNCHANGED <<file, spec, phase, manifest, injected, edits, instance,
                   outside, guestVars>>

\* freeze_deployment_inputs: one file after the other, each read once; with
\* Trustee the resources go to the KBS before anything is prepared
Freeze(i) ==
    /\ job.op = "deploy" /\ job.step = "freeze"
    /\ i \notin DOMAIN job.inputs
    /\ job' = [job EXCEPT
                  !.inputs = [k \in DOMAIN @ \cup {i} |->
                                 IF k = i THEN file[i] ELSE @[k]],
                  !.step = IF DOMAIN job.inputs # Input \ {i} THEN "freeze"
                           ELSE IF job.spec.mode = "trustee" THEN "render"
                           ELSE "prepare"]
    /\ UNCHANGED <<file, spec, phase, manifest, injected, edits, instance,
                   outside, guestVars>>

\* prepare renders the configuration and writes a manifest without snapshot
Prepare ==
    /\ job.op = "deploy" /\ job.step = "prepare"
    /\ manifest' = Snapshot(job.spec, NoInputs)
    /\ job' = [job EXCEPT !.step = "record"]
    /\ UNCHANGED <<file, spec, phase, injected, edits, instance, outside,
                   guestVars>>

\* the snapshot is in the manifest, then the attempt in the state file
Record ==
    /\ job.op = "deploy" /\ job.step = "record"
    /\ manifest' = Snapshot(job.spec, job.inputs)
    /\ phase' = "deploying" /\ injected' = FALSE
    /\ job' = [job EXCEPT !.step = "launch"]
    /\ UNCHANGED <<file, spec, edits, instance, outside, guestVars>>

\* Shelter creates the instance, its user data naming the KBS
Launch ==
    /\ job.op = "deploy" /\ job.step = "launch"
    /\ diskKey' = Absent /\ served' = {} /\ boots' = boots + 1
    /\ userdata' = IF manifest.spec.mode = "trustee" THEN "runtime" ELSE "none"
    /\ PowerOn
    /\ job' = [job EXCEPT !.step = "confirm"]
    /\ UNCHANGED <<file, spec, phase, manifest, injected, edits, kbs>>

\* resolve_deploy_observation; from here on it is what --resume does
Confirm ==
    /\ job.op = "deploy" /\ job.step = "confirm"
    /\ phase' = "deployed"
    /\ job' = [job EXCEPT !.step = "render", !.op = "resume"]
    /\ UNCHANGED <<file, spec, manifest, injected, edits, instance, outside,
                   guestVars>>

----------------------------------------------------------------------------
(* deploy --resume, inject *)

\* validate_resume_inputs
ResumeAccepted ==
    /\ manifest.inputs # NoInputs
    /\ spec = manifest.spec
    /\ \A i \in Input : file[i] = manifest.inputs[i]

InjectAnyIdentity(m) ==
    /\ manifest.inputs # NoInputs
    /\ m = manifest.spec.mode /\ spec.infra = manifest.spec.infra
    /\ file["disk"] = manifest.inputs["disk"]

\* validated_injection_spec: neither the instance nor its secrets change
InjectAccepted(m) ==
    /\ manifest.inputs # NoInputs
    /\ m = manifest.spec.mode /\ spec.infra = manifest.spec.infra
    /\ \A i \in Immutable : file[i] = manifest.inputs[i]

Resume ==
    /\ job = NoJob /\ phase = "deployed" /\ ResumeAccepted
    /\ job' = Job("resume", "render", manifest)
    /\ UNCHANGED <<file, spec, phase, manifest, injected, edits, instance,
                   outside, guestVars>>

Inject ==
    /\ job = NoJob /\ phase \in {"deployed", "active"}
    /\ InjectAccepted(spec.mode)
    /\ job' = Job("inject", "render", manifest)
    /\ injected' = TRUE
    /\ UNCHANGED <<file, spec, phase, manifest, edits, instance, outside,
                   guestVars>>

\* trustee sync: the provider of the deployment, whatever the AppSpec says
Sync ==
    /\ job = NoJob /\ phase # "built" /\ manifest.spec.mode = "trustee"
    /\ InjectAccepted("trustee")
    /\ job' = Job("sync", "render", manifest)
    /\ injected' = TRUE
    /\ UNCHANGED <<file, spec, phase, manifest, edits, instance, outside,
                   guestVars>>

\* what an older version has recorded of a Trustee deployment: the digest of
\* the disk secret with the Trustee state, the gateway key in the state file
HistoricalDisk == kbs["disk"]
MatchesRecord ==
    /\ spec = manifest.spec
    /\ file["gateway"] = kbs["bootstrap"].gateway
    /\ file["disk"] = HistoricalDisk

\* upgrade bind-inputs: today's files are frozen for an instance deployed
\* without, if they are the recorded ones
BindInputs ==
    /\ job = NoJob /\ phase \in {"deployed", "active"}
    /\ manifest.inputs = NoInputs /\ manifest.spec.mode = "trustee"
    /\ MatchesRecord
    /\ manifest' = Snapshot(spec, file) /\ injected' = TRUE
    /\ UNCHANGED <<file, spec, phase, job, edits, instance, outside, guestVars>>

----------------------------------------------------------------------------
(* inject_resources, sync_service *)

\* render_bootstrap: the gateway identity and the digests of the resources
Render ==
    /\ job # NoJob /\ job.step = "render"
    /\ job' = [job EXCEPT !.step = "bootstrap",
                  !.bootstrap = BootstrapOf(job.spec, file["gateway"],
                      IF job.op \in {"inject", "sync"} THEN file["app"]
                      ELSE job.inputs["app"])]
    /\ UNCHANGED <<file, spec, phase, manifest, injected, edits, instance,
                   outside, guestVars>>

\* challenge_inject reaches a machine that is on; the KBS is always there
Put(r, bytes) ==
    IF job.spec.mode = "trustee"
    THEN kbs' = [kbs EXCEPT ![r] = bytes] /\ UNCHANGED cdh
    ELSE /\ point \in InInitrd \cup InRootfs
         /\ cdh' = [cdh EXCEPT ![r] = bytes] /\ UNCHANGED kbs

SendBootstrap ==
    /\ job # NoJob /\ job.step = "bootstrap"
    /\ Put("bootstrap", job.bootstrap)
    /\ job' = [job EXCEPT !.step = "disk"]
    /\ UNCHANGED <<file, spec, phase, manifest, injected, edits, instance,
                   userdata, guestVars>>

\* the bytes are read when they are sent, from the private copy
SourceBytes == file["disk"]
DiskBytes == job.inputs["disk"]

SendDisk ==
    /\ job # NoJob /\ job.step = "disk"
    /\ Put("disk", DiskBytes)
    /\ job' = [job EXCEPT !.step = IF job.op = "deploy" THEN "prepare"
                                   ELSE "finish"]
    /\ UNCHANGED <<file, spec, phase, manifest, injected, edits, instance,
                   userdata, guestVars>>

\* the guest is ready: complete_activation
Finish ==
    /\ job # NoJob /\ job.step = "finish" /\ point = "serve"
    /\ phase' = IF job.op = "sync" THEN phase ELSE "active"
    /\ job' = NoJob
    /\ UNCHANGED <<file, spec, manifest, injected, edits, instance, outside,
                   guestVars>>

\* an error, a timeout, or the process is killed
GiveUp ==
    /\ job # NoJob /\ job' = NoJob
    /\ UNCHANGED <<file, spec, phase, manifest, injected, edits, instance,
                   outside, guestVars>>

\* destroy, here in one step: ServiceLifecycle and TrusteePolicy have them all
Destroy ==
    /\ job = NoJob /\ phase # "built"
    /\ phase' = "built"
    /\ diskKey' = Absent /\ served' = {}
    /\ kbs' = NothingGot /\ userdata' = "none" /\ PowerOff
    /\ UNCHANGED <<file, spec, manifest, job, injected, edits, boots>>

----------------------------------------------------------------------------
(* The instance *)

\* the first key the disk is opened with becomes its key
Unlock ==
    /\ SwitchRoot
    /\ diskKey \in {Absent, staged} /\ diskKey' = staged
    /\ served' = served \cup {got["bootstrap"]}
    /\ UNCHANGED <<operator, boots>>

\* a cold boot; the user data stays, /run does not
ColdBoot ==
    /\ point \in InRootfs \cup {"failed", "unlock"} /\ boots < MaxBoots
    /\ boots' = boots + 1
    /\ PowerOn
    /\ UNCHANGED <<operator, diskKey, served, userdata, kbs>>

Guest == (Initrd \/ Rootfs \/ Child \/ Tick) /\ UNCHANGED <<operator, instance>>

Command ==
    \/ BeginDeploy \/ (\E i \in Input : Freeze(i)) \/ Prepare
    \/ Record \/ Launch \/ Confirm \/ Resume \/ Inject \/ Sync \/ BindInputs
    \/ Render \/ SendBootstrap \/ SendDisk \/ Finish \/ GiveUp \/ Destroy

DeliveryNext ==
    \/ (\E i \in Input : EditFile(i)) \/ EditSpec
    \/ Command
    \/ Guest \/ Unlock \/ ColdBoot

\* the guest's own steps and time; nothing is promised of the operator, the
\* KBS or the helper processes
DeliverySpec ==
    /\ DeliveryInit /\ [][DeliveryNext]_deliveryVars
    /\ WF_deliveryVars(Initrd /\ UNCHANGED <<operator, instance>>)
    /\ WF_deliveryVars(Tick /\ UNCHANGED <<operator, instance>>)

----------------------------------------------------------------------------
(* Properties *)

\* A guest that unlocks has the key its disk was made with, however often
\* the files were edited, the delivery repeated and the guest restarted:
\* inject and --resume refuse another key and deliver the frozen copy.
DiskOpens == point = "unlock" => diskKey \in {Absent, staged}

\* An instance unlocks only with the gateway identity that was frozen when it
\* was deployed, and until an inject was accepted only with the resources
\* frozen then, whatever becomes of their sources.
DeliveredAsFrozen ==
    manifest.inputs # NoInputs => \A b \in served :
        /\ b.gateway = manifest.inputs["gateway"]
        /\ b.app = manifest.inputs["app"] \/ injected
=============================================================================
