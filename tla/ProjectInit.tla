---------------------------- MODULE ProjectInit ----------------------------
(***************************************************************************)
(* From `init` to a served AgentCard.  cmd_init (cli/src/app/init.rs,      *)
(* cli/src/app/init/staged.rs) checks its arguments, replaces the output   *)
(* directory, writes a project from a template, adapts its spec to the     *)
(* stage and validates the result; any step may fail and init be run       *)
(* again.  Then the operator edits the spec, and deploy validates it,      *)
(* creates the instance and renders the card that the peers check.         *)
(***************************************************************************)
EXTENDS Declarations

CONSTANTS
    Argument,       \* the command lines init is given: records, see Arguments
    Inside,         \* sets of named files that may lie in the output directory
    Edited,         \* values that are edited into a spec, by its field
    StagedRekor,    \* whether --stage deploy is run for Rekor reference values
    MaxRuns, MaxEdits    \* bounds

Targets == {"allinone", "openclaw", "openclaw-vllm", "hermes", "codex", "claudecode",
            "vllm-inference"}
Harnesses == {"openclaw", "hermes", "codex", "claude-code", "qodercli", "opencode"}
Inputs == {"release", "key", "cosign", "model"}
\* what is typed in, or asked for
Values == {"dashscope", "dingtalk-id", "dingtalk-secret", "bucket"}
\* `harness`, `mode`, `id`, `imageId`, `manifest` and `token` may be "none"; an
\* `imageId` is the ID of a cloud image, or empty or otherwise malformed.  `zone`
\* is "text" by default: it stands for --region, --zone-id and --instance-type
Arguments ==
    [target : Targets, stage : {"none", "build", "deploy"},
     harness : STRING, mode : {"none", "cli", "gateway", "app-server"},
     id : {"none", "plain", "blank"}, imageId : {"none", "cloud", "bad"},
     zone : {"text", "blank"}, manifest : {"none", "digest", "short"},
     token : {"none", "long", "short"}, variants : SUBSET {"release", "debug"},
     replicas : Nat, disk : SUBSET Nat, references : {"sample", "rekor"},
     pep : BOOLEAN, dingtalk : BOOLEAN, interactive : BOOLEAN,
     given : SUBSET Values, named : SUBSET Inputs, unverified : BOOLEAN, force : BOOLEAN]

ASSUME InitAssumption ==
    /\ Argument \subseteq Arguments
    /\ Inside \subseteq SUBSET Inputs
    /\ \A field \in DOMAIN Edited : Edited[field] \subseteq AgentSpec[field]
    /\ \A field \in DOMAIN Edited \cap Optional : \A v \in Edited[field] : \A x, y \in v : x = y
    /\ StagedRekor \in BOOLEAN
    /\ MaxRuns \in Nat /\ MaxEdits \in Nat

VARIABLES
    pc,
    args,     \* what init was given
    dir,      \* the output directory: "absent", "dir", "link" or "file"
    place,    \* the files named on the command line: "outside" it, "inside" or "gone"
    files,    \* what init has written there, besides the spec
    spec,     \* the spec in the directory
    card,     \* the card the instance serves
    runs, edits    \* history: for the bounds

vars == <<pc, args, dir, place, files, spec, card, runs, edits>>

NoArguments == [target |-> "none"]
NoSpec == [written |-> FALSE]

----------------------------------------------------------------------------
(* The arguments *)

DefaultDisk(a) ==
    CASE a.target = "allinone" -> 120
      [] a.target = "openclaw" -> 200
      [] a.target \in {"openclaw-vllm", "vllm-inference"} -> 512
      [] a.target = "hermes" -> IF a.stage = "none" THEN 30 ELSE 60
      [] OTHER -> 60
Disk(a) == IF a.disk = None THEN DefaultDisk(a) ELSE CHOOSE d \in a.disk : TRUE

BaseDisk(target) ==
    CASE target \in {"allinone", "vllm-inference"} -> 80
      [] target = "openclaw-vllm" -> 160
      [] OTHER -> 30

Exists(f) == place[f] = "outside" \/ (place[f] = "inside" /\ dir # "absent")

\* harness_choices: the modes of a harness, the first without a port
Modes(harness) ==
    CASE harness \in {"openclaw", "hermes"} -> {"cli", "gateway"}
      [] harness = "codex" -> {"cli", "app-server"}
      [] OTHER -> {"cli"}
Mode(a) ==
    IF a.mode # "none" THEN a.mode
    ELSE IF a.harness \in {"openclaw", "hermes"} THEN "gateway" ELSE "cli"
HarnessAccepted(a) == a.harness \in Harnesses /\ Mode(a) \in Modes(a.harness)

\* the ports of the harness, or of the target
HasPort(a) ==
    CASE a.target = "allinone" -> a.stage = "deploy" /\ Mode(a) # "cli"
      [] a.target = "claudecode" -> FALSE
      [] OTHER -> TRUE

\* faulty variant of InputsOutside: only the release is compared
ReleaseOutside(a) ==
    dir # "absent" /\ "release" \in a.named => place["release"] = "outside"

\* the release and its key survive the replacement of the directory
InputsOutside(a) ==
    dir # "absent" => \A f \in a.named \cap {"release", "key"} : place[f] = "outside"

\* staged::validate_args
NoInstance(a) ==
    /\ a.harness = "none" /\ a.mode = "none" /\ a.manifest = "none" /\ a.imageId = "none"
    /\ a.named \cap {"release", "key"} = {} /\ ~a.unverified
ReleaseNamed(a) ==
    /\ "release" \in a.named /\ Exists("release")
    /\ ~a.unverified => "key" \in a.named /\ Exists("key")
Staged(a) ==
    /\ a.target # "allinone" => a.harness = "none" /\ a.mode = "none"
    /\ Disk(a) > BaseDisk(a.target)
    /\ a.variants = {"release"}
StageAccepted(a) ==
    CASE a.stage = "none" -> NoInstance(a) /\ a.id = "none"
      [] a.stage = "build" -> Staged(a) /\ NoInstance(a)
      [] a.stage = "deploy" ->
            /\ Staged(a) /\ a.id # "none"
            /\ ReleaseNamed(a) /\ a.manifest # "short"
            /\ a.target = "allinone" => HarnessAccepted(a)
            /\ HasPort(a) \/ a.replicas = 1
            /\ InputsOutside(a)
ArgumentsAccepted(a) ==
    /\ a.id # "blank"
    /\ a.replicas > 0
    /\ StageAccepted(a)
    /\ a.target = "allinone" => Disk(a) >= 120 /\ ~a.dingtalk /\ a.pep

\* resolve_project: the values it cannot do without; those that are asked for
\* at a terminal must not be blank
Needed(a) ==
    IF a.stage = "build" THEN {}
    ELSE (IF a.target \in {"openclaw-vllm", "vllm-inference"} \/ a.harness = "qodercli"
          THEN {} ELSE {"dashscope"})
         \cup (IF a.dingtalk /\ a.target \in {"openclaw", "openclaw-vllm"}
               THEN {"dingtalk-id", "dingtalk-secret"} ELSE {})
Resolved(a, answered) ==
    /\ a.target = "openclaw-vllm" => a.pep
    /\ Needed(a) \subseteq a.given \/ (a.interactive /\ answered)
    /\ a.token # "short"
    /\ a.target \in {"openclaw-vllm", "vllm-inference"} => a.variants # {}
    /\ a.target = "vllm-inference" /\ a.stage # "build" =>
          "bucket" \in a.given /\ "model" \in a.named

----------------------------------------------------------------------------
(* The templates and what a stage makes of them *)

RekorBlock(a) == IF a.references = "rekor" THEN Some([required |-> TRUE, key |-> TRUE]) ELSE None
Resize(gb) == Some([number |-> gb, unit |-> "GB"])

\* what is copied from the examples for a build.  "skill": the one for remote
\* attestation; "files": the others of the example
Copied(a) ==
    CASE a.target = "vllm-inference" -> {"nvidia", "install"}
      [] a.target = "openclaw-vllm" -> {"files", "skill", "nvidia", "install"}
      [] a.target = "allinone" -> {"files", "openclaw", "skill", "runtimes", "install", "contract"}
      [] OTHER -> {"files", "skill", "install"}

\* what is written for an instance, with the credentials
HarnessSecrets(a) ==
    CASE a.harness = "codex" ->
            {"config.toml"} \cup (IF Mode(a) = "app-server" THEN {"app-server-token"} ELSE {})
      [] a.harness = "hermes" -> {"config.yaml"}
      [] a.harness = "openclaw" -> {"openclaw.json"}
      [] a.harness = "claude-code" -> {"claude.json"}
      [] a.harness = "opencode" -> {"opencode.json"}
      [] OTHER -> {}
Secrets(a) ==
    CASE a.target = "openclaw" -> {"openclaw.json"}
      [] a.target = "openclaw-vllm" -> {"openclaw-vllm.json"}
      [] a.target = "hermes" -> {"hermes.env", "config.yaml"}
      [] a.target = "codex" -> {"config.toml", "codex.env", "app-server-token"}
      [] a.target = "claudecode" -> {"settings.json", "claude.json"}
      [] a.target = "vllm-inference" -> {"model-decryption-key", "cai-model.env"}
      [] a.target = "allinone" -> HarnessSecrets(a) \cup {"runtime.json"}
AsResources(names) == {[name |-> f, source |-> f, absolute |-> TRUE] : f \in names}

\* openclaw_vllm_variants_yaml and deploy_variant
Variants(s, a) ==
    [s EXCEPT !.repos = <<[name |-> "os", https |-> TRUE]>>,
              !.release = "release" \in a.variants,
              !.debug = IF "debug" \in a.variants THEN Some(TRUE) ELSE None,
              !.variant = IF "debug" \in a.variants THEN "debug" ELSE "release"]

\* what the templates have in common
CodexYaml(a) ==
    [written |-> TRUE, id |-> "text", app |-> Some("text"), imageName |-> "text",
     packages |-> <<"git", "jq">>, repos |-> <<>>, releaseKey |-> FALSE, zone |-> a.zone,
     mode |-> "challenge",
     ports |-> <<1>>, connect |-> <<[port |-> 1, encryption |-> "rats-tls"]>>, mcp |-> <<>>,
     ssh |-> FALSE, sources |-> Copied(a), release |-> FALSE, debug |-> Some(TRUE), variant |-> "debug",
     image |-> None, container |-> None,
     resize |-> Resize(30), disk |-> Some(Disk(a)), replicas |-> 1, slb |-> None,
     references |-> a.references, rekor |-> RekorBlock(a),
     resources |-> AsResources(Secrets(a)),
     a2a |-> None]
HermesYaml(a) == CodexYaml(a)

ClaudeCodeYaml(a) == [CodexYaml(a) EXCEPT !.app = None, !.ports = <<>>, !.connect = <<>>]

\* its AgentCard is not signed, and names no interfaces; without the PEP it has
\* no skill for attestation
OpenclawYaml(a) ==
    [CodexYaml(a) EXCEPT !.sources = IF a.pep THEN @ ELSE @ \ {"skill"}, !.a2a = Some(
        [enabled |-> TRUE, name |-> "text", description |-> Some("text"), ttl |-> 1,
         interfaces |-> <<>>,
         signing |-> [required |-> FALSE, keyless |-> FALSE, issuer |-> "blank", subject |-> "blank"]])]

OpenclawVllmYaml(a) == Variants([OpenclawYaml(a) EXCEPT !.resize = Resize(160)], a)

VllmInferenceYaml(a) ==
    Variants([CodexYaml(a) EXCEPT
        !.resize = Resize(80),
        !.connect = <<[port |-> 1, encryption |-> "ohttp"]>>,
        !.replicas = a.replicas,
        !.slb = IF a.replicas > 1 THEN Some([enabled |-> TRUE, type |-> "alb"]) ELSE None], a)

WithoutBuild(s) ==
    [s EXCEPT !.imageName = "blank", !.sources = {}, !.packages = <<>>, !.repos = <<>>,
              !.release = TRUE, !.debug = None, !.resize = None]

\* write_allinone: the build or the instance spec of the examples; an instance
\* has the ports of its harness
AllinoneSpec(a) ==
    LET built == [ClaudeCodeYaml(a) EXCEPT !.app = Some("text"),
                                           !.repos = <<[name |-> "os", https |-> TRUE]>>, !.ssh = TRUE, !.release = TRUE,
                                           !.debug = None, !.variant = "release",
                                           !.resize = Resize(80)]
    IN  IF a.stage # "deploy" THEN [built EXCEPT !.resources = {}]
        ELSE [WithoutBuild(built) EXCEPT !.rekor = None,
                 !.ports = IF HasPort(a) THEN <<1>> ELSE <<>>,
                 !.connect = IF HasPort(a) THEN CodexYaml(a).connect ELSE <<>>]

Template(a) ==
    CASE a.target = "openclaw" -> OpenclawYaml(a)
      [] a.target = "openclaw-vllm" -> OpenclawVllmYaml(a)
      [] a.target = "vllm-inference" -> VllmInferenceYaml(a)
      [] a.target = "hermes" -> HermesYaml(a)
      [] a.target = "codex" -> CodexYaml(a)
      [] a.target = "claudecode" -> ClaudeCodeYaml(a)
      [] a.target = "allinone" -> AllinoneSpec(a)

\* add_management_ssh: a build gets the files, the package and the script; the
\* shared image of all harnesses has its own
ManagementSsh(s, a) ==
    IF a.target = "allinone" THEN s ELSE [s EXCEPT !.sources = @ \cup {"ssh"},
                                                       !.packages = Append(@, "openssh-server")]

\* faulty variant of FinishBuild: the replicas stay in the builder's spec
FinishBuildReplicas(s, a) ==
    [ManagementSsh(s, a) EXCEPT !.variant = "release", !.ssh = TRUE, !.release = TRUE,
              !.debug = None, !.resources = {}, !.slb = None]

\* staged::finish
FinishBuild(s, a) ==
    [ManagementSsh(s, a) EXCEPT !.variant = "release", !.ssh = TRUE, !.release = TRUE,
              !.debug = None, !.resources = {}, !.replicas = 1, !.slb = None]

FinishDeploy(s, a) ==
    [WithoutBuild(s) EXCEPT !.variant = "release", !.ssh = TRUE,
              !.replicas = a.replicas,
              !.slb = IF a.replicas > 1 /\ @ = None THEN Some([enabled |-> TRUE, type |-> "nlb"]) ELSE @,
              !.rekor = None,
              !.image = Some([release |-> TRUE, key |-> ~a.unverified, unverified |-> a.unverified,
                              manifest |-> a.manifest, imageId |-> a.imageId])]
Finished(s, a) ==
    CASE a.stage = "none" -> s
      [] a.stage = "build" -> FinishBuild(s, a)
      [] a.stage = "deploy" -> FinishDeploy(s, a)

----------------------------------------------------------------------------
(* The command *)

Init ==
    /\ pc = "idle" /\ args = NoArguments
    /\ dir \in {"absent", "dir", "link", "file"}
    /\ \E within \in Inside :
          /\ dir # "dir" => within = {}
          /\ place = [f \in Inputs |-> IF f \in within THEN "inside" ELSE "outside"]
    /\ files = {} /\ spec = NoSpec /\ card = None
    /\ runs = 0 /\ edits = 0

\* resolve_interactive: allinone is always staged, and deploy is run with or
\* without Rekor reference values
Given(a) ==
    /\ a.target = "allinone" => a.stage # "none"
    /\ a.stage = "deploy" /\ a.references = "rekor" => StagedRekor

Start(a) ==
    /\ pc = "idle" /\ spec = NoSpec /\ runs < MaxRuns
    /\ Given(a)
    /\ runs' = runs + 1
    /\ \E answered \in BOOLEAN :
          IF ArgumentsAccepted(a) /\ Resolved(a, answered)
          THEN pc' = "guard" /\ args' = a
          ELSE pc' = "failed" /\ UNCHANGED args
    /\ UNCHANGED <<dir, place, files, spec, card, edits>>

\* guard_output_dir and create_dir_all
Replace ==
    /\ pc = "guard"
    /\ IF dir = "absent" \/ (args.force /\ dir # "link")
       THEN /\ dir' = "dir" /\ files' = {}
            /\ place' = [f \in Inputs |-> IF place[f] = "inside" THEN "gone" ELSE place[f]]
            /\ pc' = "keys"
       ELSE pc' = "failed" /\ UNCHANGED <<dir, place, files>>
    /\ UNCHANGED <<args, spec, card, runs, edits>>

\* resolve_or_generate_cosign_key: a key that is named must be there, else
\* cosign makes one in the directory
Keys ==
    /\ pc = "keys"
    /\ pc' = IF args.stage # "deploy" /\ args.references = "rekor" /\ "cosign" \in args.named
                 /\ ~Exists("cosign") THEN "failed" ELSE "write"
    /\ UNCHANGED <<args, dir, place, files, spec, card, runs, edits>>

\* find_assets_root and find_cai_pep_binary_for_init: what a project needs of
\* the host; the model key is copied for an instance
Assets(a) == a.stage # "deploy" \/ a.target = "allinone"
Pep(a) == a.stage # "deploy" /\ (a.target = "openclaw" => a.pep) /\ a.target # "vllm-inference"
Writable(a, installed) ==
    /\ (IF Assets(a) THEN {"assets"} ELSE {}) \cup (IF Pep(a) THEN {"pep"} ELSE {}) \subseteq installed
    /\ a.target = "vllm-inference" /\ a.stage # "build" => Exists("model")

\* write_*_project: a build gets the examples, an instance the credentials
WriteProject ==
    /\ pc = "write"
    /\ \E installed \in SUBSET {"assets", "pep"} :
          IF Writable(args, installed)
          THEN /\ pc' = "finish" /\ spec' = Template(args)
               /\ files' = (IF args.stage = "deploy" THEN {} ELSE Copied(args))
                            \cup (IF args.stage = "build" THEN {} ELSE Secrets(args))
          ELSE pc' = "failed" /\ UNCHANGED <<spec, files>>
    /\ UNCHANGED <<args, dir, place, card, runs, edits>>

\* staged::finish, which copies the release and the key too
FinishFiles(a) ==
    CASE a.stage = "none" -> {}
      [] a.stage = "build" -> IF a.target = "allinone" THEN {} ELSE {"ssh"}
      [] a.stage = "deploy" -> {"image-release.json"}
            \cup (IF a.unverified THEN {} ELSE {"publisher.pem"})
Finish ==
    /\ pc = "finish"
    /\ IF args.stage = "deploy" /\ ~ReleaseNamed(args)
       THEN pc' = "failed" /\ UNCHANGED <<files, spec>>
       ELSE /\ pc' = "check" /\ spec' = Finished(spec, args)
            /\ files' = files \cup FinishFiles(args)
    /\ UNCHANGED <<args, dir, place, card, runs, edits>>

\* AgentSpec::from_path on what was generated
Check ==
    /\ pc = "check"
    /\ pc' = IF Validate(spec) THEN "generated" ELSE "failed"
    /\ UNCHANGED <<args, dir, place, files, spec, card, runs, edits>>

\* a tool or a file operation fails
Break ==
    /\ pc \in {"keys", "write", "finish"}
    /\ pc' = "failed"
    /\ UNCHANGED <<args, dir, place, files, spec, card, runs, edits>>

\* init ends; what it wrote stays where it is.  After a success it is not run
\* again, and where its inputs are is not looked at any more
Stop ==
    /\ pc \in {"failed", "generated"}
    /\ args' = NoArguments /\ files' = {}
    /\ IF pc = "failed"
       THEN pc' = "idle" /\ spec' = NoSpec /\ UNCHANGED <<place, runs>>
       ELSE pc' = "editing" /\ place' = [f \in Inputs |-> "outside"] /\ runs' = MaxRuns
            /\ UNCHANGED spec
    /\ UNCHANGED <<dir, card, edits>>

----------------------------------------------------------------------------
(* The declaration afterwards *)

\* the operator changes a field of the spec
Edit ==
    /\ pc = "editing" /\ edits < MaxEdits
    /\ \E field \in DOMAIN Edited : \E v \in Edited[field] :
          spec[field] # v /\ spec' = [spec EXCEPT ![field] = v]
    /\ edits' = edits + 1
    /\ UNCHANGED <<pc, args, dir, place, files, card, runs>>

\* deploy: the spec is loaded and the instance created
Deploy ==
    /\ pc = "editing" /\ Validate(spec)
    /\ pc' = "created"
    /\ UNCHANGED <<args, dir, place, files, spec, card, runs, edits>>

\* sign_agent_card_keyless: cosign signs the card without its signatures, if it
\* has to; the command may fail, or print no single signature
Signed(a, cosign) == a.signing.required => cosign

\* inject_resources: the sources of the resources are files, then the card; the
\* image has Rekor metadata or it has not
Sourced(s) == \A r \in ResolvePaths(s).resources : r.source # "."
Deliver ==
    /\ pc = "created"
    /\ \E rekorMeta \in IF spec.image = None THEN {spec.references = "rekor"} ELSE BOOLEAN,
          cosign \in BOOLEAN :
          IF Sourced(spec) /\ \A a \in spec.a2a : a.enabled => Renderable(spec, a, rekorMeta) /\ Signed(a, cosign)
          THEN /\ card' = {RenderAgentCard(spec, a) : a \in {b \in spec.a2a : b.enabled}}
               /\ pc' = "delivered"
          ELSE pc' = "undelivered" /\ UNCHANGED card
    /\ UNCHANGED <<args, dir, place, files, spec, runs, edits>>

Next ==
    \/ pc = "idle" /\ \E a \in Argument : Start(a)
    \/ Replace \/ Keys \/ WriteProject \/ Finish \/ Check \/ Break \/ Stop
    \/ Edit \/ Deploy \/ Deliver

Spec == Init /\ [][Next]_vars

----------------------------------------------------------------------------
(* What is checked *)

TypeOK ==
    /\ pc \in {"idle", "guard", "keys", "write", "finish", "check", "failed", "generated",
               "editing", "created", "delivered", "undelivered"}
    /\ args \in Argument \cup {NoArguments}
    /\ dir \in {"absent", "dir", "link", "file"}
    /\ place \in [Inputs -> {"outside", "inside", "gone"}]
    /\ files \subseteq STRING
    /\ spec = NoSpec \/ IsAgentSpec(spec)
    /\ runs \in 0 .. MaxRuns /\ edits \in 0 .. MaxEdits

\* what init hands on to the spec without a look at it: a disk smaller than the
\* image of a target that is not staged, a blank zone, region or instance type,
\* a malformed ID of the cloud image
Unchecked(a) ==
    \/ a.stage = "none" /\ Disk(a) < BaseDisk(a.target)
    \/ a.zone = "blank"
    \/ a.imageId = "bad"

\* By the time init validates what it generated, the old project is gone: the
\* arguments it accepted must make an accepted spec, but for the arguments that
\* it does not look at.
GeneratedAccepted == pc = "check" => Validate(spec) \/ Unchecked(args)

\* What the generated spec names, init has written beside it: the sources of the
\* image, the resources of the instance, the release and its key.
NamedFilesWritten ==
    pc = "generated" =>
        spec.sources \cup {r.source : r \in spec.resources}
            \cup (IF \E i \in spec.image : i.release THEN {"image-release.json"} ELSE {})
            \cup (IF \E i \in spec.image : i.key THEN {"publisher.pem"} ELSE {})
        \subseteq files

\* --force never deletes the release or the trusted key that this very command
\* was told to use.
InputsKept ==
    [][\A f \in {"release", "key"} :
          args # NoArguments /\ f \in args.named /\ place[f] # "gone" => place'[f] # "gone"]_vars

\* A card that is rendered from an accepted spec passes the check of every
\* peer, unless its description was left blank.
RenderedAccepted ==
    \A c \in card : c.description # "blank" => CardAccepted(c)

\* "resources.{}.source must not be empty" (spec.rs:726).  Paths are resolved
\* before they are checked, an empty one to the directory of the spec, so it is
\* refused only when the instance exists.  No run checks this; see the README.
SourcesGiven ==
    pc \in {"created", "delivered", "undelivered"} => \A r \in spec.resources : r.source # "blank"

\* The disk of an instance holds the image it was declared with, whatever units
\* the two sizes are in.
DiskHoldsImage ==
    pc \in {"created", "delivered", "undelivered"} =>
        \A size \in spec.resize : DeploymentDisk(spec) * GiB >= Bytes(size)

\* What one stage of the tool has accepted, the next one accepts: the arguments
\* of init (but for Unchecked) the validation of its spec, and that spec finds
\* its files, the disk its image and the card (unless its description is blank)
\* the check of the peers.
AcceptedOnward ==
    GeneratedAccepted /\ NamedFilesWritten /\ RenderedAccepted /\ DiskHoldsImage

=============================================================================
