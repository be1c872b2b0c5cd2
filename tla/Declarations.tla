---------------------------- MODULE Declarations ----------------------------
(***************************************************************************)
(* What a service declares: the AppSpec and the rules it must satisfy      *)
(* (core/src/spec.rs), the AgentCard rendered from it and the rules its    *)
(* peers apply to a card (core/src/agent_card.rs).                         *)
(*                                                                         *)
(* A spec is a record of what the rules look at.  An optional field is a   *)
(* set with at most one member.  A string is "blank" or "text"; a list     *)
(* keeps its order and its duplicates.                                     *)
(***************************************************************************)
EXTENDS Naturals, Sequences, Functions, TLC

CONSTANTS
    GB,        \* bytes of a decimal gigabyte, in units of which
    GiB        \* a binary gigabyte has so many: GB < GiB

ASSUME UnitsAssumption == GB \in Nat \ {0} /\ GiB \in Nat \ {0} /\ GB < GiB

None == {}
Some(x) == {x}

----------------------------------------------------------------------------
(* The fields of a spec, by the struct they come from *)

\* id: "default" and "long" are refused to a service of Trustee
ServiceSpec ==
    [id |-> {"blank", "text", "default", "long"}, app |-> SUBSET {"blank", "text"},
     ports |-> Seq(Nat), connect |-> Seq([port : Nat, encryption : {"rats-tls", "ohttp"}]),
     mcp |-> Seq(Nat), ssh |-> BOOLEAN]

Size == [number : Nat, unit : {"GB", "GiB"}]
Container ==
    [image : BOOLEAN, archive : BOOLEAN, pull : {"always", "missing", "never"},
     mode : {"runtime", "rootfs"}, mounts : Seq(STRING)]
\* sources: the files and scripts that build names; releaseKey: an SSH key of
\* the release image
Repository == [name : {"blank", "os", "plus"}, https : BOOLEAN]
BuildSpec ==
    [imageName |-> {"blank", "text"}, packages |-> Seq(STRING), repos |-> Seq(Repository),
     sources |-> SUBSET STRING, release |-> BOOLEAN, releaseKey |-> BOOLEAN, debug |-> SUBSET BOOLEAN,
     container |-> SUBSET Container, resize |-> SUBSET Size]

DeploySpec ==
    [image |-> SUBSET [release : BOOLEAN, key : BOOLEAN, unverified : BOOLEAN,
                       manifest : {"none", "digest", "short"},
                       imageId : {"none", "cloud", "bad"}],
     zone |-> {"blank", "text"},
     variant |-> {"release", "debug"}, disk |-> SUBSET Nat, replicas |-> Nat,
     slb |-> SUBSET [enabled : BOOLEAN, type : {"alb", "nlb"}]]

AttestationSpec ==
    [mode |-> {"challenge", "trustee"}, references |-> {"sample", "rekor"},
     rekor |-> SUBSET [required : BOOLEAN, key : BOOLEAN],
     resources |-> SUBSET [name : STRING, source : STRING, absolute : BOOLEAN]]

A2aSpec ==
    [a2a |-> SUBSET [enabled : BOOLEAN, name : {"blank", "text"},
        description : SUBSET {"blank", "text"}, ttl : Nat,
        interfaces : Seq([port : Nat, binding : {"blank", "text"}]),
        signing : [required : BOOLEAN, keyless : BOOLEAN,
                   issuer : {"blank", "text"}, subject : {"blank", "text"}]]]

\* f @@ g of module TLC, which the proofs cannot use
With(f, g) == [x \in DOMAIN f \cup DOMAIN g |-> IF x \in DOMAIN f THEN f[x] ELSE g[x]]
AgentSpec == With(With(With(With(ServiceSpec, BuildSpec), DeploySpec), AttestationSpec), A2aSpec)
Optional == {"app", "debug", "container", "resize", "image", "disk", "slb", "rekor", "a2a"}
IsAgentSpec(s) ==
    /\ \A field \in DOMAIN AgentSpec : s[field] \in AgentSpec[field]
    /\ \A field \in Optional : \A x, y \in s[field] : x = y

Ports(connect) == {c.port : c \in Range(connect)}
Distinct(seq) == IsInjective(seq)

----------------------------------------------------------------------------
(* Disk sizes *)

Bytes(size) == size.number * (IF size.unit = "GiB" THEN GiB ELSE GB)

\* faulty variant of ImageDisk: the cloud GiB that fit
ImageDiskDown(size) == Bytes(size) \div GiB

\* configured_image_disk_gb: rounded up to whole GiB
ImageDisk(size) == (Bytes(size) + GiB - 1) \div GiB

\* deployment_disk_gb: refused when it is too small, chosen when not given
DiskAccepted(s) ==
    \A d \in s.disk : d >= 20 /\ \A size \in s.resize : d >= ImageDisk(size)
DeploymentDisk(s) ==
    IF s.disk # None THEN CHOOSE d \in s.disk : TRUE
    ELSE CHOOSE d \in {32} \cup {ImageDisk(z) : z \in s.resize} :
            \A e \in {32} \cup {ImageDisk(z) : z \in s.resize} : d >= e

----------------------------------------------------------------------------
(* AgentSpec::validate, rule by rule *)

PortsAccepted(s) ==
    /\ 0 \notin Range(s.ports) /\ Distinct(s.ports)
    /\ 0 \notin Ports(s.connect) /\ Ports(s.connect) \subseteq Range(s.ports)
    /\ \A i, j \in DOMAIN s.connect : s.connect[i].port = s.connect[j].port => i = j
    /\ 0 \notin Range(s.mcp) /\ Distinct(s.mcp)
    /\ Range(s.mcp) \subseteq Range(s.ports) \ Ports(s.connect)

\* resolve_paths_against: relative to the directory of the spec, which an empty
\* path becomes; only a release and its key are left empty
ResolvedPath(path) == IF path = "blank" THEN "." ELSE path
ResolvePaths(s) ==
    [s EXCEPT !.sources = {ResolvedPath(f) : f \in @},
              !.resources = {[r EXCEPT !.source = ResolvedPath(@)] : r \in @}]

\* validate_id, and validate_trustee_service_id for a service of Trustee
IdAccepted(s) ==
    /\ s.id # "blank"
    /\ s.mode = "trustee" => s.id \notin {"default", "long"}

Substituted == {"build-essential", "python3-dev", "python3-venv", "python-dev",
    "python-dev-is-python3", "libc-dev", "libc6-dev", "libffi-dev", "libssl-dev",
    "openssh-client", "procps", "xz-utils", "docker-cli", "docker.io", "ffmpeg"}
PackagesAccepted(s) == Range(s.packages) \cap (Substituted \cup {"blank"}) = {}
ReposAccepted(s) ==
    /\ \A r \in Range(s.repos) : r.name # "blank" /\ r.https
    /\ \A i, j \in DOMAIN s.repos : s.repos[i].name = s.repos[j].name => i = j

\* a published image is reused with its signer, and then nothing is built (the
\* runtime contract, the kernel command line and the cleanup of a build are left
\* out: the templates set them for builds alone)
Built(s) ==
    \/ s.imageName # "blank" \/ s.sources # {} \/ s.packages # <<>> \/ s.repos # <<>>
    \/ s.container # None \/ s.resize # None \/ s.debug # None
VariantAccepted(s) ==
    /\ ~s.releaseKey
    /\ s.image = None =>
          IF s.variant = "release" THEN s.release ELSE TRUE \in s.debug
ImageAccepted(s) ==
    IF s.image = None
    THEN s.imageName # "blank" /\ "blank" \notin s.sources
    ELSE /\ \A i \in s.image : i.release /\ (i.key \/ i.unverified)
                              /\ i.manifest # "short" /\ i.imageId # "bad"
         /\ ~Built(s)

SshAccepted(s) == s.ssh => s.variant # "debug"

\* build.container
ContainerAccepted(s) ==
    \A c \in s.container :
        /\ c.image \/ c.archive
        /\ c.archive => c.pull = "missing"
        /\ c.mode = "rootfs" => c.mounts = <<>>
        /\ Distinct(c.mounts)

ReplicasAccepted(s) ==
    /\ s.replicas > 0
    /\ s.replicas > 1 =>
          /\ \E b \in s.slb : b.enabled
          /\ \A i, j \in DOMAIN s.connect :
                s.connect[i].encryption = "ohttp" /\ s.connect[j].encryption = "ohttp" => i = j
    /\ \A b \in s.slb : b.enabled =>
          /\ s.replicas > 1
          /\ s.connect # <<>>
          /\ b.type = "alb" => \A c \in Range(s.connect) : c.encryption = "ohttp"

\* names of resources that the platform delivers itself
Reserved == {"disk_passphrase", "data_passphrase", "cagent_bootstrap_config",
             "cagent_mesh_bundle", "cagent_a2a_bundle", "cagent_reference_value_list"}
ResourcesAccepted(s) ==
    \A r \in s.resources : r.name \notin Reserved /\ r.source # "blank" /\ r.absolute

RekorAccepted(s) ==
    /\ \A r \in s.rekor : r.required => r.key
    /\ s.references = "rekor" => s.rekor # None

InterfacesAccepted(s, a) ==
    \A i \in Range(a.interfaces) :
        i.binding # "blank" /\ i.port # 0 /\ i.port \in Ports(s.connect)

SigningAccepted(a) ==
    a.signing.required =>
        a.signing.keyless /\ a.signing.issuer = "text" /\ a.signing.subject = "text"
A2aAccepted(s) ==
    \A a \in s.a2a :
        a.name # "blank" /\ a.ttl > 0 /\ InterfacesAccepted(s, a) /\ SigningAccepted(a)

Rules(s) ==
    /\ IdAccepted(s) /\ "blank" \notin s.app /\ s.zone # "blank"
    /\ DiskAccepted(s)
    /\ SshAccepted(s)
    /\ ImageAccepted(s)
    /\ PortsAccepted(s)
    /\ PackagesAccepted(s) /\ ReposAccepted(s)
    /\ ContainerAccepted(s)
    /\ VariantAccepted(s)
    /\ ReplicasAccepted(s)
    /\ ResourcesAccepted(s)
    /\ RekorAccepted(s)
    /\ A2aAccepted(s)

\* AgentSpec::from_yaml
Validate(s) == Rules(ResolvePaths(s))

----------------------------------------------------------------------------
(* The AgentCard *)

\* inject_resources and render_agent_card: what they need of an accepted spec
Renderable(s, a, rekorMeta) == a.enabled /\ rekorMeta /\ s.connect # <<>>

\* interfaces that are not declared are the connect ports
CardInterfaces(s, a) ==
    IF a.interfaces # <<>> THEN a.interfaces
    ELSE [i \in DOMAIN s.connect |-> [port |-> s.connect[i].port, binding |-> "text"]]

RenderAgentCard(s, a) ==
    [name |-> a.name,
     description |-> IF a.description = None THEN "text" ELSE CHOOSE d \in a.description : TRUE,
     interfaces |-> CardInterfaces(s, a),
     ports |-> Ports(s.connect),
     signed |-> a.signing.required]

\* validate_confidential_agent_card
CardAccepted(card) ==
    /\ card.name # "blank" /\ card.description # "blank"
    /\ card.interfaces # <<>>
    /\ \A i \in Range(card.interfaces) : i.binding # "blank"
    /\ card.ports # {} /\ 0 \notin card.ports

=============================================================================
