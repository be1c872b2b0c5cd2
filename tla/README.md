# Confidential Agent in TLA+

Specifications of the parts of confidential-agent whose correctness depends on
order, interruption, concurrency or on rules that one stage of the tool makes
for another; the TLC configurations that check them on small instances; and
TLAPS proofs of the results that should hold for every instance. Rendering,
parsing, transport and layout are left out unless a property depends on them.

    tlc -workers 2 -config GuestMesh_loop.cfg MCGuestMesh.tla    # one run
    tlapm GuestMesh_proofs.tla                                   # one proof module

`PROJECT.json` lists the runs with their properties, the source lines behind
every definition, the mutated definitions that show that each property can
fail, the theorems and the hazards of the code.

## 1. The system

On the **host**, one process of the CLI runs per command and works on a state
directory. Commands exclude each other with advisory locks (`flock`) and can
die between any two writes; what survives is files, the cloud, a remote Trustee
server and whatever was delivered to the guests. In each **guest**, a
confidential VM, the initrd obtains the disk key, then a daemon
(`confidential-agentd`) applies the resources delivered to it and runs two
other processes: the gateway, which signs and checks service tokens and keeps
an audit chain, and TNG, which attests the peer. `cai-pep` executes the
commands of an agent under a policy. Between host and guest stand the provider
tool Shelter (instances, firewalls), the image service of the cloud and, in
Trustee mode, the Trustee, which hands secrets to attested guests only. A host
that only uses a service runs `connect`, which starts a TNG of its own.

| Component | State | Operations | What is hard | What makes it correct |
|---|---|---|---|---|
| Trustee control plane (`trustee.rs`) | `trustee/state.json`; policies and repositories on the Trustee | adopt, sync, revoke, cleanup, put, prune | every remote and local write can be the last; the next command may be another one; somebody else edits the policies | nothing granted or stored without a local record; one service's transaction never changes another's grant; an interrupted service can be destroyed |
| Service life cycle (`commands.rs`, `workflows.rs`) | a state file per service, the mesh bundle, `peerings.yaml`, the Trustee entry | build, forget, deploy, resume, inject, destroy, mesh sync, trustee sync, peering, migrate | concurrent commands with per-service and directory locks, several files per command, death anywhere | instances stay recorded, access goes before the instance, meshes and firewalls agree once quiet, destroy ends |
| Image publication (`publish.rs`, `images.rs`) | publication records; images, snapshots, uploads in the cloud | publish, export, import, unpublish, prune, deploy | cloud calls and records in separate steps, lost answers, leases against running deployments | what was created stays findable until it is gone; nothing retained or foreign is deleted |
| Deployment inputs and delivery (`state.rs`, `workflows.rs`, `upgrade.rs`) | frozen AppSpec, frozen copies of secrets | deploy, resume, inject, trustee sync, bind-inputs | files are edited between check and use; a disk opens with one key only | the key that is delivered fits; only frozen inputs arrive |
| Guest boot (`daemon/src/app.rs`, `daemon/src/trustee.rs`) | staged key, `/run` files, helper processes | detect, fetch, measure, stage, register | one deadline over retries and helpers with descendants | one mode from initrd to daemon; fail closed; every boot ends |
| Guest resources and watcher (`daemon/src/app.rs`) | staged sources, targets, `state.json`; inotify watches | verify, plan, write, start; reconcile, wait | sources arrive one by one and change under the reader, a sleeping daemon, deaths before the record | application data stays; the last delivery is served; a sleeping daemon missed nothing |
| Guest mesh loop (`daemon/src/app.rs`) | persistent daemon state, directory, two configuration files, two processes | bootstrap, plan, persist, publish, restart, recover | death or failure between any two steps, damaged state, overlapping port pools | an endpoint keeps its peer, a connection reaches its target, the last bundle is served in the end |
| A2A peers (`commands.rs`, `daemon/src/app.rs`) | registry and bundle on the host; cache of AgentCards in the guest | a2a add, remove, sync; resolve, publish, save | commands without a lock; TTLs, outages, refusals, a cache that survives restarts | a withdrawn card does not come back; the guest catches up |
| Guest HTTP endpoints (`daemon/src/app.rs`) | a counter of live requests, a rate limiter | accept, admit, read, reply | two accept threads race for the last slot; slow peers | both limits hold; every slot comes back |
| Gateway (`gateway/src/lib.rs`) | replay cache, audit chain, firewall rules | sign and verify tokens, forward, audit, attest | a record in three calls, threads that read the clock before a lock, a restart between two requests | a token is used once; no answer outlives its record; the chain verifies |
| Command policy (`cai-pep/src/main.rs`) | containers, evidence files | check, execute, time out, remove | the end of a command races its deadline, cleanup is by name | a result means that the command is over; others are left alone; everyone is answered |
| Declarations and init (`spec.rs`, `agent_card.rs`, `init.rs`, `staged.rs`) | a project directory, a spec, a card | init, edit, deploy, deliver | each stage has rules of its own for what the stage before accepted; `--force` deletes first | what one stage accepts, the next one accepts |
| connect (`commands.rs`, `native_process.rs`) | ready files and locks, a process | start, stop | killed commands, reused process numbers, reboots, ports taken by others | no tunnel that nobody can stop; no foreign process signalled |
| Reports, TUI, self description, debug SSH, Shelter adapter, schemas, installers | | | conversions, displays, scripts | |

How they interact: `deploy` and `inject` (life cycle) run Trustee transactions,
take an image lease (publication), freeze and deliver inputs (delivery) that the
initrd and the guest loops consume; `destroy` undoes all of it in a fixed order.
The mesh bundle is computed from the state files of all services, so every
activation and removal is a message to every other guest. The gateway and TNG
are restarted by the guest loop from what it planned. The card that `connect`
fetches is rendered from the spec that `init` generated.

## 2. Modules

| Module | Models | Composes with |
|---|---|---|
| `SecretCustody` | abstract: what the Trustee side promises | |
| `TrusteePolicy`, `Policies_proofs` | one transaction at a time, write by write | implements `SecretCustody` |
| `ServiceLifecycle`, `_proofs` | concurrent commands on several services | `EXTENDS Peerings`; takes the transactions of `TrusteePolicy` as atomic, except that a sync can stay half done |
| `Peerings` | the rules of `peerings.yaml` and of the security groups, as operators | |
| `ImagePublish`, `_proofs` | one producer's publications and its consumers | the deploy and destroy of `ServiceLifecycle` reduced to image references and leases |
| `GuestBoot`, `GuestInputs_proofs` | initrd and start of the daemon of one guest | |
| `Delivery`, `GuestInputs_proofs` | what a deployment freezes and delivers | `EXTENDS GuestBoot`: host and guest in one next-state relation |
| `GuestResources`, `GuestInputs_proofs` | resources of a bootstrap on their way to the application | the round of `GuestMesh` without the mesh; woken as `ResourceWatcher` promises |
| `ResourceWatcher`, `GuestDaemon_proofs` | inotify watches against a changing file system | |
| `GuestMesh`, `_proofs` | the daemon loop, gateway and TNG of one guest | receives the bundles that `ServiceLifecycle` delivers, in any order |
| `A2aPeers`, `GuestDaemon_proofs` | host registry and the A2A cache of one guest | runs inside the round of `GuestMesh`, with ports left out |
| `HttpLimits`, `GuestDaemon_proofs` | accept and request threads of the daemon | |
| `Gateway`, `_proofs` | one MCP port: tokens, connections, audit store | its restarts are those of `GuestMesh` |
| `CommandPolicy`, `Policies_proofs` | `cai-pep serve` with its containers | |
| `Declarations` | spec and AgentCard with their rules, as operators | |
| `ProjectInit`, `Connect_proofs` | `init`, edits, deploy, card | `EXTENDS Declarations` |
| `Connect`, `Connect_proofs` | `connect start` and `stop` | `EXTENDS ProjectInit`: the card it fetches is the one delivered there |
| `MC...` | instances for TLC | |

A proof module may hold the proofs of several components that share no state.
It extends all of them, so where two would declare the same name one of them
says which component it means: `DeliveryInit`, `WatcherInit`, `PepInit`.

### TrusteePolicy

Local state, remote policies and repositories are variables; `cmd` is the
command that holds the state-directory lock, so there is at most one. Each
remote or local write is an action (`SetDenyAll`, `SetRestricted`, `UploadOne`,
`SetResourcePolicy`, `DeleteOne`, `Commit`, ...) and `Interrupt` drops the
command and keeps what was written: a crash, a failed request and a lost answer
look the same to the next command. `ForeignEdit` changes the policies behind
the CLI's back. A digest stands for the policy it is the digest of. The
transaction marker in the remote policy, one revision ahead of the local state,
decides who may continue (`CanResumeAs`).
*Left out:* `configure --force` on used state, claiming again after somebody
reset the Trustee, edits that keep the header during the recovery window,
transport and tokens, the read-only commands.

### ServiceLifecycle, Peerings

`proc[p]` is a running command with its program counter and the list of
services it still has to visit; `opLock` and `stateLock` are the owners of the
two kinds of `flock`. A command takes its locks where the code does, computes
the peers of its firewall where the code does (`todo` is a snapshot), and can
die at the points of `DieAt`. `peering add`, `remove` and `apply` and `migrate`
are actions on the same state; migrate reads the file in one step and writes it
in another. `faulty` records that some command ended with an error: then
`MeshSettles` promises nothing until somebody tries again. A CIDR is the set of
hosts it covers.
*Left out:* services deployed from an imported image (they are in
`ImagePublish`), switching a service between attestation modes, the port
preflight, `--skip-peering-check`, an unfiltered `trustee sync` (a sequence of
filtered ones), a generation update that fails half way, a torn
`peerings.yaml`, the a2a bundle.

### ImagePublish

Every cloud call and the state write that follows it are separate actions. The
producer's commands exclude each other (`job`), consumers have their own locks
and meet the producer at the lease of the image. An export of an image without
an available publication is one action (`ExportNamed`): it writes no record and
marks nothing, it only hands out the release. Cloud images, the `ImportImage`
task and other workspaces are external actions.
*Left out:* several regions and variants per build, unpublishing several keys
under one set of leases, removal of local payloads, signatures and inspection.

### Delivery and GuestBoot

`GuestBoot`: `point` walks from mode detection through one fetch per resource
(files of the injection service, or a token agent and a CDH one-shot whose
descendants may hold the pipes) to the staged key or the power-off, then through
the rootfs daemon up to its registration. `left` and `budget` count time down.
`Delivery` adds the operator (edits of the files and the AppSpec at any moment),
the commands with each read, freeze and send as a step, and the disk, which is
bound to the first key it is opened with. File contents are version numbers.
*Left out:* apply-once, the IMDS token, output limits; several instances of one
service, image releases as part of the binding, edits to the private copies.

### GuestResources and ResourceWatcher

`GuestResources`: a bootstrap and its sources arrive in any order (`Arrive`), a
round reads, repairs the management credentials, plans (`Plan`), writes resource
after resource with the application stopped (`Write`), starts it and saves; the
source is read again when it is copied. `Fail`, `SaveFails`, `Die` and `Reboot`
can come between any two steps, `Drift` and `AppWrites` are the guest's own
changes. `ResourceWatcher` opens up one condition of it, being woken: each
`stat`, `inotify_add_watch` and read is a step, and between any two of them
directories and files come and go; a watch belongs to the inode it was taken on.
*Left out:* renamed directories, an overflow of the queue, all but two metadata
values (wanted and wrong).

### GuestMesh

The round of `run_daemon`: `ApplyBootstrap`, `SyncMesh`, one `PlanStep` per
route of `runtime_port_plan_with_registry`, `Persist`,
`WriteServiceDirectory`, `SyncGateway`, `SyncTng`, `SaveState`. `Fail` ends the
round at any fallible step, `Crash` and `PowerLoss` at any step, both possibly
half way through a restart (`HalfDone`); `Damage` and `Restore` act on the state
file. `running` is what the processes really serve, which is not always what
their files say. `promised` is a history of every directory entry.
*Left out:* a bundle of another owner, a missing self or unreachable peer,
encryption modes and mcp, reference values, an application that itself fails to
bind a port, the back-off of restarts; resources (in `GuestResources`).

### A2aPeers

`cmd` holds what each unlocked command read; `published` is what the peer
serves. A round of the daemon reads the bundle, resolves each peer (`UseCache`,
`FetchCard`, `FetchRefused`, `FetchFails`), publishes the routes and saves. The
pin stands for the fingerprint of alias, URL, scope and signer.
`obsolete` is a history: the cards that may not be used again before they are
fetched again; it is saved with the state, since a refusal that was not saved is
forgotten by the code too.
*Left out:* local ports and directory ids, several guests behind one registry,
host previews, scopes, a bundle that does not parse.

### HttpLimits

The accept threads go through `Accept`, `Lock` (the time is read under it),
`Limit`, `Load`, `Exchange` (a compare-exchange that may have to begin again)
and `Spawn`; a request thread reads, perhaps to the limit of its head, replies
and drops its guard. `allowed` is a history of when each peer passed.
*Left out:* what is served, how a head is parsed.

### Gateway

One MCP port. A connection is checked (`Connect`, `Admit`), reads requests,
forwards them or answers a virtual tool, and waits for its record. A record is
written in three calls, `WriteLine`, `EndLine`, `SyncLine`, under the lock of
the store (`pen`); the chain advances in memory after the third. The process is
stopped, killed or cut off between any two (`Die`, `PowerLoss`) and opens the
store again. A hash is the sequence of records it stands for. `answered`,
`attested`, `admitted` and `failed` are histories.
*Left out:* several ports in one process, raw connections and their pumps, the
bytes of HTTP and JSON, keys and signatures.

### CommandPolicy

`Verdict` is the decision table of `handle_intent` over what the rules look at.
Each request has a thread, the runtime's client and perhaps a container, each
with steps of its own (`Thread`, `Runtime`); the name of a container is made of
clock, process number and counter. The socket, the thread of the caller and the
death of the server are modelled, the container runtime is external.
*Left out:* canonicalization and patterns (what they decide is a field of the
intent), output caps, the `attest` command line.

### Declarations, ProjectInit, Connect

`Declarations` has the rules of `AgentSpec::validate` and
`validate_confidential_agent_card` as operators over records of what they look
at. In `ProjectInit`, `init` checks its arguments, replaces the directory,
writes and adapts the project and validates it; it may fail at every step and be
run again. Then the operator edits the spec, deploys and delivers the card.
`Connect` starts from that card or from the state of this host; its commands
hold the lock of a ready file, spawn a process, wait for its ports, record and
leave it; `stop` opens a handle, checks again and signals.
*Left out:* prompts, installer scripts, the contents of `openclaw.json`, the
grammar of URLs and names, `--render-only` and the log file.

## 3. Runs

| Run | Question | Bounds | Distinct states |
|---|---|---|---|
| `TrusteePolicy_commands` | custody, isolation, recoverability, refinement of `SecretCustody`, retirement | 2 services, 2 bindings, 3 paths, no sync or put from revision 4 on, 2 interruptions, 1 foreign edit | 163,781 |
| `ServiceLifecycle_commands` | are instances recorded, access withdrawn first, meshes and firewalls consistent, services retired in the end? | 2 services (one with Trustee), 2 commands at a time, 3 commands and edits besides destroy, 1 death | 704,481 |
| `ImagePublish_commands` | is everything in the cloud accounted for, nothing retained deleted, all reclaimed in the end? | 2 builds, 2 images, 1 importer, 1 publication and its retries, 2 deaths or 1 export without publication | 792,886 |
| `Delivery_boot` | does the delivered key fit, does only what was frozen arrive, does every boot end in its mode? | files with 2 contents, 2 edits, 2 boots, deadlines of 1 and 2 | 826,906 |
| `GuestResources_apply` | does application data stay, is the last delivery served? | 3 resources of each kind, 2 versions, 2 deliveries, 1 fault, 1 change in the guest | about 1,470,000 |
| `ResourceWatcher_wait` | does a sleeping daemon know all files? | chain of 3 directories, 2 files, 8 changes | 515,844 |
| `GuestMesh_loop` | endpoints, targets, reservations, eventual service | 2 peers, ports 1..16 with pools of 2 to 5 that overlap, 4 deliveries, 1 death, 1 failure, 1 damage | 336,826 |
| `A2aPeers_sync` | do refused cards stay away, does the guest catch up? | 1 peer, 2 pins, 2 cards, 2 overlapping commands, 2 faults, 1 change | 879,330 |
| `HttpLimits_serve` | do both limits hold, does every slot come back? | 2 listeners, 3 connections of one peer, limit 1, rate 1 in a window of 2, 4 ticks | 184,147 |
| `Gateway_audit` | one use per token, answers and digests covered, chain intact? | 2 tokens, 2 connections, life time and skew 1, threads that rest up to the skew, 3 ticks, 2 requests, 2 faults | 4,109,705 |
| `CommandPolicy_serve` | is a result a result, are others left alone, is everyone answered? | 2 requests with every verdict, 1 tick, 1 death of the server | 184,976 |
| `Connect_start` | does each stage accept what the one before accepted; can tunnels be stopped, and only they? | every target and stage of init, 2 runs, 2 edits; 2 commands at a time, 1 ready file, 2 process numbers, 2 ticks, 1 reboot | 913,230 |

**Why these bounds are enough to be interesting.** The hazards are about two
parties: a command that died and the next one, two commands, two threads and
the last slot, one endpoint and two peers that could get it, one plan and the
plan before. Two services give every pair an "other"; two faults give a fault
during the recovery from a fault. In `GuestMesh` the pools overlap with each
other, with declared ports and with the client pool, and a connect route lies
inside the pool of hidden listeners, so each exclusion in the planner matters.
Two process numbers over a reboot give a number that is used again; eight file
changes let a directory go and come back around each step of a reconciliation;
four ticks span two windows of the limiter. In `Connect` the units 15 and 16
stand for the ratio of GB to GiB: rounding matters at the same places. The
mutant of every property is caught under the bounds of its run.

**Configurations that leave something out on purpose.** Each excludes a window
that is the subject of a counterexample of section 5 or of a noted hazard, and
nothing else: `RetryOriginal = TRUE`, `AdoptWhenOwned = FALSE` (TrusteePolicy);
`MCDieSafely` without the last write of destroy, `Redeploy = FALSE`
(ServiceLifecycle); `MCAnswered` without the lost answer, `ImportRaces = FALSE`
(ImagePublish); `MCOffer` with one set of application ports and one mode per
route (GuestMesh); `Torn = FALSE` (Gateway); `DiesUnsaved = FALSE`
(GuestResources); `RacesWithKeys = FALSE` (Delivery); `StagedRekor = FALSE`
(Connect); `MaxRest = 1`, the skew, bounds how long a thread of `Gateway` rests
between reading the clock and taking the lock of the replay cache. `Stranded`,
`Misled` and `Unchecked` are exceptions inside their properties and are described
there; `RetainedKept` speaks of the releases whose export found a publication.
`MeshDelivered = {TRUE}` leaves out a guest that has an a2a bundle and no mesh.

In `ImagePublish` an export without publication counts for two deaths
(`NamedCost = 2`), so that the run ends in time: either two deaths, or one such
export. Larger settings were checked once and found no error either: safety with
two deaths and one such export together (3,338,502 states), and everything with
one death and one such export of one image (1,143,726).

`CHECK_DEADLOCK FALSE` is set where the system may rest: commands, deliveries,
requests and ticks are bounded, and when they are spent nothing is left to do.
`GuestMesh_loop` checks deadlock, since the daemon always has a next round.
Symmetry is used in `Gateway_audit` and `Connect_start`, which check no liveness.

### Fairness

- `TrusteePolicy`, `ServiceLifecycle`: a command that was started makes its next
  call unless it dies (its steps are calls that return or fail). A `flock` that
  keeps becoming free is granted in the end, hence strong fairness of a
  command's steps in `ServiceLifecycle`. `EventuallyRetired` also assumes an
  operator who keeps running `destroy` (`docs/trustee.md` tells them to).
- `ImagePublish`: commands and imports end; the operator keeps unpublishing with
  `--force`; the lease is free often enough; a cleanup that is retried for ever
  succeeds once.
- `Delivery`: the guest's own steps and time go on. Nothing is assumed of the
  operator, the injection service, the KBS or the helper processes: `BootEnds`
  rests on the deadline alone.
- `GuestResources`: a delivery that was begun arrives, and the daemon goes on
  (`Restart=always`). `ResourceWatcher`: the daemon's loop goes on; nothing is
  assumed of the files.
- `GuestMesh`: the loop's wait has a timeout (`next_resource_refresh_timeout`)
  and systemd restarts the daemon (`Restart=always`, `cli/src/app.rs:1313`);
  what was lost with `/run` is fetched from Trustee each round or injected
  again; the operator restores a damaged state over the recovery SSH
  (`docs/spec.md:617-625`). Deaths, failures and damage are never fair.
- `A2aPeers`: the same for the daemon; time passes, so every cached entry
  becomes due; a command that was begun goes on unless it dies; the operator
  runs `a2a sync` while the guest has another bundle than the registry.
  Without that last assumption nothing repairs a command that died before
  delivery: a later `remove` is refused because the entry is gone.
- `HttpLimits`: a request thread is scheduled, and its reads end with data or
  with the timeout of the socket.
- `CommandPolicy`: the thread of a request and the one that waits for the answer
  are scheduled, deadlines pass. Nothing is assumed of the command, its client
  or the container runtime.
- `Gateway` and `Connect` check safety only.

## 4. Properties

In the words of the code; each module states them at its end.

- *TrusteePolicy* — `NoOrphanedSecret`: custody is recorded before the first
  upload and given up after the last delete. `UploadUnderOwnBinding`: while
  secrets are replaced no guest of another binding may read them.
  `OthersKeepTheirGrant`: a policy rendered from local state one revision behind
  does not withdraw or restore somebody else's grant.
  `InterruptedCanBeDestroyed`: wherever a command dies, destroy is accepted.
  `EventuallyRetired`, `ImplementsCustody` (refinement of `SecretCustody`).
- *ServiceLifecycle* — `InstanceOnRecord`: what exists in the cloud stays on the
  records that destroy works from, and nothing that does not exist is called
  active. `RevokedBeforeRemoval`: no sync of another command gives access back
  between the withdrawal and the end of the instance. `MeshSettles`: when all
  commands have ended well, the guests of an active service have the list of
  the members, and its firewall is the one rendered for exactly them and for
  some version of `peerings.yaml`, the present one after `peering apply`.
  `EventuallyRetired`.
- *ImagePublish* — `InCustody`: images, snapshots and uploads are recorded or
  found again. `RetainedKept`: only `--force` deletes what a marked release has
  handed out or what is in use (counterexample 13 is the release that is not
  marked). `EventuallyReclaimed`.
- *Delivery, GuestBoot* — `DiskOpens`: a guest that unlocks has the key its disk
  was made with. `DeliveredAsFrozen`: it unlocks with the identity that was
  frozen, and until an inject with the frozen resources. `OneMode`: from user
  data over initrd and `/run` to the daemon. `HelpersBounded`: no helper
  outlives its fetch or gets more time than the boot has. `BootEnds`.
- *GuestResources* — `MutableKept`: what the application made of a mutable
  resource stays, once its seeding was saved. `EventuallyServed`.
- *ResourceWatcher* — `NothingMissed`: a daemon that sleeps has read what there
  is. `EventuallyRead`.
- *GuestMesh* — `EndpointKeepsPeer`, `ReachesTarget`, `ReservationsKept`,
  `EventuallyServed`.
- *A2aPeers* — `RefusedNotReused`, `EventuallyCurrent`.
- *HttpLimits* — `LimitsHold`: the counter is the number of guards and within the
  limit; any 2·rate+1 passages of a peer take a window or longer.
  `EventuallyReleased`.
- *Gateway* — `AdmittedOnce`: one process admits a token once, while no thread
  rests longer than the skew (counterexample 14). `ToldStays`: every
  answer and every attested digest stays covered by the file. `ChainIntact`: the
  file verifies unless an append was cut short.
- *CommandPolicy* — `StoppedOrReported`: a result means that the container is
  over. `OthersKeepRunning`, `EventuallyAnswered`.
- *ProjectInit, Connect* — `AcceptedOnward`: accepted arguments make an accepted
  spec that finds its files, a disk that holds its image and a card the peers
  accept, but for the arguments nobody looks at before the old project is gone
  (`Unchecked`, counterexample 15). `InputsKept`: `--force` keeps what this very
  command needs.
  `TunnelsKept`, `SignalsItsOwn`.

## 5. Counterexamples

Each entry is a setting under which TLC finds the named property violated by
what the code does. The runs of section 3 do not check these properties, or are
set so that they hold; and those settings exclude no more than what is here.

1. **An image without a record** (`publish.rs:1302`; `ImagesInCustody` with
   `DieAt <- MCAnywhere`). A publish that dies after `ImportImage` leaves an
   image that unpublish does not look for before it removes the record, against
   `docs/spec.md:207`.
2. **Retrying a sync with another binding** (`trustee.rs:1143`;
   `UploadUnderOwnBinding` with `RetryOriginal = FALSE`). Whether the grant is
   withdrawn before uploading is decided from the local state alone. After a
   sync to binding *b2* that died once its policy was set, a sync back to *b1*
   uploads while the remote policy admits *b2*.
3. **A destroy that cannot be rerun** (`commands.rs:2571`; `DestroyCanBeRerun`
   with `DieAt <- Points`). The Trustee entry is removed before the phase becomes
   `deleted`; a destroy that dies in between is refused ever after, against
   `docs/trustee.md:258`.
4. **A destroyed service that is still managed** (`commands.rs:2474`;
   `DestroyedMeansUnmanaged` with `Redeploy = TRUE` and
   `TrusteeMode <- MCService`). destroy reports a redeployed service, whose first
   sync died, as already deleted, against `docs/trustee.md:260`.
5. **A reserved application port** (`daemon/src/app.rs:2480`; `AppKeepsPorts`
   with `Offer <- MCOfferPorts`, `Boot <- MCBoots`). A bundle rendered before
   `inject` changed the ports lets the planner give the new application port to
   a peer; every later plan is refused.
6. **A card under a pin that did not accept it** (`daemon/src/app.rs:3319`;
   `PinChecked` with `MaxCommands = 3`). The fingerprint of a cached entry is
   replaced before the entry is judged, so that a peer that was pinned anew goes
   on with the old card while it cannot be reached, against `docs/a2a.md:247`.
7. **A peering lost by migrate** (`commands.rs:997`; `MigrateKeeps`). migrate
   reads and writes `peerings.yaml` without the lock that add and remove take.
8. **A command that ran and is not reported** (`cai-pep/src/main.rs:974`;
   `ExecutedIsReported`). `summarize_command` cuts the command at byte 120; inside
   a multi-byte character the thread panics after the command was executed.
9. **A blank source** (`spec.rs:726`; `SourcesGiven`). Paths are resolved before
   they are checked, an empty one to the directory of the spec, so it is refused
   only when the instance exists.
10. **A part of a response for the whole** (`gateway/src/lib.rs:971`;
    `WholeOrError`). A response that is not chunked ends where the upstream ends,
    whatever its Content-Length says.
11. **An audit record cut in half** (`gateway/src/lib.rs:1484`; `ToldStays` with
    `Torn = TRUE`). A kill between the line and its newline makes `open` refuse
    the chain for good, and the port is never served again.
12. **A ready file served by somebody else** (`commands.rs:1159`; `ReadyServes`).
    The ports are checked and released before TNG binds them; another program can
    take one and answer the wait instead.
13. **A release that is not retained** (`images.rs:237`, `images.rs:280`;
    `ReleasesKept`). `export --image-id` of an image without an available
    publication (after `publish --no-wait`, or of an older build) skips
    `mark_exported` and writes the release all the same. When the import has
    ended, `unpublish` deletes the image without `--force`, against
    `docs/spec.md:213`.
14. **A token used twice** (`gateway/src/lib.rs:121`, `:346`; `AdmittedOnce` with
    `MaxRest = 2`, `MaxTime = 4`). A connection reads the clock before it takes
    the lock of the replay cache. When its thread rests longer than the skew in
    between, another connection has pruned the token as expired, and the late one
    still finds it valid.
15. **Arguments refused too late** (`staged.rs:600`, `init.rs:130-141`;
    `GeneratedAccepted` without the exception `Unchecked`). `init` looks neither
    at a disk smaller than the image of a target that is not staged, nor at the
    form of `--image-id`, nor whether `--region`, `--zone-id` or `--instance-type`
    is blank. With `--force` it deletes the old project, generates the new one
    and only then refuses its spec (`spec.rs:508-511`, `600-604`, `642-650`).

| Where | Setting | What TLC finds |
|---|---|---|
| `TrusteePolicy` | `AdoptWhenOwned = TRUE` | `InterruptedCanBeDestroyed`: adopting while a revoke or cleanup is half done closes its recovery window |
| `ImagePublish` | `ImportRaces = TRUE` | `SnapshotsInCustody`: the import ends between listing the snapshots and deleting the image |
| `Delivery` | `RacesWithKeys = TRUE` | `DeliveredAsFrozen`: an identity replaced between its check and its rendering is delivered |
| `GuestResources` | `DiesUnsaved = TRUE` | `NeverReseeded`: a death between a seed and its record makes the next round write over the application's data (`docs/spec.md:365`) |
| `GuestMesh` | an offer whose bundles change the mode of a route | `EventuallyServed`: the gateway is restarted while TNG still holds the endpoint |
| `GuestMesh` | `EventuallyServed` without `Misled` | file and fingerprint agree while the process runs something else |
| `Connect` | `StagedRekor = TRUE` | `AcceptedOnward`: `--stage deploy` removes `attestation.rekor` and keeps the Rekor reference values (`staged.rs:585`) |

Observed while modelling, without a property: a first claim that is pending when
the baseline changes leaves no command of the CLI (`trustee.rs:1211`); the mesh
generation starts again when the members disappear (`workflows.rs:750`), which
only the reported status shows; the wait for readiness does not check that the
guest has taken the new bundle.

## 6. Proofs

All theorems hold for every value of the constants that satisfies the modules'
assumptions, the bounds included, which are arbitrary natural numbers.

**`Policies_proofs`** holds what is proved of the two policies, the custody of
Trustee and the commands of `cai-pep`.

*Trustee* (`TrusteePolicy`): `TypeCorrect`, `NothingOrphaned`, `GrantsIsolated`,
`Implements`, and each under an assumption `UploadsUnderOwnBinding` and
`InterruptionsRecoverable`. The inductive invariant is
`IInv == TypeOK /\ CommandInv /\ PolicyInv /\ NoOrphanedSecret`.
`NoOrphanedSecret` is not inductive: a cleanup's last write is safe only because
the command has deleted every path (`CommandInv`), and because the policy it
sets renders the local record, in which the service is disabled. `PolicyInv`
relates the two sides across a crash: a remote policy one revision ahead
differs from the local grants at most for the service its marker names.
`GrantsIsolated` follows from it, since every command that passes
`ensure_remote_control` renders grants that agree with the remote ones for all
other services. `Implements` maps custody to the recorded services and shows
that each action is a step of `SecretCustody` or stutters.

The other two are about what an interrupted transaction leaves. `MarkerInv`
says that a policy one revision ahead of the local state carries the marker of
that transaction, and that the record that justified it is still there: the
pending reconcile, the enabled service of a revoke, the disabled one of a
cleanup. `InterruptionsRecoverable` needs besides that an owned policy which
nobody edited is the recorded one or one ahead (`SettledInv`). That is where
`~AdoptWhenOwned` is used: adopting advances the revision over an interruption
(the table of section 5). `UploadsUnderOwnBinding` needs `RetryInv`: what an
interrupted sync has granted is nothing or what its retry will grant, which
holds only if the retry has the binding of the first attempt (`RetryOriginal`,
counterexample 2).

*Commands* (`CommandPolicy`): `PepTypeCorrect`, `ResultsAreFinal`, `OthersLeftAlone`.
The inductive invariant is
`PepInv == PepTypeOK /\ PlaceInv /\ NameInv /\ UniqueInv /\ StoppedOrReported`.
`PlaceInv` says what is there at each program point of a request: a result comes
only after the client is dead and its container removed, and only a live client
starts a container, so nothing comes back after the answer. A cleanup removes by
name; that it stops its own container only is uniqueness of names (`UniqueInv`),
which holds because every name carries a process number that is not larger than
the present one and, if it is the present one, a counter below the next
(`NameInv`). Process numbers are not used twice in the model; should the system
reuse one, it is the millisecond that tells the names apart.

**`ServiceLifecycle_proofs`**: `Typed`, `OnRecord`, `RevokedFirst`,
`OneCommandPerService`, `MeshesSettle`. The inductive invariant is
`IInv == TypeOK /\ LockInv /\ StageInv /\ EntryInv /\ InstanceOnRecord`.
A step of destroy relies on what earlier steps of the same command established
(the access is withdrawn, the phase is `destroying`), and only the operation
lock keeps other commands from undoing it in between. So `StageInv` says for
every program point what its command may rely on, and `LockInv` that a command
at such a point owns the lock of its service (`Owns`); a step of one command
then leaves the stage of every other untouched, since their services differ.
The steps of a mesh sync own no service: they are shown to leave phases and
instances as they are. The next generation of a bundle is the maximum of those
in use; the lemma `MaxIsMember` shows that it is one of them.

`MeshesSettle` is proved with `SettlingInv == ~faulty => Settled`. While commands
run, a bundle or firewall may be stale, and `Settled` says by whom that will be
made good. `GuestsInv`: the guests of a member list all members and nobody but
members, services whose destroy has not told the mesh yet (`Leaving`) and the
candidate being delivered (`Joining`). `FirewallInv`: the firewall of an active
service was rendered for a set between the active services and the members with
those leaving, unless a running refresh still has it on its list (`Awaiting`).
`DeliveringInv`: the bundle being delivered lists the members and the candidate;
its sync holds the state lock, so nobody comes or goes meanwhile.
`ActivatingInv`: what is `activating` has its command. A step that changes the
members puts every active service on its own refresh list, or its service among
those leaving; all others are `QuietStep`s. At the end nobody leaves, joins,
activates or refreshes, and the bounds meet. The proof uses that an error of any
command withdraws the promise; it needs no assumption on where commands die.

**`ImagePublish_proofs`**: `TypeCorrect`, `RetentionKept`, and `CustodyKept` under
the assumptions `"answered" \notin DieAt` and `ImportRaces = FALSE` (section 5
says what happens without them). The inductive invariant is
`IInv == TypeOK /\ JobInv /\ PublishInv /\ RetireInv /\ LeaseInv /\ EntriesInv /\
CloudInv /\ ReleasedInv /\ ObjectsInCustody`; it needs neither assumption.
A command keeps a copy of its publication and saves it step by step. `JobInv`
says that the copy is what is recorded, but for one entry about to be saved, and
that saving that one forgets no image, no existing snapshot and no retention
(`Saving`). `PublishInv` and `RetireInv` say for each program point, and for the
save on the way to it (`Place`), what its command relies on. `LeaseInv` is what
`RetainedKept` needs: from its exclusive lease on, nobody deploys from the image
a command retires, and nothing refers to it once that was checked, because
whatever could make a new reference holds a shared lease first or is an entry of
the same producer. `ReleasedInv`: a release that was handed out with its mark is
still marked. What `RetentionKept` does not promise is the image of a release that
was exported without a publication, which carries no mark (`ExportNamed`,
counterexample 13).

`CustodyKept` adds `CustodyInv`. That some record names an image is not
inductive, since two records could name one image and one of them go: `TagInv`
says which record it is, the one of the build the image is tagged with. It also
keeps a publish from adopting, without custody, what this workspace imported
(`OwnedInv`). `CapturedInv`: when an image goes, its snapshots are in its entry;
`SnapInv`: from then on a recorded entry lists each that exists.

**`GuestMesh_proofs`**: `TypeCorrect`, `EndpointsKept`, `ListenersApart`,
`ReservationsSurvive`, `EndpointsReachTheirPeer`. The inductive invariant is
`IInv == TypeOK /\ SpentInv /\ DiskInv /\ PlanInv /\ PromisedInv`.
`EndpointKeepsPeer` speaks of everything ever published, but what the next plan
is built from is the memory of the daemon, and what survives a death is the
disk. `PromisedInv` says every entry ever published is a *saved* reservation;
it holds because a plan is persisted before its directory is written
(`Writing => saved.ports = plan.ports`). `DiskInv` says the state on disk is the
saved one, missing or damaged, that only an unmarked guest starts from
nothing, and that memory extends the saved reservations and is injective; so
no later plan can move an endpoint. `PlanInv` follows the planner route by
route: reserved endpoints avoid control and application ports, hidden listeners
avoid everything used so far and are pairwise different. The proof needs no
assumption on the pools; a pool that is exhausted ends the round.

`EndpointsReachTheirPeer` adds `ReachInv`, at the end of `GuestMesh`. The danger
is that the gateway and TNG run different plans (the gateway is restarted first,
either restart may fail, and the daemon may die between them), and that a hidden
port to which the gateway forwards is an endpoint in TNG's plan, where TNG
connects without asking for the audience. `ReservedInv`: both listen for a route
only at its reservation. `MeshInv`: generations grow, and nothing is
acknowledged for a bundle newer than the one planned. `StartedInv`: a gateway
acknowledged as started for the newest bundle will not be restarted for it
again, so the reservations of that bundle are complete and none of the hidden
ports it uses is one; since a plan keeps complete reservations, that stays true
until the next generation. `ApartInv`, what the property needs, follows.

**`Gateway_proofs`**: `TypeCorrect`, `TokensAdmittedOnce`, `ChainUnbroken`, and
`ToldForEver` under the assumption `Torn = FALSE` (counterexample 11 is what
happens without it). `TokensAdmittedOnce` assumes `MaxRest =< Skew`: the code
has no such bound, and counterexample 14 is what a longer rest does. Three
invariants are proved inductive on top of
`Inv == TypeOK /\ ServeInv`. `TokenInv`: a token that was admitted is in the
cache or has expired by more than the skew (`RememberedInv`), and a thread that
checks one has a time no older than the skew (`CheckingInv`, which is where the
assumption is used); so pruning with an
old clock forgets nothing that could be admitted again. `ChainInv`: the line
being written continues the chain at the position of the store (`PenInv`), and
between two records the store is at the end of the file. `ToldInv`: what was
answered or attested lies within the lines that fsync has covered (`DurableInv`)
and nobody's record is written for a connection that waits for its own
(`WriterInv`); a loss of power keeps at least those lines.

**`GuestDaemon_proofs`** holds what is proved of three parts of the daemon that
share no state: the endpoints, the watcher and the cache of A2A peers.

*The endpoints* (`HttpLimits`): `HttpTypeCorrect`, `LimitsRespected`, from
`HttpInv == HttpTypeOK /\ OwnRequest /\ SlotsExact /\ RateInv /\ RateRespected`.
That the counter is the number of guards is a statement about cardinalities: a
step moves one request from "guard without a thread" to "thread", or removes
one, and `OwnRequest` (no two accept threads have the same connection) makes the
sets differ by exactly that one. The rate is a statement about sequences:
`WindowInv` bounds, for what the limiter remembers now, how many passages can
have come after the beginning of the present window and how many less than one
window before; the lemma `Passage` adds one more to the history.

*The watcher* (`ResourceWatcher`): `TypeCorrect`, `SleepsInformed`, from
`IInv == WatcherTypeOK /\ TreeInv /\ WatchInv /\ CaughtInv /\ StatInv`.
`NothingMissed` speaks of a sleeping daemon, but what a round has read is
overtaken while it reads. `CaughtInv` says that what was read is what there is,
unless an event waits or a directory is there without its watch, and both keep
the daemon from sleeping. `WatchInv` makes a change leave an event: a watch is on
the directory it was taken for, or its end is in the queue. `StatInv` covers the
race between looking and sleeping: a directory made after `existing_watch_dirs`
has passed its level has told the watch of its parent. `TreeInv` (a directory
has all its ancestors, inodes are not shared) is what makes the first missing
level the end of the search.

*A2A peers* (`A2aPeers`): `CacheTypeCorrect`, and `RefusedStaysAway` under the
assumption `MeshDelivered = {TRUE}` (no guest has an a2a bundle without a mesh).
The inductive invariant is
`SyncInv == TypeOK /\ RoundInv /\ CacheInv /\ RefusedNotReused`.
`RefusedNotReused` speaks of the cards a round has resolved; `CacheInv` says why
none of them can be an obsolete one: no cached card is, neither in memory nor on
disk as far as the saved history goes, so that neither the cache nor a restart
from the disk brings one back. `RoundInv` says that a round resolves only peers
of its bundle and that nothing of it is left between two rounds.

**`GuestInputs_proofs`** holds what is proved of the inputs of a guest: the
boot with what is delivered for it, and the resources of its application.

*Boot and delivery* (`Delivery`, `GuestBoot`): `ModeKept`, `HelpersKept`,
`KeyKept`, and `IdentityKept` under the assumption `RacesWithKeys = FALSE`
(section 5 says what happens without it). The first three follow from
`DeliveryInv`, which needs no assumption. `ModeInv` follows the mode from the
user data to `/run`, the event log and the daemon. `FetchInv` adds to
`HelpersBounded` that only a Trustee guest has helpers and that no answer
outlives the fetch it was given to. `DiskOpens` compares the key in the guest
with the disk, but that key has passed through a frozen copy, a command, the
injection service or the KBS, a fetch and the stage. `KeyInv` says there is one
key (`Key`) under way to an instance, wherever it is met. It holds because a command that
delivers works from the inputs recorded at deploy (`JobInv`), because a deploy has
put its key on the KBS before it has an instance (`DeployInv`), and because
nothing is fetched before there is one (`InstanceInv`). An instance of the old
kind, without frozen inputs, is delivered nothing until `bind-inputs` has
compared the files with the KBS, and then has the key that is there.

`FrozenInv` is the same for the identity of the gateway and the resources.
`RenderedInv`: the bootstrap a command has rendered has the identity it froze,
which is read from the source again and is the same only as long as nobody
replaces the file; here the assumption is used. `BoundInv`: every bootstrap on
the way to the instance has the identity of its deployment, and resources other
than those frozen only once an inject was accepted.

*Resources* (`GuestResources`): `TypeCorrect`, `MutablesKept`, from
`ResourceInv == TypeOK /\ DueInv /\ PlanInv /\ ClaimInv`. A round plans from the
record, then writes resource after resource. `PlanInv` says that what is
still to be written and already seeded is missing in the guest. That stays so
until it is written: with anything to write the application is stopped, and a
round that fails or dies leaves no plan behind. `ClaimInv` ties the history of seedings to the record in `state.json`.

**`Connect_proofs`**: `TunnelsStayKept`, `SignalsStayOwn`, `InputsStayKept`,
`AcceptedSpecServes`, `AcceptedStaysAccepted`. The first two follow from
`IInv == ProcType /\ SessionType /\ RestType /\ ClockInv /\ (\A c \in Session :
CommandOk(c)) /\ TunnelsKept /\ SignalsItsOwn`. A number that was used again looks
like the process in the ready file. `ClockInv` says that every name of a process,
number with start time and boot, lies in the past of the clock, so that no
process that starts later can have it. `CommandOk` says for each step of a
command what it relies on: the lock of its file, so that nobody else records
another tunnel there; from its check of the file until the file is written, that
no tunnel it names runs, which would be forgotten then; a child that it has not
detached before the file names it; and at the two steps that signal, a handle
that was opened for the tunnel it means. The assumption that no command is
called `"free"` or `"nobody"` only keeps these two marks apart from commands.

`InputsStayKept` is about the other half of the module, `init`. `GivenInv`: once
its arguments were accepted, the command was given no release and no key that
lie in the directory it replaces, and there is nothing in a directory that is
not there. The lemma `AcceptedOutside` is the argument check of `staged.rs`.

`AcceptedStaysAccepted` is `AcceptedOnward` for every set of command lines, every
edit and every pair of units with `GB < GiB`. `AcceptedInv`, which TLC confirmed
on the run of `Connect` first, has three parts. Until init ends, its arguments
are `Accepted`: what is left of its checks once files are not looked at any more.
What it has made is exactly `Template`, then `Generated`, of these arguments, and
so are its files. And whoever edits the spec, it stays `Shaped`: a sequence of
ports, at most one size of an image. The rest is about operators. `TemplateCommon`
and `TemplateBuildable` say what the seven templates have in common (`From` names
the fields one spec changes of another), `GeneratedCommon` what the two stages
keep of it, and `GeneratedValid` goes through the rules of `Declarations` one by
one; the harder ones are lemmas: replicas have a balancer that suits the
encryption of their port (`GeneratedReplicas`), and an image of so many decimal
gigabytes fits a disk of as many binary ones (`GeneratedDisk`). `GeneratedFiles`
compares what is named with what is written; `DiskHolds` and `CardFrom` say of any
accepted spec what its disk holds and that its card is accepted. `GeneratedValid`
needs a disk as large as the image, a zone that is not blank and no malformed ID
of the image: what `Unchecked` excepts, since nothing in `Accepted` implies it
(counterexample 15). The theorem assumes `StagedRekor = FALSE`, because the
validation of what was generated fails otherwise (section 5); `AcceptedSpecServes` states the other three parts without
that assumption. `InitAssumption` says that an edit writes at most one value into
an `Option` field of the Rust structs.

**Only model-checked.** Liveness (`EventuallyRetired`, `EventuallyReclaimed`,
`EventuallyServed`, `EventuallyCurrent`, `EventuallyReleased`,
`EventuallyAnswered`, `EventuallyRead`, `BootEnds`): fairness and ENABLED are out
of the prover's reach. Induction over data and recursive operators are out of
reach too; the modules that are proved about use none (sets with a least element
where the code folds over a list).

## 7. Not modelled

- Reports, TUI, self description, debug and management SSH, upgrade apart from
  `bind-inputs`, guest assets and image runtime: they display, find files or
  replace the command by another program, and keep no state others rely on.
- The Shelter adapter and the schemas: conversions. What they decide is a guard
  or an operator elsewhere (`Peerings`, `Declarations`).
- In `init`: prompts, installer scripts, `NEXT_STEPS`, and what is inside
  `openclaw.json`; only which files are written and what the spec says of them.
- The check that ports shared by several services of one guest do not clash, the
  local ports of A2A peers inside the port plan of the mesh
  (`daemon/src/app.rs:3453`), and several MCP ports in one gateway.
- Cryptography and attestation: a digest is what it is a digest of, a signed
  thing is one its signer made, a measured guest is what it was built as.
- Installers, packaging, examples and the end-to-end harness: scripts around the
  product.

## 8. What would come next

An abstract specification of a mesh endpoint as a write-once map from ports to
peers would say what `EndpointKeepsPeer` and `ReservationsKept` say together.
A2A peers belong into the port plan of `GuestMesh`.
