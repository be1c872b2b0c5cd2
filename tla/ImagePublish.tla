---------------------------- MODULE ImagePublish ----------------------------
(***************************************************************************)
(* Publication, export, consumption and retirement of the cloud images of  *)
(* one producer service.  Its commands share one operation lock, so `job'  *)
(* is at most one of them; consumers run on their own locks and meet the   *)
(* producer only at the image lease.  A command can die, or a cloud call   *)
(* of it fail, wherever it has a step of its own.                          *)
(*                                                                         *)
(* A build has one publication: region and variant are fixed.              *)
(***************************************************************************)
EXTENDS Naturals, FiniteSets

CONSTANTS
    Build, Image, NoBuild, NoImage,
    Producer, Importer,  \* Importer: services deployed from an exported release
    MaxPublish,          \* bound: new publications; retries are free
    MaxCrashes,          \* bound: commands of the producer or a consumer that die
    NamedCost,           \* bound: the deaths an export without publication counts for
    DieAt,               \* the program points at which a command can die
    ImportRaces          \* TRUE: an import may end while its image is retired

Consumer == Importer \cup {Producer}

ASSUME ImageAssumption ==
    /\ NoImage \notin Image /\ NoBuild \notin Build /\ Producer \notin Importer
    /\ MaxPublish \in Nat /\ NamedCost \in Nat /\ MaxCrashes \in Nat /\ ImportRaces \in BOOLEAN

VARIABLES
    build, recorded, rec,          \* the producer's state.json
    job,                           \* the producer's running command
    status, tag, ours, answer,     \* ECS images; whom ImportImage answered
    snap, objects,                 \* their snapshots, the OSS uploads
    released,                      \* signed releases handed out
    phase, image, proc,            \* consumers: state, reference, command
    publishes, crashes

records == <<build, recorded, rec>>
cloud == <<status, tag, ours, answer, snap, objects>>
users == <<phase, image, proc>>
bounds == <<publishes, crashes>>
vars == <<records, job, cloud, released, users, bounds>>

Base == [status |-> "uploading", image |-> NoImage, owned |-> TRUE,
         exported |-> FALSE, retiring |-> FALSE, snaps |-> {}, clean |-> FALSE]
NoJob == [cmd |-> "none", b |-> NoBuild, pc |-> "idle",
          next |-> "end", mem |-> Base, img |-> NoImage, force |-> FALSE, known |-> FALSE]
NoCommand == [pc |-> "idle", img |-> NoImage]

Present == {i \in Image : status[i] \in {"creating", "available", "failed"}}
Recorded == {"deploying", "deployed"}

-----------------------------------------------------------------------------
(* Locks *)

Unlocked == job.cmd = "none" /\ proc[Producer].pc = "idle"
SharedLease(i) == {c \in Consumer : proc[c].img = i /\ proc[c].pc \notin {"idle", "lease"}}
ExclusiveLease(i) == job.cmd \in {"unpublish", "prune"} /\ job.pc # "lease" /\ job.img = i

References(i) ==
    \/ \E c \in Importer : image[c] = i
    \/ phase[Producer] \in Recorded /\ image[Producer] = i
    \/ \E b \in recorded : rec[b].exported /\ rec[b].image = i

Init ==
    /\ build \in Build
    /\ recorded = {} /\ rec = [b \in Build |-> Base]
    /\ job = NoJob
    /\ status = [i \in Image |-> "unused"] /\ tag = [i \in Image |-> NoBuild]
    /\ ours = {} /\ answer = [b \in Build |-> NoImage]
    /\ snap = {} /\ objects = {} /\ released = {}
    /\ phase = [c \in Consumer |-> "none"]
    /\ image = [c \in Consumer |-> NoImage]
    /\ proc = [c \in Consumer |-> NoCommand]
    /\ publishes = 0 /\ crashes = 0

-----------------------------------------------------------------------------
(* The steps of a producer command *)

StartJob(cmd, b, pc, force) ==
    /\ Unlocked
    /\ job' = [NoJob EXCEPT !.cmd = cmd, !.b = b, !.pc = pc, !.force = force,
                            !.mem = rec[b], !.img = rec[b].image,
                            !.known = b \in recorded]
    /\ UNCHANGED <<records, cloud, released, users, crashes>>
Do(pc) == job.pc = pc
Then(pc) == job' = [job EXCEPT !.pc = pc]
\* The in-memory entry changes; persist_published follows
SaveAs(mem, next) == job' = [job EXCEPT !.mem = mem, !.pc = "save", !.next = next]
EndJob == job' = NoJob

\* persist_published
Save ==
    /\ Do("save")
    /\ rec' = [rec EXCEPT ![job.b] = job.mem]
    /\ recorded' = recorded \cup {job.b}
    /\ IF job.next = "end" THEN EndJob ELSE Then(job.next)
    /\ UNCHANGED <<build, cloud, released, users, bounds>>

\* cleanup_upload: a failure leaves the object to a later publish or prune
CleanUpload(mem, clean) ==
    /\ clean \in (IF mem.clean THEN {TRUE} ELSE BOOLEAN)
    /\ objects' = IF clean /\ ~mem.clean THEN objects \ {job.b} ELSE objects
\* capture_import_snapshots
Captured(mem) ==
    IF mem.owned THEN mem.snaps \cup (snap \cap {mem.image}) ELSE mem.snaps

-----------------------------------------------------------------------------
(* build and image publish *)

NewBuild(b) ==
    /\ Unlocked /\ b # build /\ b \notin recorded
    /\ phase[Producer] \notin Recorded
    /\ build' = b
    /\ image' = [image EXCEPT ![Producer] = NoImage]
    /\ UNCHANGED <<recorded, rec, job, cloud, released, phase, proc, bounds>>

PublishStart ==
    /\ IF build \in recorded THEN UNCHANGED publishes
       ELSE publishes < MaxPublish /\ publishes' = publishes + 1
    /\ ~rec[build].retiring
    /\ StartJob("publish", build, "describe", FALSE)

DescribeRecorded ==
    LET i == job.mem.image IN
    /\ Do("describe") /\ i # NoImage
    /\ CASE status[i] = "available" -> Then("collect")
         [] status[i] = "creating"  -> SaveAs([job.mem EXCEPT !.status = "importing"], "wait")
         [] OTHER                   -> SaveAs([job.mem EXCEPT !.status = "failed"], "end")
    /\ UNCHANGED <<records, cloud, released, users, bounds>>

Existing(b) == {i \in Image : status[i] = "available" /\ tag[i] = b}

\* Finding matching bits does not establish deletion custody
Adopt ==
    /\ Do("describe") /\ job.mem.image = NoImage
    /\ \E i \in Existing(job.b), clean \in BOOLEAN :
         LET mem == [job.mem EXCEPT !.image = i, !.owned = FALSE,
                                    !.status = "available", !.clean = clean] IN
         /\ IF job.known THEN CleanUpload(job.mem, clean)
            ELSE clean /\ UNCHANGED objects
         /\ SaveAs(mem, "end")
    /\ UNCHANGED <<records, status, tag, ours, answer, snap, released, users, bounds>>

\* A new publication gets a new ClientToken, persisted before it is used
BeginUpload ==
    /\ Do("describe") /\ job.mem.image = NoImage /\ Existing(job.b) = {}
    /\ IF job.mem.status = "uploaded" THEN Then("import") /\ UNCHANGED answer
       ELSE /\ SaveAs([job.mem EXCEPT !.status = "uploading", !.clean = FALSE], "upload")
            /\ answer' = IF job.known THEN answer ELSE [answer EXCEPT ![job.b] = NoImage]
    /\ UNCHANGED <<records, status, tag, ours, snap, objects, released, users, bounds>>

Upload ==
    /\ Do("upload")
    /\ objects' = objects \cup {job.b}
    /\ SaveAs([job.mem EXCEPT !.status = "uploaded"], "import")
    /\ UNCHANGED <<records, status, tag, ours, answer, snap, released, users, bounds>>

\* ImportImage creates one image per ClientToken
ImportImage ==
    /\ Do("import")
    /\ \E i \in Image :
         /\ IF answer[job.b] # NoImage
            THEN i = answer[job.b] /\ UNCHANGED <<status, tag, ours, answer>>
            ELSE /\ status[i] = "unused"
                 /\ status' = [status EXCEPT ![i] = "creating"]
                 /\ tag' = [tag EXCEPT ![i] = job.b]
                 /\ ours' = ours \cup {i}
                 /\ answer' = [answer EXCEPT ![job.b] = i]
         /\ job' = [job EXCEPT !.pc = "answered",
                               !.mem.image = i, !.mem.status = "importing"]
    /\ UNCHANGED <<records, snap, objects, released, users, bounds>>

\* The request is refused and nothing is created: the upload is kept, and the
\* next publish asks again
ImportRefused ==
    /\ Do("import") /\ answer[job.b] = NoImage
    /\ EndJob
    /\ UNCHANGED <<records, cloud, released, users, bounds>>

RecordImport ==
    /\ Do("answered")
    /\ rec' = [rec EXCEPT ![job.b] = job.mem]
    /\ Then("wait")
    /\ UNCHANGED <<build, recorded, cloud, released, users, bounds>>

Await ==
    /\ Do("wait")
    /\ \/ status[job.mem.image] = "available" /\ Then("collect")
       \/ status[job.mem.image] = "failed" /\ SaveAs([job.mem EXCEPT !.status = "failed"], "end")
       \/ status[job.mem.image] = "creating" /\ EndJob   \* --no-wait, or timed out
    /\ UNCHANGED <<records, cloud, released, users, bounds>>

Collect ==
    /\ Do("collect")
    /\ \E clean \in BOOLEAN :
         /\ CleanUpload(job.mem, clean)
         /\ SaveAs([job.mem EXCEPT !.status = "available", !.snaps = Captured(job.mem),
                                   !.clean = clean], "end")
    /\ UNCHANGED <<records, status, tag, ours, answer, snap, released, users, bounds>>

-----------------------------------------------------------------------------
(* image export *)

Listed == rec[build].status = "available" /\ ~rec[build].retiring

ExportUnmarked ==
    /\ Listed
    /\ StartJob("export", build, "release", FALSE)
    /\ UNCHANGED publishes

ExportStart ==
    /\ Listed
    /\ StartJob("export", build, "mark", FALSE)
    /\ UNCHANGED publishes

\* Retention is recorded before a distributable release exists
MarkExported ==
    /\ Do("mark")
    /\ SaveAs([job.mem EXCEPT !.exported = TRUE], "release")
    /\ UNCHANGED <<records, cloud, released, users, bounds>>

Release ==
    /\ Do("release")
    /\ released' = released \cup {[image |-> job.mem.image, marked |-> TRUE]}
    /\ EndJob
    /\ UNCHANGED <<records, cloud, users, bounds>>

Rare == crashes + NamedCost * Cardinality({r \in released : ~r.marked})

\* --image-id names an image that is not the available one of this build: one
\* still importing, one of an older build, a shared one.  There is no publication
\* to mark, and nothing is recorded before the release
ExportNamed(i) ==
    /\ Unlocked /\ i \in Present
    /\ ~(Listed /\ rec[build].image = i)
    /\ Rare + NamedCost =< MaxCrashes
    /\ released' = released \cup {[image |-> i, marked |-> FALSE]}
    /\ UNCHANGED <<records, job, cloud, users, bounds>>

-----------------------------------------------------------------------------
(* image unpublish and image prune *)

UnpublishImagesOnly(b, force) ==
    /\ b \in recorded /\ rec[b].image # NoImage
    /\ StartJob("unpublish", b, "lease", force)
    /\ UNCHANGED publishes

UnpublishStart(b, force) ==
    /\ b \in recorded
    /\ StartJob("unpublish", b, "lease", force)
    /\ UNCHANGED publishes

ShouldPrune(b, all) ==
    /\ all \/ rec[b].retiring \/ b # build \/ rec[b].status = "failed"
    /\ ~(phase[Producer] \in Recorded /\ rec[b].image # NoImage
         /\ image[Producer] = rec[b].image)
    /\ ~rec[b].exported /\ rec[b].owned

PruneStart(b, all) ==
    /\ b \in recorded /\ ShouldPrune(b, all)
    /\ StartJob("prune", b, "lease", FALSE)
    /\ UNCHANGED publishes

PruneUpload(b) ==
    /\ b \in recorded
    /\ rec[b].status = "available" /\ ~rec[b].clean /\ ~rec[b].retiring
    /\ StartJob("gc", b, "gc", FALSE)
    /\ UNCHANGED publishes

CollectUpload ==
    /\ Do("gc")
    /\ \E clean \in BOOLEAN :
         /\ CleanUpload(job.mem, clean)
         /\ SaveAs([job.mem EXCEPT !.clean = clean], "end")
    /\ UNCHANGED <<records, status, tag, ours, answer, snap, released, users, bounds>>

TakeExclusive ==
    /\ Do("lease")
    /\ SharedLease(job.img) = {}
    /\ Then("check")
    /\ UNCHANGED <<records, cloud, released, users, bounds>>

Retained ==
    /\ ~job.force
    /\ \/ ~job.mem.owned
       \/ job.mem.image # NoImage /\ References(job.mem.image)

RetireWithoutCapture ==
    /\ Do("check")
    /\ IF Retained THEN EndJob
       ELSE SaveAs([job.mem EXCEPT !.retiring = TRUE],
                   IF job.mem.image = NoImage THEN "snapshots" ELSE "delete")
    /\ UNCHANGED <<records, cloud, released, users, bounds>>

CheckReferences ==
    /\ Do("check")
    /\ IF Retained THEN EndJob
       ELSE SaveAs([job.mem EXCEPT !.retiring = TRUE],
                   IF job.mem.image = NoImage THEN "snapshots" ELSE "capture")
    /\ UNCHANGED <<records, cloud, released, users, bounds>>

Capture ==
    /\ Do("capture")
    /\ SaveAs([job.mem EXCEPT !.snaps = Captured(job.mem)], "delete")
    /\ UNCHANGED <<records, cloud, released, users, bounds>>

\* The cloud refuses to delete an image that is still importing without force
DeleteImage ==
    LET i == job.mem.image IN
    /\ Do("delete")
    /\ IF status[i] = "creating" /\ ~job.force
       THEN EndJob /\ UNCHANGED status
       ELSE /\ status' = [status EXCEPT ![i] = "deleted"]
            /\ job' = [job EXCEPT !.pc = "deleted"]
    /\ UNCHANGED <<records, tag, ours, answer, snap, objects, released, users, bounds>>

\* "Save cloud deletion before attempting OSS cleanup"
RecordDeletion ==
    /\ Do("deleted")
    /\ rec' = [rec EXCEPT ![job.b] = [job.mem EXCEPT !.image = NoImage]]
    /\ job' = [job EXCEPT !.mem.image = NoImage, !.pc = "snapshots"]
    /\ UNCHANGED <<build, recorded, cloud, released, users, bounds>>

DeleteSnapshot ==
    /\ Do("snapshots")
    /\ \E s \in job.mem.snaps :
         /\ snap' = snap \ {s}
         /\ SaveAs([job.mem EXCEPT !.snaps = @ \ {s}], "snapshots")
    /\ UNCHANGED <<records, status, tag, ours, answer, objects, released, users, bounds>>

RetireUpload ==
    /\ Do("snapshots") /\ job.mem.snaps = {}
    /\ \E clean \in BOOLEAN :
         /\ CleanUpload(job.mem, clean)
         /\ IF clean THEN Then("remove") ELSE SaveAs(job.mem, "end")
    /\ UNCHANGED <<records, status, tag, ours, answer, snap, released, users, bounds>>

RemoveAfterCleanup == RetireUpload /\ job'.pc = "remove"

RemovePublication ==
    /\ Do("remove")
    /\ recorded' = recorded \ {job.b}
    /\ rec' = [rec EXCEPT ![job.b] = Base]
    /\ EndJob
    /\ UNCHANGED <<build, cloud, released, users, bounds>>

-----------------------------------------------------------------------------
(* Consumers: deploy, destroy, forget *)

Consume(c, pc, img) == proc' = [proc EXCEPT ![c] = [pc |-> pc, img |-> img]]

\* published_image_for_deploy
DeployOwn ==
    LET c == Producer IN
    /\ Unlocked /\ phase[c] \notin Recorded
    /\ rec[build].status = "available" /\ ~rec[build].retiring
    /\ Consume(c, "lease", rec[build].image)
    /\ UNCHANGED <<records, job, cloud, released, phase, image, bounds>>

ImportRelease(c) ==
    /\ proc[c].pc = "idle" /\ phase[c] \notin Recorded
    /\ \E r \in released : Consume(c, "lease", r.image)
    /\ UNCHANGED <<records, job, cloud, released, phase, image, bounds>>

TakeShared(c) ==
    /\ proc[c].pc = "lease" /\ ~ExclusiveLease(proc[c].img)
    /\ Consume(c, IF c = Producer THEN "record" ELSE "prepare", proc[c].img)
    /\ UNCHANGED <<records, job, cloud, released, phase, image, bounds>>

\* images::prepare writes the manifest, which from now on is a reference
Prepare(c) ==
    /\ proc[c].pc = "prepare"
    /\ image' = [image EXCEPT ![c] = proc[c].img]
    /\ Consume(c, "record", proc[c].img)
    /\ UNCHANGED <<records, job, cloud, released, phase, bounds>>

RecordAttempt(c) ==
    /\ proc[c].pc = "record"
    /\ phase' = [phase EXCEPT ![c] = "deploying"]
    /\ image' = [image EXCEPT ![c] = proc[c].img]
    /\ Consume(c, "launch", proc[c].img)
    /\ UNCHANGED <<records, job, cloud, released, bounds>>

\* The lease is dropped once the deployment is recorded as deployed; launching
\* from a missing image fails and leaves the recorded attempt
Launch(c) ==
    /\ proc[c].pc = "launch"
    /\ phase' = IF status[proc[c].img] = "available"
                THEN [phase EXCEPT ![c] = "deployed"] ELSE phase
    /\ Consume(c, "idle", NoImage)
    /\ UNCHANGED <<records, job, cloud, released, image, bounds>>

Destroy(c) ==
    /\ phase[c] \in Recorded
    /\ IF c = Producer THEN Unlocked ELSE proc[c].pc = "idle"
    /\ phase' = [phase EXCEPT ![c] = "deleted"]
    /\ UNCHANGED <<records, job, cloud, released, image, proc, bounds>>

Forget(c) ==
    /\ proc[c].pc = "idle" /\ phase[c] \in {"none", "deleted"} /\ image[c] # NoImage
    /\ phase' = [phase EXCEPT ![c] = "none"]
    /\ image' = [image EXCEPT ![c] = NoImage]
    /\ UNCHANGED <<records, job, cloud, released, proc, bounds>>

-----------------------------------------------------------------------------
(* The cloud, another workspace with the same build, and death *)

ImportEnds(i) ==
    /\ status[i] = "creating"
    /\ ImportRaces \/ ~ExclusiveLease(i)
    /\ \/ status' = [status EXCEPT ![i] = "available"] /\ snap' = snap \cup {i}
       \/ status' = [status EXCEPT ![i] = "failed"] /\ UNCHANGED snap
    /\ UNCHANGED <<records, job, tag, ours, answer, objects, released, users, bounds>>

ForeignPublish(i, b) ==
    /\ status[i] = "unused" /\ Present \subseteq ours
    /\ status' = [status EXCEPT ![i] = "available"]
    /\ tag' = [tag EXCEPT ![i] = b]
    /\ snap' = snap \cup {i}
    /\ UNCHANGED <<records, job, ours, answer, objects, released, users, bounds>>

Crash ==
    /\ Rare < MaxCrashes /\ crashes' = crashes + 1
    /\ \/ job.pc \in DieAt /\ EndJob /\ UNCHANGED users
       \/ /\ \E c \in Consumer : proc[c].pc # "idle" /\ Consume(c, "idle", NoImage)
          /\ UNCHANGED <<job, phase, image>>
    /\ UNCHANGED <<records, cloud, released, publishes>>

Command ==
    \/ PublishStart \/ ExportStart \/ DeployOwn
    \/ \E b \in Build :
         \/ NewBuild(b) \/ PruneUpload(b)
         \/ \E flag \in BOOLEAN : UnpublishStart(b, flag) \/ PruneStart(b, flag)
    \/ \E i \in Image : ExportNamed(i)
    \/ \E c \in Importer : ImportRelease(c) \/ Forget(c)
    \/ \E c \in Consumer : Destroy(c)

Step ==
    \/ Save \/ DescribeRecorded \/ Adopt \/ BeginUpload \/ Upload \/ ImportImage
    \/ ImportRefused \/ RecordImport \/ Await \/ Collect \/ MarkExported \/ Release
    \/ CollectUpload \/ TakeExclusive \/ CheckReferences \/ Capture \/ DeleteImage \/ RecordDeletion
    \/ DeleteSnapshot \/ RetireUpload \/ RemovePublication

ConsumerStep(c) == TakeShared(c) \/ Prepare(c) \/ RecordAttempt(c) \/ Launch(c)

Next ==
    \/ Command \/ Step \/ Crash
    \/ \E c \in Consumer : ConsumerStep(c)
    \/ \E i \in Image : ImportEnds(i) \/ \E b \in Build : ForeignPublish(i, b)

Spec == Init /\ [][Next]_vars

\* Commands make their calls, imports end, and the operator keeps unpublishing
\* with --force; consumers release the lease long enough for the producer's
\* flock to be granted, and a cleanup that is retried for ever succeeds once
FairSpec ==
    /\ Spec
    /\ WF_vars(Step) /\ \A c \in Consumer : WF_vars(ConsumerStep(c))
    /\ \A i \in Image : WF_vars(ImportEnds(i))
    /\ \A b \in Build : SF_vars(UnpublishStart(b, TRUE))
    /\ SF_vars(TakeExclusive) /\ SF_vars(RemoveAfterCleanup)

-----------------------------------------------------------------------------
(* Properties *)

Publication ==
    [status : {"uploading", "uploaded", "importing", "available", "failed"},
     image : Image \cup {NoImage}, owned : BOOLEAN, exported : BOOLEAN,
     retiring : BOOLEAN, snaps : SUBSET Image, clean : BOOLEAN]
Point == {"idle", "save", "describe", "upload", "import", "answered", "wait", "collect", "mark",
          "release", "gc", "lease", "check", "capture", "delete", "deleted", "snapshots", "remove"}
Job ==
    [cmd : {"none", "publish", "export", "unpublish", "prune", "gc"},
     b : Build \cup {NoBuild}, pc : Point, next : Point \cup {"end"}, mem : Publication,
     img : Image \cup {NoImage}, force : BOOLEAN, known : BOOLEAN]

TypeOK ==
    /\ build \in Build /\ recorded \subseteq Build
    /\ rec \in [Build -> Publication] /\ \A b \in Build \ recorded : rec[b] = Base
    /\ job \in Job
    /\ status \in [Image -> {"unused", "creating", "available", "failed", "deleted"}]
    /\ tag \in [Image -> Build \cup {NoBuild}]
    /\ answer \in [Build -> Image \cup {NoImage}]
    /\ ours \subseteq Image /\ snap \subseteq Image /\ objects \subseteq Build
    /\ released \subseteq [image : Image, marked : BOOLEAN]
    /\ phase \in [Consumer -> {"none", "deploying", "deployed", "deleted"}]
    /\ image \in [Consumer -> Image \cup {NoImage}]
    /\ proc \in [Consumer -> [pc : {"idle", "lease", "prepare", "record", "launch"},
                              img : Image \cup {NoImage}]]

Deletes(i) == status[i] # "deleted" /\ status'[i] = "deleted"

\* Only --force deletes an image that a consumer references, whose lease a
\* deployment holds, or that was handed out in a release whose export found its
\* publication: "Even if export is interrupted, automatic pruning must not
\* delete a possibly shared image".  A release of an image that is named with
\* --image-id and not found carries no such promise: see ReleasesKept.
RetainedKept ==
    [][\A i \in Image : Deletes(i) /\ ~job.force =>
          /\ ~References(i) /\ SharedLease(i) = {}
          /\ [image |-> i, marked |-> TRUE] \notin released]_vars

\* docs/spec.md:213 promises it of every exported image.  The code does not keep
\* it: counterexample 13 of the README.
ReleasesKept ==
    [][\A i \in Image : Deletes(i) /\ ~job.force => \A r \in released : r.image # i]_vars

\* Until it is deleted, every image this workspace imported is in its records,
\* or the next publish finds it again by the recorded ClientToken ("the same
\* request identity is reused when the answer is lost").
ImagesInCustody ==
    \A i \in ours \cap Present :
        \E b \in recorded :
            \/ rec[b].image = i
            \/ rec[b].image = NoImage /\ ~rec[b].retiring /\ answer[b] = i

\* The snapshots of an imported image are recorded before the image, the only
\* way to find them, is deleted ("refusing to lose cleanup custody").
SnapshotsInCustody ==
    \A i \in snap \cap ours : i \in Present \/ \E b \in recorded : i \in rec[b].snaps

\* An upload is recorded as not cleaned up for as long as it may exist.
ObjectsInCustody ==
    \A b \in objects : b \in recorded /\ ~rec[b].clean

\* Wherever a command dies, whatever it left in the cloud is recorded or found
\* again: images, their snapshots and uploads, one never traded for another.
InCustody == ImagesInCustody /\ SnapshotsInCustody /\ ObjectsInCustody

\* Nothing is left once the operator keeps retiring publications.
EventuallyReclaimed ==
    <>[](recorded = {} /\ ours \cap Present = {} /\ snap \subseteq Image \ ours /\ objects = {})

=============================================================================
