------------------------ MODULE ImagePublish_proofs ------------------------
(* What a command leaves in the cloud is in custody wherever it dies, and only *)
(* --force deletes what others use, for any number of builds, images, consumers *)
(* and publications.                                                           *)
EXTENDS ImagePublish, TLAPS

\* Where a command goes on, after the entry it has changed is saved
Place == IF job.pc = "save" THEN job.next ELSE job.pc
SavedFor == {"end", "upload", "import", "wait", "release", "capture", "delete", "snapshots"}
RetirePlaces == {"lease", "check", "capture", "delete", "deleted", "snapshots", "remove"}

\* A command is alone, and what it has in memory is what is recorded, but for
\* the entry it is about to save
Unsaved == job.pc \in {"save", "answered"}
Saving ==
    LET old == rec[job.b]  new == job.mem IN
    /\ old.image = new.image \/ old.image = NoImage
    /\ old.snaps \cap snap \subseteq new.snaps
    /\ old.exported => new.exported
    /\ new.clean => job.b \notin objects
JobInv ==
    /\ job.cmd = "none" <=> job.pc = "idle"
    /\ job.pc # "idle" => job.b \in Build /\ proc[Producer].pc = "idle"
    /\ IF Unsaved THEN Saving ELSE job.pc # "idle" => job.mem = rec[job.b]

\* What a command relies on at its program points
PublishInv ==
    /\ job.pc = "save" => job.next \in SavedFor
    /\ job.pc = "describe" => ~job.mem.retiring /\ job.known = (job.b \in recorded)
    /\ Place \in {"upload", "import"} => job.mem.image = NoImage /\ ~job.mem.retiring
    /\ Place = "upload" => ~job.mem.clean
    /\ job.pc \in {"upload", "import", "answered"} => job.b \in recorded
    /\ job.pc = "answered" =>
          /\ rec[job.b].image = NoImage /\ ~rec[job.b].retiring
          /\ answer[job.b] = job.mem.image
    /\ Place \in {"answered", "wait", "collect", "mark", "release"} => job.mem.image \in Image
    /\ Place = "release" => job.mem.exported
    /\ Place \in {"mark", "release"} => job.b \in recorded
RetireInv ==
    /\ Place \in RetirePlaces => job.cmd \in {"unpublish", "prune"} /\ job.b \in recorded
    /\ Place \in {"lease", "check", "capture", "delete"} => job.mem.image = job.img
    /\ Place \in {"capture", "delete", "deleted", "snapshots", "remove"} => job.mem.retiring
    /\ Place \in {"capture", "delete", "deleted"} => job.mem.image \in Image
    /\ Place = "deleted" => status[job.mem.image] = "deleted"
    /\ Place \in {"snapshots", "remove"} => job.mem.image = NoImage
    /\ Place = "remove" => job.mem.snaps = {} /\ job.b \notin objects

\* Nobody deploys from the image that is being retired
LeaseInv ==
    /\ job.cmd \in {"unpublish", "prune"} /\ job.pc # "lease" => SharedLease(job.img) = {}
    /\ Place \in {"capture", "delete"} /\ ~job.force =>
          ~References(job.img) /\ ~job.mem.exported

\* An entry names an image that was imported, and lists snapshots that exist or
\* existed
Sound(entry) ==
    /\ entry.image \in Image => status[entry.image] # "unused"
    /\ entry.image = NoImage /\ ~entry.retiring => entry.owned
    /\ entry.status = "available" /\ ~entry.retiring => entry.image \in Image
    /\ \A s \in entry.snaps : status[s] \in {"available", "deleted"}
EntriesInv == Sound(job.mem) /\ \A b \in Build : Sound(rec[b])

CloudInv ==
    /\ \A i \in ours : status[i] # "unused"
    /\ \A i \in snap : status[i] \in {"available", "deleted"}
    /\ \A b \in Build : answer[b] # NoImage => answer[b] \in ours

ReleasedInv ==
    \A i \in Image : [image |-> i, marked |-> TRUE] \in released =>
        status[i] = "deleted" \/ \E b \in recorded : rec[b].exported /\ rec[b].image = i


IInv ==
    /\ TypeOK /\ JobInv /\ PublishInv /\ RetireInv /\ LeaseInv
    /\ EntriesInv /\ CloudInv /\ ReleasedInv /\ ObjectsInCustody

\* Nothing can lose a snapshot when the image is deleted
CapturedInv ==
    Place = "delete" /\ job.mem.owned => snap \cap {job.mem.image} \subseteq job.mem.snaps

\* A workspace owns what it imported itself
Owns(entry) == entry.image \in ours => entry.owned
OwnedInv == Owns(job.mem) /\ \A b \in Build : Owns(rec[b])

\* The publication that accounts for an image is the one it is tagged with
TagInv ==
    \A i \in ours \cap Present : tag[i] \in recorded /\
        \/ rec[tag[i]].image = i
        \/ job.pc = "answered" /\ job.b = tag[i] /\ job.mem.image = i

SnapInv ==
    \A i \in snap \cap ours : status[i] = "available" \/ \E b \in recorded : i \in rec[b].snaps
-----------------------------------------------------------------------------
(* The steps of a command, field by field *)

LEMMA BaseType == Base \in Publication
BY DEF Base, Publication

LEMMA NoJobType == NoJob \in Job /\ NoJob.pc = "idle" /\ NoJob.cmd = "none" /\ NoJob.mem = Base
BY BaseType DEF NoJob, Job, Point

LEMMA StartEffect ==
    ASSUME TypeOK, NEW cmd \in {"publish", "export", "unpublish", "prune", "gc"},
           NEW b \in Build, NEW pc \in Point, NEW force \in BOOLEAN, StartJob(cmd, b, pc, force)
    PROVE  /\ job' \in Job
           /\ job'.cmd = cmd /\ job'.b = b /\ job'.pc = pc /\ job'.mem = rec[b]
           /\ job'.img = rec[b].image /\ job'.force = force /\ job'.known = (b \in recorded)
<1>1. rec[b] \in Publication
    BY DEF TypeOK
<1>2. job' = [NoJob EXCEPT !.cmd = cmd, !.b = b, !.pc = pc, !.force = force, !.mem = rec[b],
                           !.img = rec[b].image, !.known = b \in recorded]
    BY DEF StartJob
<1>3. rec[b].image \in Image \cup {NoImage} /\ (b \in recorded) \in BOOLEAN
    BY <1>1 DEF Publication
<1> DEFINE m == rec[b]  i == rec[b].image  k == b \in recorded
<1> HIDE DEF m, i, k
<1>4. job' = [cmd |-> cmd, b |-> b, pc |-> pc, next |-> "end", mem |-> m, img |-> i,
              force |-> force, known |-> k]
    BY <1>2 DEF NoJob, m, i, k
<1>5. m \in Publication /\ i \in Image \cup {NoImage} /\ k \in BOOLEAN
    BY <1>1, <1>3 DEF m, i, k
<1>6. job' \in Job
    BY <1>4, <1>5 DEF Job
<1> QED  BY <1>4, <1>6 DEF m, i, k

LEMMA ThenEffect ==
    ASSUME TypeOK, NEW pc \in Point, Then(pc)
    PROVE  /\ job' \in Job /\ job'.pc = pc
           /\ job'.cmd = job.cmd /\ job'.b = job.b /\ job'.mem = job.mem /\ job'.img = job.img
           /\ job'.force = job.force /\ job'.known = job.known /\ job'.next = job.next
BY DEF TypeOK, Job, Then

LEMMA SaveAsEffect ==
    ASSUME TypeOK, NEW mem \in Publication, NEW next \in Point \cup {"end"}, SaveAs(mem, next)
    PROVE  /\ job' \in Job /\ job'.pc = "save" /\ job'.next = next /\ job'.mem = mem
           /\ job'.cmd = job.cmd /\ job'.b = job.b /\ job'.img = job.img
           /\ job'.force = job.force /\ job'.known = job.known
BY DEF TypeOK, Job, SaveAs, Point

LEMMA EndEffect ==
    ASSUME EndJob
    PROVE  job' \in Job /\ job'.pc = "idle" /\ job'.cmd = "none" /\ job'.mem = Base
BY NoJobType DEF EndJob

LEMMA MemType ==
    ASSUME TypeOK
    PROVE  /\ job.mem \in Publication
           /\ job.mem.image \in Image \cup {NoImage} /\ job.mem.snaps \subseteq Image
           /\ job.mem.clean \in BOOLEAN /\ job.mem.owned \in BOOLEAN
           /\ job.mem.exported \in BOOLEAN /\ job.mem.retiring \in BOOLEAN
           /\ job.img \in Image \cup {NoImage} /\ job.next \in Point \cup {"end"}
           /\ job.pc \in Point
BY DEF TypeOK, Job, Publication

LEMMA BaseSound == Sound(Base)
BY ImageAssumption DEF Sound, Base

LEMMA InitIInv == Init => IInv
<1> SUFFICES ASSUME Init PROVE IInv
    OBVIOUS
<1> USE ImageAssumption DEF Init
<1>1. job.pc = "idle" /\ job.cmd = "none" /\ job \in Job /\ job.mem = Base
    BY NoJobType
<1>2. TypeOK
  <2>1. rec \in [Build -> Publication]
      BY BaseType
  <2> QED  BY <1>1, <2>1 DEF TypeOK, NoCommand, Consumer
<1>3. JobInv /\ PublishInv /\ RetireInv /\ LeaseInv
    BY <1>1 DEF JobInv, PublishInv, RetireInv, LeaseInv, Place, RetirePlaces, SavedFor, Unsaved
<1>4. EntriesInv
  <2>1. \A b \in Build : rec[b] = Base
      OBVIOUS
  <2> QED  BY <1>1, <2>1, BaseSound DEF EntriesInv
<1>5. CloudInv /\ ReleasedInv /\ ObjectsInCustody
    BY DEF CloudInv, ReleasedInv, ObjectsInCustody
<1> QED  BY <1>2, <1>3, <1>4, <1>5 DEF IInv

-----------------------------------------------------------------------------
(* Steps that change only what the command has in memory *)

LEMMA Edits ==
    ASSUME IInv, UNCHANGED <<records, status, tag, ours, released, users>>,
           job' \in Job, JobInv', PublishInv', RetireInv', LeaseInv', Sound(job.mem)',
           snap' \subseteq snap, objects' \subseteq Build, ObjectsInCustody',
           answer' \in [Build -> Image \cup {NoImage}],
           \A b \in Build : answer'[b] # NoImage => answer'[b] \in ours
    PROVE  IInv'
<1> USE DEF IInv, records, users
<1>1. TypeOK'
    BY DEF TypeOK
<1>2. EntriesInv'
    BY DEF EntriesInv, Sound
<1>3. CloudInv' /\ ReleasedInv'
    BY DEF CloudInv, ReleasedInv
<1> QED  BY <1>1, <1>2, <1>3

LEMMA InMemory ==
    ASSUME IInv, UNCHANGED <<records, cloud, released, users>>,
           job' \in Job, JobInv', PublishInv', RetireInv', LeaseInv', Sound(job.mem)'
    PROVE  IInv'
<1>1. ObjectsInCustody'
    BY DEF IInv, ObjectsInCustody, cloud, records
<1>2. /\ objects' \subseteq Build /\ answer' \in [Build -> Image \cup {NoImage}]
      /\ \A b \in Build : answer'[b] # NoImage => answer'[b] \in ours
    BY DEF IInv, TypeOK, CloudInv, cloud
<1> QED  BY <1>1, <1>2, Edits DEF cloud

LEMMA SoundKept ==
    ASSUME UNCHANGED status, NEW entry, Sound(entry)
    PROVE  Sound(entry)'
BY DEF Sound

LEMMA MemSound ==
    ASSUME IInv, job.pc # "idle"
    PROVE  Sound(job.mem) /\ Sound(rec[job.b])
BY DEF IInv, EntriesInv, JobInv

\* A command that only starts
LEMMA StartsIInv ==
    ASSUME IInv,
           \/ PublishStart \/ ExportStart
           \/ \E b \in Build :
                \/ PruneUpload(b)
                \/ \E flag \in BOOLEAN : UnpublishStart(b, flag) \/ PruneStart(b, flag)
    PROVE  IInv'
<1>1. PICK cmd \in {"publish", "export", "unpublish", "prune", "gc"}, b \in Build,
           pc \in {"describe", "mark", "lease", "gc"}, force \in BOOLEAN :
        /\ StartJob(cmd, b, pc, force)
        /\ pc = "describe" => ~rec[b].retiring
        /\ pc = "mark" => rec[b].status = "available" /\ ~rec[b].retiring
        /\ pc = "lease" => b \in recorded
        /\ pc = "lease" <=> cmd \in {"unpublish", "prune"}
  <2>1. CASE PublishStart
      BY <2>1 DEF PublishStart, IInv, TypeOK
  <2>2. CASE ExportStart
      BY <2>2 DEF ExportStart, Listed, IInv, TypeOK
  <2>3. ASSUME NEW b \in Build, PruneUpload(b) PROVE StartJob("gc", b, "gc", FALSE)
      BY <2>3 DEF PruneUpload
  <2>4. ASSUME NEW b \in Build, NEW flag \in BOOLEAN, UnpublishStart(b, flag)
        PROVE  StartJob("unpublish", b, "lease", flag) /\ b \in recorded
      BY <2>4 DEF UnpublishStart
  <2>5. ASSUME NEW b \in Build, NEW flag \in BOOLEAN, PruneStart(b, flag)
        PROVE  StartJob("prune", b, "lease", FALSE) /\ b \in recorded
      BY <2>5 DEF PruneStart
  <2> QED  BY <2>1, <2>2, <2>3, <2>4, <2>5
<1>2. /\ job' \in Job
      /\ job'.cmd = cmd /\ job'.b = b /\ job'.pc = pc /\ job'.mem = rec[b]
      /\ job'.img = rec[b].image /\ job'.force = force /\ job'.known = (b \in recorded)
    BY <1>1, StartEffect DEF IInv, Point
<1>3. UNCHANGED <<records, cloud, released, users>> /\ proc[Producer].pc = "idle"
    BY <1>1 DEF StartJob, Unlocked
<1>4. Sound(rec[b])
    BY DEF IInv, EntriesInv
<1>5. Sound(job.mem)'
    BY <1>2, <1>3, <1>4 DEF Sound, cloud
<1>6. JobInv'
    BY <1>2, <1>3 DEF JobInv, Unsaved, records, users
<1>7. PublishInv'
  <2>1. pc = "mark" => rec[b].image \in Image /\ b \in recorded
      BY <1>1, <1>4 DEF Sound, IInv, TypeOK, Base
  <2> QED  BY <1>1, <1>2, <1>3, <2>1 DEF PublishInv, Place, records
<1>8. RetireInv' /\ LeaseInv'
    BY <1>1, <1>2, <1>3 DEF RetireInv, LeaseInv, Place, RetirePlaces, SavedFor, records
<1> QED  BY <1>2, <1>3, <1>5, <1>6, <1>7, <1>8, InMemory DEF cloud

LEMMA JobEnds ==
    ASSUME IInv, EndJob, UNCHANGED <<records, cloud, released, users>>
    PROVE  IInv'
<1>1. job' \in Job /\ job'.pc = "idle" /\ job'.cmd = "none" /\ job'.mem = Base
    BY EndEffect
<1>2. Sound(job.mem)'
  <2>1. Sound(Base)'
      BY BaseSound, SoundKept DEF cloud
  <2> QED  BY <1>1, <2>1
<1>3. JobInv' /\ PublishInv' /\ RetireInv' /\ LeaseInv'
    BY <1>1 DEF JobInv, PublishInv, RetireInv, LeaseInv, Place, RetirePlaces, SavedFor, Unsaved
<1> QED  BY <1>1, <1>2, <1>3, InMemory DEF cloud

\* A command that goes on to another point, or to the save of what it changed
LEMMA Continues ==
    ASSUME IInv, job.pc # "idle", UNCHANGED <<records, cloud, released, users>>,
           NEW mem, NEW pc, NEW next,
           /\ job' \in Job /\ job'.pc = pc /\ job'.next = next /\ job'.mem = mem
           /\ job'.cmd = job.cmd /\ job'.b = job.b /\ job'.img = job.img
           /\ job'.force = job.force /\ job'.known = job.known,
           pc \notin {"idle", "describe", "answered"}, ~Unsaved,
           pc # "save" => mem = job.mem,
           mem.image = job.mem.image, job.mem.snaps \subseteq mem.snaps,
           job.mem.exported => mem.exported, mem.clean => job.mem.clean,
           Sound(mem), job.pc # "lease" \/ pc = "check"
    PROVE  /\ Sound(job.mem)' /\ JobInv'
           /\ job.cmd \in {"unpublish", "prune"} /\ job.pc # "lease" =>
                SharedLease(job.img)' = {}
           /\ References(job.img)' = References(job.img)
<1>1. Sound(job.mem)'
    BY SoundKept DEF cloud
<1>2. job.mem = rec[job.b] /\ job.b \in Build /\ proc[Producer].pc = "idle"
    BY DEF IInv, JobInv
<1>3. JobInv'
  <2>1. pc = "save" => Saving'
    <3>1. mem.clean => job.b \notin objects
        BY <1>2 DEF IInv, ObjectsInCustody
    <3> QED  BY <1>2, <3>1 DEF Saving, records, cloud
  <2> QED  BY <1>2, <2>1 DEF JobInv, Unsaved, records, users, IInv
<1>4. job.cmd \in {"unpublish", "prune"} /\ job.pc # "lease" => SharedLease(job.img)' = {}
    BY DEF IInv, LeaseInv, SharedLease, users
<1>5. References(job.img)' = References(job.img)
    BY DEF References, records, users
<1> QED  BY <1>1, <1>3, <1>4, <1>5

LEMMA DescribeRecordedIInv ==
    ASSUME IInv, DescribeRecorded PROVE IInv'
<1>1. /\ job.pc = "describe" /\ job.mem.image # NoImage
      /\ UNCHANGED <<records, cloud, released, users>>
    BY DEF DescribeRecorded, Do
<1>2. job.mem \in Publication /\ Sound(job.mem) /\ ~job.mem.retiring
    BY <1>1, MemType, MemSound DEF IInv, PublishInv
<1>3. CASE Then("collect")
  <2>1. /\ job' \in Job /\ job'.pc = "collect"
        /\ job'.cmd = job.cmd /\ job'.b = job.b /\ job'.mem = job.mem /\ job'.img = job.img
        /\ job'.force = job.force /\ job'.known = job.known /\ job'.next = job.next
      BY <1>3, ThenEffect DEF IInv, Point
  <2>2. /\ Sound(job.mem)' /\ JobInv'
        /\ job.cmd \in {"unpublish", "prune"} => SharedLease(job.img)' = {}
      BY <1>1, <1>2, <2>1, Continues DEF Unsaved
  <2>3. PublishInv' /\ RetireInv' /\ LeaseInv'
      BY <1>1, <1>2, <2>1, <2>2, MemType DEF IInv, PublishInv, RetireInv, LeaseInv, Place,
         RetirePlaces, SavedFor
  <2> QED  BY <1>1, <2>1, <2>2, <2>3, InMemory DEF cloud
<1>4. ASSUME NEW st \in {"importing", "failed"}, NEW next \in {"wait", "end"},
             SaveAs([job.mem EXCEPT !.status = st], next)
      PROVE  IInv'
  <2> DEFINE mem == [job.mem EXCEPT !.status = st]
  <2>1. /\ mem \in Publication /\ mem.image = job.mem.image /\ mem.snaps = job.mem.snaps
        /\ mem.exported = job.mem.exported /\ mem.clean = job.mem.clean
        /\ mem.owned = job.mem.owned /\ mem.retiring = job.mem.retiring /\ mem.status = st
      BY <1>2 DEF Publication
  <2>2. Sound(mem)
      BY <1>2, <2>1 DEF Sound
  <2> HIDE DEF mem
  <2>3. /\ job' \in Job /\ job'.pc = "save" /\ job'.next = next /\ job'.mem = mem
        /\ job'.cmd = job.cmd /\ job'.b = job.b /\ job'.img = job.img
        /\ job'.force = job.force /\ job'.known = job.known
      BY <1>4, <2>1, SaveAsEffect DEF IInv, Point, mem
  <2>4. /\ Sound(job.mem)' /\ JobInv'
        /\ job.cmd \in {"unpublish", "prune"} => SharedLease(job.img)' = {}
      BY <1>1, <1>2, <2>1, <2>2, <2>3, Continues DEF Unsaved
  <2>5. PublishInv' /\ RetireInv' /\ LeaseInv'
      BY <1>1, <1>2, <2>1, <2>3, <2>4, MemType DEF IInv, PublishInv, RetireInv, LeaseInv, Place,
         RetirePlaces, SavedFor
  <2> QED  BY <1>1, <2>3, <2>4, <2>5, InMemory DEF cloud
<1> QED  BY <1>3, <1>4 DEF DescribeRecorded

LEMMA MarkExportedIInv ==
    ASSUME IInv, MarkExported PROVE IInv'
<1> DEFINE mem == [job.mem EXCEPT !.exported = TRUE]
<1>1. job.pc = "mark" /\ SaveAs(mem, "release") /\ UNCHANGED <<records, cloud, released, users>>
    BY DEF MarkExported, Do
<1>2. job.mem \in Publication /\ Sound(job.mem) /\ job.mem.image \in Image /\ job.b \in recorded
    BY <1>1, MemType, MemSound DEF IInv, PublishInv, Place
<1>3. /\ mem \in Publication /\ mem.image = job.mem.image /\ mem.snaps = job.mem.snaps
      /\ mem.exported /\ mem.clean = job.mem.clean
      /\ mem.owned = job.mem.owned /\ mem.retiring = job.mem.retiring
      /\ mem.status = job.mem.status
    BY <1>2 DEF Publication
<1>4. Sound(mem)
    BY <1>2, <1>3 DEF Sound
<1> HIDE DEF mem
<1>5. /\ job' \in Job /\ job'.pc = "save" /\ job'.next = "release" /\ job'.mem = mem
      /\ job'.cmd = job.cmd /\ job'.b = job.b /\ job'.img = job.img
      /\ job'.force = job.force /\ job'.known = job.known
    BY <1>1, <1>3, SaveAsEffect DEF IInv, Point
<1>6. /\ Sound(job.mem)' /\ JobInv'
      /\ job.cmd \in {"unpublish", "prune"} => SharedLease(job.img)' = {}
    BY <1>1, <1>2, <1>3, <1>4, <1>5, Continues DEF Unsaved
<1>7. PublishInv' /\ RetireInv' /\ LeaseInv'
    BY <1>1, <1>2, <1>3, <1>5, <1>6 DEF IInv, PublishInv, RetireInv, LeaseInv, Place,
       RetirePlaces, SavedFor, records
<1> QED  BY <1>1, <1>5, <1>6, <1>7, InMemory DEF cloud

LEMMA TakeExclusiveIInv ==
    ASSUME IInv, TakeExclusive PROVE IInv'
<1>1. /\ job.pc = "lease" /\ SharedLease(job.img) = {} /\ Then("check")
      /\ UNCHANGED <<records, cloud, released, users>>
    BY DEF TakeExclusive, Do
<1>2. job.mem \in Publication /\ Sound(job.mem)
    BY <1>1, MemType, MemSound DEF IInv
<1>3. /\ job' \in Job /\ job'.pc = "check"
      /\ job'.cmd = job.cmd /\ job'.b = job.b /\ job'.mem = job.mem /\ job'.img = job.img
      /\ job'.force = job.force /\ job'.known = job.known /\ job'.next = job.next
    BY <1>1, ThenEffect DEF IInv, Point
<1>4. Sound(job.mem)' /\ JobInv'
    BY <1>1, <1>2, <1>3, Continues DEF Unsaved
<1>5. SharedLease(job.img)' = {}
    BY <1>1, <1>3 DEF SharedLease, users
<1>6. PublishInv' /\ RetireInv' /\ LeaseInv'
    BY <1>1, <1>3, <1>5 DEF IInv, PublishInv, RetireInv, LeaseInv, Place, RetirePlaces,
       SavedFor, records
<1> QED  BY <1>1, <1>3, <1>4, <1>6, InMemory DEF cloud

LEMMA CheckReferencesIInv ==
    ASSUME IInv, CheckReferences PROVE IInv'
<1> DEFINE mem == [job.mem EXCEPT !.retiring = TRUE]
           next == IF job.mem.image = NoImage THEN "snapshots" ELSE "capture"
<1>1. job.pc = "check" /\ UNCHANGED <<records, cloud, released, users>>
    BY DEF CheckReferences, Do
<1>2. CASE Retained
    BY <1>1, <1>2, JobEnds DEF CheckReferences
<1>3. CASE ~Retained
  <2>1. SaveAs(mem, next)
      BY <1>3 DEF CheckReferences
  <2>2. job.mem \in Publication /\ Sound(job.mem) /\ job.mem.image \in Image \cup {NoImage}
      BY <1>1, MemType, MemSound DEF IInv
  <2>3. /\ mem \in Publication /\ mem.image = job.mem.image /\ mem.snaps = job.mem.snaps
        /\ mem.exported = job.mem.exported /\ mem.clean = job.mem.clean
        /\ mem.owned = job.mem.owned /\ mem.retiring
        /\ mem.status = job.mem.status
      BY <2>2 DEF Publication
  <2>4. Sound(mem)
      BY <2>2, <2>3 DEF Sound
  <2> HIDE DEF mem
  <2>5. /\ job' \in Job /\ job'.pc = "save" /\ job'.next = next /\ job'.mem = mem
        /\ job'.cmd = job.cmd /\ job'.b = job.b /\ job'.img = job.img
        /\ job'.force = job.force /\ job'.known = job.known
      BY <2>1, <2>3, SaveAsEffect DEF IInv, Point
  <2>6. /\ Sound(job.mem)' /\ JobInv'
        /\ job.cmd \in {"unpublish", "prune"} => SharedLease(job.img)' = {}
        /\ References(job.img)' = References(job.img)
      BY <1>1, <2>2, <2>3, <2>4, <2>5, Continues DEF Unsaved
  <2>7. /\ job.cmd \in {"unpublish", "prune"} /\ job.b \in recorded /\ job.mem.image = job.img
        /\ job.mem = rec[job.b]
      BY <1>1 DEF IInv, RetireInv, Place, RetirePlaces, SavedFor, JobInv, Unsaved
  <2>8. ~job.force /\ job.mem.image # NoImage => ~References(job.img)' /\ ~mem.exported
      BY <1>3, <2>3, <2>6, <2>7 DEF Retained, References
  <2>9. PublishInv' /\ RetireInv' /\ LeaseInv'
      BY <1>1, <2>2, <2>3, <2>5, <2>6, <2>7, <2>8
         DEF PublishInv, RetireInv, LeaseInv, Place, RetirePlaces, SavedFor, records
  <2> QED  BY <1>1, <2>5, <2>6, <2>9, InMemory DEF cloud
<1> QED  BY <1>2, <1>3

LEMMA CaptureIInv ==
    ASSUME IInv, Capture PROVE IInv'
<1> DEFINE mem == [job.mem EXCEPT !.snaps = Captured(job.mem)]
<1>1. job.pc = "capture" /\ SaveAs(mem, "delete") /\ UNCHANGED <<records, cloud, released, users>>
    BY DEF Capture, Do
<1>2. /\ job.mem \in Publication /\ Sound(job.mem)
      /\ Captured(job.mem) \subseteq Image /\ job.mem.snaps \subseteq Captured(job.mem)
      /\ \A s \in Captured(job.mem) : status[s] \in {"available", "deleted"}
    BY <1>1, MemType, MemSound DEF IInv, Captured, TypeOK, CloudInv, Sound
<1>3. /\ mem \in Publication /\ mem.image = job.mem.image /\ mem.snaps = Captured(job.mem)
      /\ mem.exported = job.mem.exported /\ mem.clean = job.mem.clean
      /\ mem.owned = job.mem.owned /\ mem.retiring = job.mem.retiring
      /\ mem.status = job.mem.status
    BY <1>2 DEF Publication
<1>4. Sound(mem)
    BY <1>2, <1>3 DEF Sound
<1> HIDE DEF mem
<1>5. /\ job' \in Job /\ job'.pc = "save" /\ job'.next = "delete" /\ job'.mem = mem
      /\ job'.cmd = job.cmd /\ job'.b = job.b /\ job'.img = job.img
      /\ job'.force = job.force /\ job'.known = job.known
    BY <1>1, <1>3, SaveAsEffect DEF IInv, Point
<1>6. /\ Sound(job.mem)' /\ JobInv'
      /\ job.cmd \in {"unpublish", "prune"} => SharedLease(job.img)' = {}
      /\ References(job.img)' = References(job.img)
    BY <1>1, <1>2, <1>3, <1>4, <1>5, Continues DEF Unsaved
<1>7. PublishInv' /\ RetireInv' /\ LeaseInv'
    BY <1>1, <1>3, <1>5, <1>6 DEF IInv, PublishInv, RetireInv, LeaseInv, Place, RetirePlaces,
       SavedFor, records
<1> QED  BY <1>1, <1>5, <1>6, <1>7, InMemory DEF cloud

LEMMA AwaitIInv ==
    ASSUME IInv, Await PROVE IInv'
<1>1. job.pc = "wait" /\ UNCHANGED <<records, cloud, released, users>>
    BY DEF Await, Do
<1>2. job.mem \in Publication /\ Sound(job.mem) /\ job.mem.image \in Image
    BY <1>1, MemType, MemSound DEF IInv, PublishInv, Place
<1>3. CASE Then("collect")
  <2>1. /\ job' \in Job /\ job'.pc = "collect"
        /\ job'.cmd = job.cmd /\ job'.b = job.b /\ job'.mem = job.mem /\ job'.img = job.img
        /\ job'.force = job.force /\ job'.known = job.known /\ job'.next = job.next
      BY <1>3, ThenEffect DEF IInv, Point
  <2>2. /\ Sound(job.mem)' /\ JobInv'
        /\ job.cmd \in {"unpublish", "prune"} => SharedLease(job.img)' = {}
      BY <1>1, <1>2, <2>1, Continues DEF Unsaved
  <2>3. PublishInv' /\ RetireInv' /\ LeaseInv'
      BY <1>1, <1>2, <2>1, <2>2 DEF PublishInv, RetireInv, LeaseInv, Place, RetirePlaces, SavedFor
  <2> QED  BY <1>1, <2>1, <2>2, <2>3, InMemory DEF cloud
<1>4. CASE SaveAs([job.mem EXCEPT !.status = "failed"], "end")
  <2> DEFINE mem == [job.mem EXCEPT !.status = "failed"]
  <2>1. /\ mem \in Publication /\ mem.image = job.mem.image /\ mem.snaps = job.mem.snaps
        /\ mem.exported = job.mem.exported /\ mem.clean = job.mem.clean
        /\ mem.owned = job.mem.owned /\ mem.retiring = job.mem.retiring
        /\ mem.status = "failed"
      BY <1>2 DEF Publication
  <2>2. Sound(mem)
      BY <1>2, <2>1 DEF Sound
  <2> HIDE DEF mem
  <2>3. /\ job' \in Job /\ job'.pc = "save" /\ job'.next = "end" /\ job'.mem = mem
        /\ job'.cmd = job.cmd /\ job'.b = job.b /\ job'.img = job.img
        /\ job'.force = job.force /\ job'.known = job.known
      BY <1>4, <2>1, SaveAsEffect DEF IInv, mem
  <2>4. /\ Sound(job.mem)' /\ JobInv'
        /\ job.cmd \in {"unpublish", "prune"} => SharedLease(job.img)' = {}
      BY <1>1, <1>2, <2>1, <2>2, <2>3, Continues DEF Unsaved
  <2>5. PublishInv' /\ RetireInv' /\ LeaseInv'
      BY <1>1, <2>3, <2>4 DEF PublishInv, RetireInv, LeaseInv, Place, RetirePlaces, SavedFor
  <2> QED  BY <1>1, <2>3, <2>4, <2>5, InMemory DEF cloud
<1> QED  BY <1>1, <1>3, <1>4, JobEnds DEF Await

-----------------------------------------------------------------------------
(* Steps that also change uploads, snapshots or the answer to an import *)

\* The entry that a command is about to save
LEMMA Saves ==
    ASSUME IInv, job.pc # "idle", ~Unsaved, UNCHANGED <<records, users>>,
           NEW mem,
           job'.pc = "save" /\ job'.mem = mem /\ job'.cmd = job.cmd /\ job'.b = job.b,
           mem.image = job.mem.image \/ job.mem.image = NoImage,
           job.mem.snaps \cap snap' \subseteq mem.snaps,
           job.mem.exported => mem.exported, mem.clean => job.b \notin objects'
    PROVE  JobInv'
<1>1. job.mem = rec[job.b] /\ job.b \in Build /\ proc[Producer].pc = "idle" /\ job.cmd # "none"
    BY DEF IInv, JobInv
<1>2. Saving'
    BY <1>1 DEF Saving, records
<1> QED  BY <1>1, <1>2 DEF JobInv, Unsaved, users

LEMMA LeaseKept ==
    ASSUME IInv, UNCHANGED users, job'.img = job.img,
           job.cmd \in {"unpublish", "prune"}, job.pc # "lease"
    PROVE  SharedLease(job.img)' = {}
BY DEF IInv, LeaseInv, SharedLease, users

LEMMA CleanEffect ==
    ASSUME IInv, job.pc # "idle", ~Unsaved, NEW clean \in BOOLEAN, CleanUpload(job.mem, clean)
    PROVE  /\ objects' \subseteq objects
           /\ clean => job.b \notin objects'
           /\ job.mem.clean => clean
<1>1. job.mem = rec[job.b] /\ job.b \in Build
    BY DEF IInv, JobInv
<1>2. job.mem.clean => job.b \notin objects
    BY <1>1 DEF IInv, ObjectsInCustody
<1> QED  BY <1>1, <1>2 DEF CleanUpload

LEMMA FewerObjects ==
    ASSUME IInv, objects' \subseteq objects, UNCHANGED records
    PROVE  ObjectsInCustody' /\ objects' \subseteq Build
BY DEF IInv, TypeOK, ObjectsInCustody, records

LEMMA AnswerType ==
    ASSUME IInv
    PROVE  /\ answer \in [Build -> Image \cup {NoImage}]
           /\ \A b \in Build : answer[b] # NoImage => answer[b] \in ours
BY DEF IInv, TypeOK, CloudInv

LEMMA CapturedType ==
    ASSUME IInv, job.pc # "idle"
    PROVE  /\ Captured(job.mem) \subseteq Image /\ job.mem.snaps \subseteq Captured(job.mem)
           /\ \A s \in Captured(job.mem) : status[s] \in {"available", "deleted"}
BY MemType, MemSound DEF IInv, Captured, TypeOK, CloudInv, Sound

LEMMA AdoptIInv ==
    ASSUME IInv, Adopt PROVE IInv'
<1>1. /\ job.pc = "describe" /\ job.mem.image = NoImage
      /\ UNCHANGED <<records, status, tag, ours, answer, snap, released, users>>
    BY DEF Adopt, Do
<1>2. PICK i \in Existing(job.b), clean \in BOOLEAN :
        /\ IF job.known THEN CleanUpload(job.mem, clean) ELSE clean /\ UNCHANGED objects
        /\ SaveAs([job.mem EXCEPT !.image = i, !.owned = FALSE, !.status = "available",
                                  !.clean = clean], "end")
    BY DEF Adopt
<1> DEFINE mem == [job.mem EXCEPT !.image = i, !.owned = FALSE, !.status = "available",
                                  !.clean = clean]
<1>3. /\ job.mem \in Publication /\ Sound(job.mem) /\ i \in Image /\ status[i] = "available"
      /\ job.known = (job.b \in recorded)
    BY <1>1, MemType, MemSound DEF IInv, Existing, PublishInv
<1>4. /\ mem \in Publication /\ mem.image = i /\ mem.snaps = job.mem.snaps
      /\ mem.exported = job.mem.exported /\ mem.clean = clean
    BY <1>3 DEF Publication
<1>5. Sound(mem)
    BY <1>3, <1>4, ImageAssumption DEF Sound
<1> HIDE DEF mem
<1>6. /\ job' \in Job /\ job'.pc = "save" /\ job'.next = "end" /\ job'.mem = mem
      /\ job'.cmd = job.cmd /\ job'.b = job.b /\ job'.img = job.img
    BY <1>2, <1>4, SaveAsEffect DEF IInv, mem
<1>7. objects' \subseteq objects /\ (clean => job.b \notin objects')
  <2>1. CASE job.known
      BY <1>1, <1>2, <2>1, CleanEffect DEF Unsaved
  <2>2. CASE ~job.known
      BY <1>2, <1>3, <2>2 DEF IInv, ObjectsInCustody
  <2> QED  BY <2>1, <2>2
<1>8. JobInv'
    BY <1>1, <1>4, <1>6, <1>7, Saves DEF Unsaved
<1>9. PublishInv' /\ RetireInv'
    BY <1>6 DEF PublishInv, RetireInv, Place, RetirePlaces, SavedFor
<1>10. LeaseInv'
    BY <1>1, <1>6, LeaseKept DEF LeaseInv, Place
<1>11. Sound(job.mem)'
    BY <1>1, <1>5, <1>6, SoundKept
<1> QED  BY <1>1, <1>6, <1>7, <1>8, <1>9, <1>10, <1>11, Edits, FewerObjects, AnswerType

LEMMA BeginUploadIInv ==
    ASSUME IInv, BeginUpload PROVE IInv'
<1>1. /\ job.pc = "describe" /\ job.mem.image = NoImage
      /\ UNCHANGED <<records, status, tag, ours, snap, objects, released, users>>
    BY DEF BeginUpload, Do
<1>2. /\ job.mem \in Publication /\ Sound(job.mem) /\ ~job.mem.retiring
      /\ job.mem = rec[job.b] /\ job.b \in Build /\ proc[Producer].pc = "idle"
      /\ job.cmd # "none"
    BY <1>1, MemType, MemSound DEF IInv, PublishInv, JobInv, Unsaved
<1>3. CASE Then("import") /\ UNCHANGED answer /\ job.mem.status = "uploaded"
  <2>1. /\ job' \in Job /\ job'.pc = "import"
        /\ job'.cmd = job.cmd /\ job'.b = job.b /\ job'.mem = job.mem /\ job'.img = job.img
        /\ job'.force = job.force /\ job'.known = job.known /\ job'.next = job.next
      BY <1>3, ThenEffect DEF IInv, Point
  <2>2. job.b \in recorded
      BY <1>2, <1>3 DEF IInv, TypeOK, Base
  <2>3. PublishInv' /\ RetireInv' /\ JobInv'
      BY <1>1, <1>2, <2>1, <2>2 DEF PublishInv, RetireInv, JobInv, Place, RetirePlaces,
         SavedFor, Unsaved, records, users
  <2>4. LeaseInv'
      BY <1>1, <2>1, LeaseKept DEF LeaseInv, Place
  <2>5. Sound(job.mem)'
      BY <1>1, <1>2, <2>1, SoundKept
  <2> QED  BY <1>1, <1>3, <2>1, <2>3, <2>4, <2>5, Edits, FewerObjects, AnswerType
<1>4. CASE /\ SaveAs([job.mem EXCEPT !.status = "uploading", !.clean = FALSE], "upload")
           /\ answer' = IF job.known THEN answer ELSE [answer EXCEPT ![job.b] = NoImage]
  <2> DEFINE mem == [job.mem EXCEPT !.status = "uploading", !.clean = FALSE]
  <2>1. /\ mem \in Publication /\ mem.image = NoImage /\ mem.snaps = job.mem.snaps
        /\ mem.exported = job.mem.exported /\ mem.clean = FALSE /\ mem.retiring = FALSE
        /\ mem.owned = job.mem.owned /\ mem.status = "uploading"
      BY <1>1, <1>2 DEF Publication
  <2>2. Sound(mem)
      BY <1>1, <1>2, <2>1 DEF Sound
  <2> HIDE DEF mem
  <2>3. /\ job' \in Job /\ job'.pc = "save" /\ job'.next = "upload" /\ job'.mem = mem
        /\ job'.cmd = job.cmd /\ job'.b = job.b /\ job'.img = job.img
      BY <1>4, <2>1, SaveAsEffect DEF IInv, mem, Point
  <2>4. JobInv'
      BY <1>1, <2>1, <2>3, Saves DEF Unsaved
  <2>5. PublishInv' /\ RetireInv'
      BY <2>1, <2>3 DEF PublishInv, RetireInv, Place, RetirePlaces, SavedFor
  <2>6. LeaseInv'
      BY <1>1, <2>3, LeaseKept DEF LeaseInv, Place
  <2>7. Sound(job.mem)'
      BY <1>1, <2>2, <2>3, SoundKept
  <2>8. /\ answer' \in [Build -> Image \cup {NoImage}]
        /\ \A b \in Build : answer'[b] # NoImage => answer'[b] \in ours
      BY <1>4, AnswerType
  <2> QED  BY <1>1, <2>3, <2>4, <2>5, <2>6, <2>7, <2>8, Edits, FewerObjects
<1> QED  BY <1>3, <1>4 DEF BeginUpload

LEMMA UploadIInv ==
    ASSUME IInv, Upload PROVE IInv'
<1> DEFINE mem == [job.mem EXCEPT !.status = "uploaded"]
<1>1. /\ job.pc = "upload" /\ SaveAs(mem, "import") /\ objects' = objects \cup {job.b}
      /\ UNCHANGED <<records, status, tag, ours, answer, snap, released, users>>
    BY DEF Upload, Do
<1>2. /\ job.mem \in Publication /\ Sound(job.mem) /\ job.mem.image = NoImage
      /\ ~job.mem.retiring /\ ~job.mem.clean /\ job.b \in recorded
      /\ job.mem = rec[job.b] /\ job.b \in Build
    BY <1>1, MemType, MemSound DEF IInv, PublishInv, Place, JobInv, Unsaved
<1>3. /\ mem \in Publication /\ mem.image = job.mem.image /\ mem.snaps = job.mem.snaps
      /\ mem.exported = job.mem.exported /\ mem.clean = job.mem.clean
      /\ mem.owned = job.mem.owned /\ mem.retiring = job.mem.retiring
      /\ mem.status = "uploaded"
    BY <1>2 DEF Publication
<1>4. Sound(mem)
    BY <1>2, <1>3 DEF Sound
<1> HIDE DEF mem
<1>5. /\ job' \in Job /\ job'.pc = "save" /\ job'.next = "import" /\ job'.mem = mem
      /\ job'.cmd = job.cmd /\ job'.b = job.b /\ job'.img = job.img
    BY <1>1, <1>3, SaveAsEffect DEF IInv, Point
<1>6. ObjectsInCustody' /\ objects' \subseteq Build
    BY <1>1, <1>2 DEF IInv, TypeOK, ObjectsInCustody, records
<1>7. JobInv'
    BY <1>1, <1>2, <1>3, <1>5, Saves DEF Unsaved
<1>8. PublishInv' /\ RetireInv'
    BY <1>2, <1>3, <1>5 DEF PublishInv, RetireInv, Place, RetirePlaces, SavedFor
<1>9. LeaseInv'
    BY <1>1, <1>5, LeaseKept DEF LeaseInv, Place
<1>10. Sound(job.mem)'
    BY <1>1, <1>4, <1>5, SoundKept
<1> QED  BY <1>1, <1>5, <1>6, <1>7, <1>8, <1>9, <1>10, Edits, AnswerType

LEMMA CollectIInv ==
    ASSUME IInv, Collect PROVE IInv'
<1>1. /\ job.pc = "collect"
      /\ UNCHANGED <<records, status, tag, ours, answer, snap, released, users>>
    BY DEF Collect, Do
<1>2. PICK clean \in BOOLEAN :
        /\ CleanUpload(job.mem, clean)
        /\ SaveAs([job.mem EXCEPT !.status = "available", !.snaps = Captured(job.mem),
                                  !.clean = clean], "end")
    BY DEF Collect
<1> DEFINE snaps == Captured(job.mem)
           mem == [job.mem EXCEPT !.status = "available", !.snaps = snaps, !.clean = clean]
<1>3. /\ job.mem \in Publication /\ Sound(job.mem) /\ job.mem.image \in Image
      /\ snaps \subseteq Image /\ job.mem.snaps \subseteq snaps
      /\ \A s \in snaps : status[s] \in {"available", "deleted"}
    BY <1>1, MemType, MemSound, CapturedType DEF IInv, PublishInv, Place
<1> HIDE DEF snaps
<1>4. /\ mem \in Publication /\ mem.image = job.mem.image /\ mem.snaps = snaps
      /\ mem.exported = job.mem.exported /\ mem.clean = clean
      /\ mem.owned = job.mem.owned /\ mem.retiring = job.mem.retiring
    BY <1>3 DEF Publication
<1>5. Sound(mem)
    BY <1>3, <1>4 DEF Sound
<1> HIDE DEF mem
<1>6. /\ job' \in Job /\ job'.pc = "save" /\ job'.next = "end" /\ job'.mem = mem
      /\ job'.cmd = job.cmd /\ job'.b = job.b /\ job'.img = job.img
    BY <1>2, <1>4, SaveAsEffect DEF IInv, mem, snaps
<1>7. objects' \subseteq objects /\ (clean => job.b \notin objects')
    BY <1>1, <1>2, CleanEffect DEF Unsaved
<1>8. JobInv'
    BY <1>1, <1>3, <1>4, <1>6, <1>7, Saves DEF Unsaved
<1>9. PublishInv' /\ RetireInv'
    BY <1>6 DEF PublishInv, RetireInv, Place, RetirePlaces, SavedFor
<1>10. LeaseInv'
    BY <1>1, <1>6, LeaseKept DEF LeaseInv, Place
<1>11. Sound(job.mem)'
    BY <1>1, <1>5, <1>6, SoundKept
<1> QED  BY <1>1, <1>6, <1>7, <1>8, <1>9, <1>10, <1>11, Edits, FewerObjects, AnswerType

LEMMA CollectUploadIInv ==
    ASSUME IInv, CollectUpload PROVE IInv'
<1>1. /\ job.pc = "gc"
      /\ UNCHANGED <<records, status, tag, ours, answer, snap, released, users>>
    BY DEF CollectUpload, Do
<1>2. PICK clean \in BOOLEAN :
        CleanUpload(job.mem, clean) /\ SaveAs([job.mem EXCEPT !.clean = clean], "end")
    BY DEF CollectUpload
<1> DEFINE mem == [job.mem EXCEPT !.clean = clean]
<1>3. job.mem \in Publication /\ Sound(job.mem)
    BY <1>1, MemType, MemSound DEF IInv
<1>4. /\ mem \in Publication /\ mem.image = job.mem.image /\ mem.snaps = job.mem.snaps
      /\ mem.exported = job.mem.exported /\ mem.clean = clean /\ mem.status = job.mem.status
      /\ mem.owned = job.mem.owned /\ mem.retiring = job.mem.retiring
    BY <1>3 DEF Publication
<1>5. Sound(mem)
    BY <1>3, <1>4 DEF Sound
<1> HIDE DEF mem
<1>6. /\ job' \in Job /\ job'.pc = "save" /\ job'.next = "end" /\ job'.mem = mem
      /\ job'.cmd = job.cmd /\ job'.b = job.b /\ job'.img = job.img
    BY <1>2, <1>4, SaveAsEffect DEF IInv, mem
<1>7. objects' \subseteq objects /\ (clean => job.b \notin objects')
    BY <1>1, <1>2, CleanEffect DEF Unsaved
<1>8. JobInv'
    BY <1>1, <1>4, <1>6, <1>7, Saves DEF Unsaved
<1>9. PublishInv' /\ RetireInv'
    BY <1>6 DEF PublishInv, RetireInv, Place, RetirePlaces, SavedFor
<1>10. LeaseInv'
    BY <1>1, <1>6, LeaseKept DEF LeaseInv, Place
<1>11. Sound(job.mem)'
    BY <1>1, <1>5, <1>6, SoundKept
<1> QED  BY <1>1, <1>6, <1>7, <1>8, <1>9, <1>10, <1>11, Edits, FewerObjects, AnswerType

LEMMA DeleteSnapshotIInv ==
    ASSUME IInv, DeleteSnapshot PROVE IInv'
<1>1. /\ job.pc = "snapshots"
      /\ UNCHANGED <<records, status, tag, ours, answer, objects, released, users>>
    BY DEF DeleteSnapshot, Do
<1>2. PICK s \in job.mem.snaps :
        /\ snap' = snap \ {s}
        /\ SaveAs([job.mem EXCEPT !.snaps = @ \ {s}], "snapshots")
    BY DEF DeleteSnapshot
<1> DEFINE mem == [job.mem EXCEPT !.snaps = @ \ {s}]
<1>3. /\ job.mem \in Publication /\ Sound(job.mem) /\ job.mem.image = NoImage /\ job.mem.retiring
      /\ job.cmd \in {"unpublish", "prune"} /\ job.b \in recorded
      /\ job.mem = rec[job.b] /\ job.b \in Build
    BY <1>1, MemType, MemSound DEF IInv, RetireInv, Place, RetirePlaces, SavedFor, JobInv, Unsaved
<1>4. /\ mem \in Publication /\ mem.image = job.mem.image /\ mem.snaps = job.mem.snaps \ {s}
      /\ mem.exported = job.mem.exported /\ mem.clean = job.mem.clean
      /\ mem.status = job.mem.status
      /\ mem.owned = job.mem.owned /\ mem.retiring = job.mem.retiring
    BY <1>3 DEF Publication
<1>5. Sound(mem)
    BY <1>3, <1>4 DEF Sound
<1> HIDE DEF mem
<1>6. /\ job' \in Job /\ job'.pc = "save" /\ job'.next = "snapshots" /\ job'.mem = mem
      /\ job'.cmd = job.cmd /\ job'.b = job.b /\ job'.img = job.img
    BY <1>2, <1>4, SaveAsEffect DEF IInv, mem, Point
<1>7. job.mem.clean => job.b \notin objects
    BY <1>3 DEF IInv, ObjectsInCustody
<1>8. JobInv'
    BY <1>1, <1>2, <1>4, <1>6, <1>7, Saves DEF Unsaved
<1>9. PublishInv' /\ RetireInv'
    BY <1>1, <1>3, <1>4, <1>6 DEF PublishInv, RetireInv, Place, RetirePlaces, SavedFor, records
<1>10. LeaseInv'
    BY <1>1, <1>6, LeaseKept DEF LeaseInv, Place
<1>11. Sound(job.mem)'
    BY <1>1, <1>5, <1>6, SoundKept
<1> QED  BY <1>1, <1>2, <1>6, <1>8, <1>9, <1>10, <1>11, Edits, FewerObjects, AnswerType

LEMMA RetireUploadIInv ==
    ASSUME IInv, RetireUpload PROVE IInv'
<1>1. /\ job.pc = "snapshots" /\ job.mem.snaps = {}
      /\ UNCHANGED <<records, status, tag, ours, answer, snap, released, users>>
    BY DEF RetireUpload, Do
<1>2. PICK clean \in BOOLEAN :
        /\ CleanUpload(job.mem, clean)
        /\ IF clean THEN Then("remove") ELSE SaveAs(job.mem, "end")
    BY DEF RetireUpload
<1>3. /\ job.mem \in Publication /\ Sound(job.mem) /\ job.mem.image = NoImage /\ job.mem.retiring
      /\ job.cmd \in {"unpublish", "prune"} /\ job.b \in recorded
      /\ job.mem = rec[job.b] /\ job.b \in Build /\ proc[Producer].pc = "idle"
    BY <1>1, MemType, MemSound DEF IInv, RetireInv, Place, RetirePlaces, SavedFor, JobInv, Unsaved
<1>4. /\ objects' \subseteq objects /\ (clean => job.b \notin objects')
      /\ job.mem.clean => clean
    BY <1>1, <1>2, CleanEffect DEF Unsaved
<1>5. /\ job' \in Job /\ job'.mem = job.mem /\ job'.cmd = job.cmd /\ job'.b = job.b
      /\ job'.img = job.img
      /\ IF clean THEN job'.pc = "remove" ELSE job'.pc = "save" /\ job'.next = "end"
  <2>1. CASE clean
      BY <1>2, <2>1, ThenEffect DEF IInv, Point
  <2>2. CASE ~clean
      BY <1>2, <1>3, <2>2, SaveAsEffect DEF IInv
  <2> QED  BY <2>1, <2>2
<1>6. JobInv'
  <2>1. CASE clean
      BY <1>1, <1>3, <1>5, <2>1 DEF JobInv, Unsaved, records, users
  <2>2. CASE ~clean
      BY <1>1, <1>4, <1>5, <2>2, Saves DEF Unsaved
  <2> QED  BY <2>1, <2>2
<1>7. PublishInv' /\ RetireInv'
    BY <1>1, <1>3, <1>4, <1>5 DEF PublishInv, RetireInv, Place, RetirePlaces, SavedFor, records
<1>8. LeaseInv'
    BY <1>1, <1>5, LeaseKept DEF LeaseInv, Place
<1>9. Sound(job.mem)'
    BY <1>1, <1>3, <1>5, SoundKept
<1> QED  BY <1>1, <1>4, <1>5, <1>6, <1>7, <1>8, <1>9, Edits, FewerObjects, AnswerType


-----------------------------------------------------------------------------
(* Steps that change the records or the images of the cloud *)

LEMMA ImportImageIInv ==
    ASSUME IInv, ImportImage PROVE IInv'
<1>1. job.pc = "import" /\ UNCHANGED <<records, snap, objects, released, users>>
    BY DEF ImportImage, Do
<1>2. PICK i \in Image :
        /\ IF answer[job.b] # NoImage
           THEN i = answer[job.b] /\ UNCHANGED <<status, tag, ours, answer>>
           ELSE /\ status[i] = "unused"
                /\ status' = [status EXCEPT ![i] = "creating"]
                /\ tag' = [tag EXCEPT ![i] = job.b]
                /\ ours' = ours \cup {i}
                /\ answer' = [answer EXCEPT ![job.b] = i]
        /\ job' = [job EXCEPT !.pc = "answered", !.mem.image = i, !.mem.status = "importing"]
    BY DEF ImportImage
<1>3. /\ job.mem \in Publication /\ Sound(job.mem) /\ job.mem.image = NoImage
      /\ ~job.mem.retiring /\ job.b \in recorded /\ job.mem = rec[job.b] /\ job.b \in Build
      /\ proc[Producer].pc = "idle" /\ job.cmd # "none" /\ job \in Job
    BY <1>1, MemType, MemSound DEF IInv, PublishInv, Place, JobInv, Unsaved, TypeOK
<1> DEFINE mem == [job.mem EXCEPT !.image = i, !.status = "importing"]
<1>4. /\ mem \in Publication /\ mem.image = i /\ mem.snaps = job.mem.snaps
      /\ mem.exported = job.mem.exported /\ mem.clean = job.mem.clean
      /\ mem.status = "importing"
    BY <1>3 DEF Publication
<1>5. job' = [job EXCEPT !.pc = "answered", !.mem = mem]
    BY <1>2, <1>3 DEF Job
<1> HIDE DEF mem
<1>6. /\ job' \in Job /\ job'.pc = "answered" /\ job'.mem = mem
      /\ job'.cmd = job.cmd /\ job'.b = job.b /\ job'.img = job.img
    BY <1>3, <1>4, <1>5 DEF Job, Point
<1>7. /\ status' \in [Image -> {"unused", "creating", "available", "failed", "deleted"}]
      /\ tag' \in [Image -> Build \cup {NoBuild}] /\ ours' \subseteq Image
      /\ answer' \in [Build -> Image \cup {NoImage}] /\ answer'[job.b] = i
      /\ ours \subseteq ours' /\ i \in ours' /\ status'[i] # "unused"
      /\ \A j \in Image : status[j] = "unused" \/ status'[j] = status[j]
      /\ \A j \in ours' : status'[j] # "unused"
      /\ \A b \in Build : answer'[b] # NoImage => answer'[b] \in ours'
  <2>1. CASE answer[job.b] # NoImage
      BY <1>2, <1>3, <2>1 DEF IInv, TypeOK, CloudInv
  <2>2. CASE answer[job.b] = NoImage
      BY <1>2, <1>3, <2>2 DEF IInv, TypeOK, CloudInv
  <2> QED  BY <2>1, <2>2
<1>8. TypeOK'
    BY <1>1, <1>6, <1>7 DEF IInv, TypeOK, records, users
<1>9. EntriesInv'
  <2>1. ASSUME NEW entry, Sound(entry), entry.snaps \subseteq Image PROVE Sound(entry)'
      BY <1>7, <2>1 DEF Sound
  <2>2. \A b \in Build : Sound(rec[b]) /\ rec[b].snaps \subseteq Image
      BY DEF IInv, EntriesInv, TypeOK, Publication
  <2>3. \A b \in Build : Sound(rec[b])'
      BY <1>1, <2>1, <2>2 DEF records
  <2>4. Sound(job.mem)'
    <3>1. mem.snaps \subseteq Image /\ \A s \in mem.snaps : status[s] \in {"available", "deleted"}
        BY <1>3, <1>4, <2>2 DEF Sound
    <3> QED  BY <1>4, <1>6, <1>7, <3>1, ImageAssumption DEF Sound
  <2> QED  BY <2>3, <2>4 DEF EntriesInv
<1>10. JobInv'
  <2>1. Saving'
      BY <1>1, <1>3, <1>4, <1>6 DEF Saving, IInv, ObjectsInCustody, records
  <2> QED  BY <1>1, <1>3, <1>6, <2>1 DEF JobInv, Unsaved, users
<1>11. PublishInv'
  <2>1. rec'[job.b].image = NoImage /\ ~rec'[job.b].retiring /\ job.b \in recorded'
      BY <1>1, <1>3 DEF records
  <2> QED  BY <1>4, <1>6, <1>7, <2>1 DEF PublishInv, Place
<1>12. RetireInv'
    BY <1>6 DEF RetireInv, Place, RetirePlaces, SavedFor
<1>13. LeaseInv'
    BY <1>1, <1>6, LeaseKept DEF LeaseInv, Place
<1>14. CloudInv' /\ ReleasedInv' /\ ObjectsInCustody'
    BY <1>1, <1>7 DEF IInv, TypeOK, CloudInv, ReleasedInv, ObjectsInCustody, records
<1> QED  BY <1>8, <1>9, <1>10, <1>11, <1>12, <1>13, <1>14 DEF IInv

LEMMA ImportRefusedIInv ==
    ASSUME IInv, ImportRefused PROVE IInv'
BY JobEnds DEF ImportRefused

\* An entry is recorded, and the command goes on
LEMMA Records ==
    ASSUME IInv, job.pc # "idle", UNCHANGED <<build, cloud, released, users>>,
           NEW mem \in Publication, Sound(mem), mem.clean => job.b \notin objects,
           rec' = [rec EXCEPT ![job.b] = mem], recorded' = recorded \cup {job.b},
           job' \in Job, Sound(job.mem)', JobInv', PublishInv', RetireInv', LeaseInv',
           \A i \in Image : rec[job.b].exported /\ rec[job.b].image = i =>
              status[i] = "deleted" \/ (mem.exported /\ mem.image = i)
    PROVE  IInv'
<1>1. job.b \in Build /\ rec \in [Build -> Publication] /\ recorded \subseteq Build
    BY DEF IInv, JobInv, TypeOK
<1>2. TypeOK'
    BY <1>1 DEF IInv, TypeOK, cloud, users
<1>3. EntriesInv'
    BY <1>1 DEF IInv, EntriesInv, Sound, cloud
<1>4. ObjectsInCustody'
    BY <1>1 DEF IInv, ObjectsInCustody, cloud
<1>5. CloudInv'
    BY DEF IInv, CloudInv, cloud
<1>6. ReleasedInv'
  <2> SUFFICES ASSUME NEW i \in Image, [image |-> i, marked |-> TRUE] \in released,
                      status[i] # "deleted"
               PROVE  \E b \in recorded' : rec'[b].exported /\ rec'[b].image = i
      BY DEF ReleasedInv, cloud
  <2>1. PICK b \in recorded : rec[b].exported /\ rec[b].image = i
      BY DEF IInv, ReleasedInv
  <2>2. i \in Image /\ b \in Build
      BY DEF IInv, TypeOK
  <2> QED  BY <1>1, <2>1, <2>2
<1> QED  BY <1>2, <1>3, <1>4, <1>5, <1>6 DEF IInv

LEMMA RecordImportIInv ==
    ASSUME IInv, RecordImport PROVE IInv'
<1>1. /\ job.pc = "answered" /\ rec' = [rec EXCEPT ![job.b] = job.mem] /\ Then("wait")
      /\ UNCHANGED <<build, recorded, cloud, released, users>>
    BY DEF RecordImport, Do
<1>2. /\ job.mem \in Publication /\ Sound(job.mem) /\ job.mem.image \in Image
      /\ job.b \in Build /\ job.b \in recorded /\ proc[Producer].pc = "idle" /\ job.cmd # "none"
      /\ job.mem.clean => job.b \notin objects
      /\ rec[job.b].image = NoImage /\ rec \in [Build -> Publication]
    BY <1>1, MemType, MemSound DEF IInv, PublishInv, Place, JobInv, Unsaved, Saving, TypeOK
<1>3. /\ job' \in Job /\ job'.pc = "wait" /\ job'.cmd = job.cmd /\ job'.b = job.b
      /\ job'.mem = job.mem /\ job'.img = job.img
    BY <1>1, ThenEffect DEF IInv, Point
<1>4. rec'[job.b] = job.mem
    BY <1>1, <1>2
<1>5. JobInv' /\ PublishInv' /\ RetireInv'
    BY <1>1, <1>2, <1>3, <1>4 DEF JobInv, Unsaved, PublishInv, RetireInv, Place, RetirePlaces,
       SavedFor, users
<1>6. LeaseInv'
    BY <1>1, <1>3, LeaseKept DEF LeaseInv, Place
<1>7. Sound(job.mem)'
    BY <1>1, <1>2, <1>3, SoundKept DEF cloud
<1>8. recorded' = recorded \cup {job.b}
    BY <1>1, <1>2
<1> QED  BY <1>1, <1>2, <1>3, <1>5, <1>6, <1>7, <1>8, Records, ImageAssumption

LEMMA SaveIInv ==
    ASSUME IInv, Save PROVE IInv'
<1>1. /\ job.pc = "save" /\ rec' = [rec EXCEPT ![job.b] = job.mem]
      /\ recorded' = recorded \cup {job.b}
      /\ UNCHANGED <<build, cloud, released, users>>
    BY DEF Save, Do
<1>2. /\ job.mem \in Publication /\ Sound(job.mem) /\ job.b \in Build
      /\ proc[Producer].pc = "idle" /\ job.cmd # "none" /\ job.next \in Point \cup {"end"}
      /\ job.mem.clean => job.b \notin objects
      /\ rec[job.b].image = job.mem.image \/ rec[job.b].image = NoImage
      /\ rec[job.b].exported => job.mem.exported
      /\ rec \in [Build -> Publication]
    BY <1>1, MemType, MemSound DEF IInv, JobInv, Unsaved, Saving, TypeOK
<1>3. rec'[job.b] = job.mem /\ job.b \in recorded'
    BY <1>1, <1>2
<1>4. \A i \in Image : rec[job.b].exported /\ rec[job.b].image = i =>
         job.mem.exported /\ job.mem.image = i
    BY <1>2, ImageAssumption
<1>5. CASE job.next = "end"
  <2>1. job' \in Job /\ job'.pc = "idle" /\ job'.cmd = "none" /\ job'.mem = Base
      BY <1>5, EndEffect DEF Save
  <2>2. JobInv' /\ PublishInv' /\ RetireInv' /\ LeaseInv'
      BY <2>1 DEF JobInv, PublishInv, RetireInv, LeaseInv, Place, RetirePlaces, SavedFor, Unsaved
  <2>3. Sound(job.mem)'
      BY <1>1, <2>1, BaseSound, SoundKept DEF cloud
  <2> QED  BY <1>1, <1>2, <1>4, <2>1, <2>2, <2>3, Records
<1>6. CASE job.next # "end"
  <2>1. /\ job' \in Job /\ job'.pc = job.next /\ job'.cmd = job.cmd /\ job'.b = job.b
        /\ job'.mem = job.mem /\ job'.img = job.img /\ job'.force = job.force
        /\ job'.known = job.known /\ job'.next = job.next
      BY <1>2, <1>6, ThenEffect DEF IInv, Save
  <2>2. Place = job.next /\ job.next \in SavedFor \ {"end"}
      BY <1>1, <1>6 DEF Place, IInv, PublishInv
  <2>3. JobInv'
      BY <1>1, <1>2, <1>3, <2>1, <2>2 DEF JobInv, Unsaved, SavedFor, users
  <2>4. PublishInv' /\ RetireInv'
      BY <1>1, <1>3, <2>1, <2>2
         DEF IInv, PublishInv, RetireInv, Place, RetirePlaces, SavedFor, cloud
  <2>5. LeaseInv'
    <3>1. Place' \in {"capture", "delete"} /\ ~job'.force =>
             ~References(job.img)' /\ ~job'.mem.exported
        BY <1>1, <1>2, <1>3, <2>1, <2>2 DEF IInv, LeaseInv, Place, References, SavedFor, users
    <3> QED  BY <1>1, <2>1, <3>1, LeaseKept DEF LeaseInv, Place
  <2>6. Sound(job.mem)'
      BY <1>1, <1>2, <2>1, SoundKept DEF cloud
  <2> QED  BY <1>1, <1>2, <1>4, <2>1, <2>3, <2>4, <2>5, <2>6, Records
<1> QED  BY <1>5, <1>6


LEMMA ReleaseIInv ==
    ASSUME IInv, Release PROVE IInv'
<1>1. /\ job.pc = "release" /\ EndJob
      /\ released' = released \cup {[image |-> job.mem.image, marked |-> TRUE]}
      /\ UNCHANGED <<records, cloud, users>>
    BY DEF Release, Do
<1>2. /\ job.mem.image \in Image /\ job.mem.exported /\ job.b \in recorded
      /\ job.mem = rec[job.b]
    BY <1>1 DEF IInv, PublishInv, Place, JobInv, Unsaved
<1>3. job' \in Job /\ job'.pc = "idle" /\ job'.cmd = "none" /\ job'.mem = Base
    BY <1>1, EndEffect
<1>4. TypeOK'
  <2>1. [image |-> job.mem.image, marked |-> TRUE] \in [image : Image, marked : BOOLEAN]
      BY <1>2
  <2>2. released' \subseteq [image : Image, marked : BOOLEAN]
      BY <1>1, <2>1 DEF IInv, TypeOK
  <2> QED  BY <1>1, <1>3, <2>2 DEF IInv, TypeOK, records, cloud, users
<1>5. EntriesInv'
  <2>1. Sound(job.mem)'
      BY <1>1, <1>3, BaseSound, SoundKept DEF cloud
  <2> QED  BY <1>1, <2>1 DEF IInv, EntriesInv, Sound, records, cloud
<1>6. JobInv' /\ PublishInv' /\ RetireInv' /\ LeaseInv'
    BY <1>3 DEF JobInv, PublishInv, RetireInv, LeaseInv, Place, RetirePlaces, Unsaved
<1>7. CloudInv' /\ ReleasedInv' /\ ObjectsInCustody'
    BY <1>1, <1>2 DEF IInv, CloudInv, ReleasedInv, ObjectsInCustody, records, cloud
<1> QED  BY <1>4, <1>5, <1>6, <1>7 DEF IInv

\* A release without a publication promises nothing to keep
LEMMA ExportNamedIInv ==
    ASSUME IInv, NEW i \in Image, ExportNamed(i) PROVE IInv'
<1>1. /\ released' = released \cup {[image |-> i, marked |-> FALSE]}
      /\ UNCHANGED <<records, job, cloud, users>>
    BY DEF ExportNamed
<1>2. TypeOK'
  <2>1. [image |-> i, marked |-> FALSE] \in [image : Image, marked : BOOLEAN]
      OBVIOUS
  <2>2. released' \subseteq [image : Image, marked : BOOLEAN]
      BY <1>1, <2>1 DEF IInv, TypeOK
  <2> QED  BY <1>1, <2>2 DEF IInv, TypeOK, records, cloud, users
<1>3. ReleasedInv'
    BY <1>1 DEF IInv, ReleasedInv, records, cloud
<1>4. EntriesInv' /\ CloudInv' /\ ObjectsInCustody'
    BY <1>1 DEF IInv, EntriesInv, Sound, CloudInv, ObjectsInCustody, records, cloud
<1>5. JobInv'
    BY <1>1 DEF IInv, JobInv, Unsaved, Saving, records, cloud, users
<1>6. PublishInv' /\ RetireInv'
    BY <1>1 DEF IInv, PublishInv, RetireInv, Place, RetirePlaces, records, cloud
<1>7. LeaseInv'
    BY <1>1 DEF IInv, LeaseInv, Place, SharedLease, References, records, users
<1> QED  BY <1>2, <1>3, <1>4, <1>5, <1>6, <1>7 DEF IInv

LEMMA DeleteImageIInv ==
    ASSUME IInv, DeleteImage PROVE IInv'
<1>1. job.pc = "delete"
    BY DEF DeleteImage, Do
<1>2. CASE EndJob /\ UNCHANGED status
    BY <1>2, JobEnds DEF DeleteImage, cloud
<1>3. CASE /\ status' = [status EXCEPT ![job.mem.image] = "deleted"]
           /\ job' = [job EXCEPT !.pc = "deleted"]
  <2>1. UNCHANGED <<records, tag, ours, answer, snap, objects, released, users>>
      BY DEF DeleteImage
  <2>2. /\ job.mem.image \in Image /\ job.mem.retiring /\ job.b \in recorded
        /\ job.cmd \in {"unpublish", "prune"} /\ job.mem = rec[job.b]
        /\ job.b \in Build /\ proc[Producer].pc = "idle"
      BY <1>1 DEF IInv, RetireInv, Place, RetirePlaces, JobInv, Unsaved
  <2>3. /\ job' \in Job /\ job'.pc = "deleted" /\ job'.cmd = job.cmd /\ job'.b = job.b
        /\ job'.mem = job.mem /\ job'.img = job.img /\ job'.force = job.force
      BY <1>3, ThenEffect DEF IInv, Then, Point
  <2>4. /\ status' \in [Image -> {"unused", "creating", "available", "failed", "deleted"}]
        /\ status'[job.mem.image] = "deleted"
        /\ \A i \in Image : status'[i] \in {status[i], "deleted"}
      BY <1>3, <2>2 DEF IInv, TypeOK
  <2>5. TypeOK'
      BY <2>1, <2>3, <2>4 DEF IInv, TypeOK, records, users
  <2>6. EntriesInv'
    <3>1. ASSUME NEW b \in Build PROVE Sound(rec[b])'
      <4>1. Sound(rec[b]) /\ rec[b] \in Publication
          BY DEF IInv, EntriesInv, TypeOK
      <4> QED  BY <2>1, <2>4, <4>1 DEF Sound, Publication, records
    <3> QED  BY <2>1, <2>2, <2>3, <3>1 DEF EntriesInv, records
  <2>7. JobInv' /\ PublishInv' /\ RetireInv'
      BY <2>1, <2>2, <2>3, <2>4
         DEF JobInv, PublishInv, RetireInv, Place, RetirePlaces, SavedFor, Unsaved, records, users
  <2>8. LeaseInv'
      BY <1>1, <2>1, <2>3, LeaseKept DEF LeaseInv, Place
  <2>9. CloudInv' /\ ReleasedInv' /\ ObjectsInCustody'
      BY <2>1, <2>4 DEF IInv, TypeOK, CloudInv, ReleasedInv, ObjectsInCustody, records
  <2> QED  BY <2>5, <2>6, <2>7, <2>8, <2>9 DEF IInv
<1> QED  BY <1>2, <1>3 DEF DeleteImage

LEMMA RecordDeletionIInv ==
    ASSUME IInv, RecordDeletion PROVE IInv'
<1> DEFINE mem == [job.mem EXCEPT !.image = NoImage]
<1>1. /\ job.pc = "deleted" /\ rec' = [rec EXCEPT ![job.b] = mem]
      /\ job' = [job EXCEPT !.mem.image = NoImage, !.pc = "snapshots"]
      /\ UNCHANGED <<build, recorded, cloud, released, users>>
    BY DEF RecordDeletion, Do
<1>2. /\ job.mem \in Publication /\ Sound(job.mem) /\ job.mem.image \in Image /\ job.mem.retiring
      /\ status[job.mem.image] = "deleted" /\ job.b \in recorded /\ job \in Job
      /\ job.cmd \in {"unpublish", "prune"} /\ job.mem = rec[job.b] /\ job.b \in Build
      /\ proc[Producer].pc = "idle" /\ rec \in [Build -> Publication]
    BY <1>1, MemType, MemSound
       DEF IInv, RetireInv, Place, RetirePlaces, JobInv, Unsaved, TypeOK
<1>3. /\ mem \in Publication /\ mem.image = NoImage /\ mem.snaps = job.mem.snaps
      /\ mem.exported = job.mem.exported /\ mem.clean = job.mem.clean
      /\ mem.status = job.mem.status /\ mem.owned = job.mem.owned /\ mem.retiring
    BY <1>2 DEF Publication
<1>4. Sound(mem)
    BY <1>2, <1>3, ImageAssumption DEF Sound
<1>5. job' = [job EXCEPT !.mem = mem, !.pc = "snapshots"]
    BY <1>1, <1>2 DEF Job
<1> HIDE DEF mem
<1>6. /\ job' \in Job /\ job'.pc = "snapshots" /\ job'.cmd = job.cmd /\ job'.b = job.b
      /\ job'.mem = mem /\ job'.img = job.img
    BY <1>2, <1>3, <1>5 DEF Job, Point
<1>7. rec'[job.b] = mem /\ recorded' = recorded \cup {job.b}
    BY <1>1, <1>2
<1>8. JobInv' /\ PublishInv' /\ RetireInv'
    BY <1>1, <1>2, <1>3, <1>6, <1>7
       DEF JobInv, Unsaved, PublishInv, RetireInv, Place, RetirePlaces, SavedFor, users
<1>9. LeaseInv'
    BY <1>1, <1>6, LeaseKept DEF LeaseInv, Place
<1>10. Sound(job.mem)'
    BY <1>1, <1>4, <1>6, SoundKept DEF cloud
<1>11. job.mem.clean => job.b \notin objects
    BY <1>2 DEF IInv, ObjectsInCustody
<1>12. \A i \in Image : rec[job.b].exported /\ rec[job.b].image = i => status[i] = "deleted"
    BY <1>2
<1> QED  BY <1>1, <1>2, <1>3, <1>4, <1>6, <1>7, <1>8, <1>9, <1>10, <1>11, <1>12, Records

LEMMA RemovePublicationIInv ==
    ASSUME IInv, RemovePublication PROVE IInv'
<1>1. /\ job.pc = "remove" /\ recorded' = recorded \ {job.b}
      /\ rec' = [rec EXCEPT ![job.b] = Base] /\ EndJob
      /\ UNCHANGED <<build, cloud, released, users>>
    BY DEF RemovePublication, Do
<1>2. /\ job.mem.image = NoImage /\ job.mem = rec[job.b] /\ job.b \in Build
      /\ job.b \notin objects /\ rec \in [Build -> Publication]
    BY <1>1 DEF IInv, RetireInv, Place, JobInv, Unsaved, TypeOK
<1>3. job' \in Job /\ job'.pc = "idle" /\ job'.cmd = "none" /\ job'.mem = Base
    BY <1>1, EndEffect
<1>4. TypeOK'
    BY <1>1, <1>2, <1>3, BaseType DEF IInv, TypeOK, cloud, users
<1>5. EntriesInv'
  <2>1. Sound(Base)'
      BY <1>1, BaseSound, SoundKept DEF cloud
  <2>2. \A b \in Build : rec'[b] = IF b = job.b THEN Base ELSE rec[b]
      BY <1>1, <1>2
  <2>3. ASSUME NEW b \in Build PROVE Sound(rec[b])'
      BY <1>1, <2>1, <2>2 DEF IInv, EntriesInv, Sound, cloud
  <2> QED  BY <1>3, <2>1, <2>3 DEF EntriesInv
<1>6. JobInv' /\ PublishInv' /\ RetireInv' /\ LeaseInv'
    BY <1>3 DEF JobInv, PublishInv, RetireInv, LeaseInv, Place, RetirePlaces, Unsaved
<1>7. CloudInv'
    BY <1>1 DEF IInv, CloudInv, cloud
<1>8. ObjectsInCustody'
    BY <1>1, <1>2 DEF IInv, ObjectsInCustody, cloud
<1>9. ReleasedInv'
  <2> SUFFICES ASSUME NEW i \in Image, [image |-> i, marked |-> TRUE] \in released,
                      status[i] # "deleted"
               PROVE  \E b \in recorded' : rec'[b].exported /\ rec'[b].image = i
      BY <1>1 DEF ReleasedInv, cloud
  <2>1. PICK b \in recorded : rec[b].exported /\ rec[b].image = i
      BY DEF IInv, ReleasedInv
  <2>2. i \in Image /\ b \in Build
      BY DEF IInv, TypeOK
  <2> QED  BY <1>1, <1>2, <2>1, <2>2, ImageAssumption
<1> QED  BY <1>4, <1>5, <1>6, <1>7, <1>8, <1>9 DEF IInv

-----------------------------------------------------------------------------
(* Consumers, a new build, and death *)

\* Steps of the consumers leave the producer's command alone
LEMMA UsersStep ==
    ASSUME IInv, UNCHANGED <<recorded, rec, job, cloud, released>>, build' \in Build,
           phase' \in [Consumer -> {"none", "deploying", "deployed", "deleted"}],
           image' \in [Consumer -> Image \cup {NoImage}],
           proc' \in [Consumer -> [pc : {"idle", "lease", "prepare", "record", "launch"},
                                   img : Image \cup {NoImage}]],
           job.pc # "idle" => proc'[Producer].pc = "idle",
           job.cmd \in {"unpublish", "prune"} /\ job.pc # "lease" =>
              /\ SharedLease(job.img)' = {}
              /\ job.img \in Image /\ References(job.img)' => References(job.img)
    PROVE  IInv'
<1>1. TypeOK'
    BY DEF IInv, TypeOK, cloud
<1>2. JobInv'
    BY DEF IInv, JobInv, Unsaved, Saving, cloud
<1>3. PublishInv' /\ RetireInv'
    BY DEF IInv, PublishInv, RetireInv, Place, RetirePlaces, SavedFor, cloud
<1>4. LeaseInv'
  <2>1. Place \in {"capture", "delete"} =>
          job.cmd \in {"unpublish", "prune"} /\ job.pc \notin {"lease", "idle"}
          /\ job.img \in Image
      BY DEF IInv, RetireInv, Place, RetirePlaces
  <2>2. UNCHANGED <<job, Place>>
      BY DEF Place
  <2> QED  BY <2>1, <2>2 DEF IInv, LeaseInv
<1>5. EntriesInv' /\ CloudInv' /\ ReleasedInv' /\ ObjectsInCustody'
    BY DEF IInv, EntriesInv, Sound, CloudInv, ReleasedInv, ObjectsInCustody, cloud
<1> QED  BY <1>1, <1>2, <1>3, <1>4, <1>5 DEF IInv


LEMMA UsersType ==
    ASSUME IInv
    PROVE  /\ phase \in [Consumer -> {"none", "deploying", "deployed", "deleted"}]
           /\ image \in [Consumer -> Image \cup {NoImage}]
           /\ proc \in [Consumer -> [pc : {"idle", "lease", "prepare", "record", "launch"},
                                     img : Image \cup {NoImage}]]
           /\ Producer \in Consumer /\ Importer \subseteq Consumer /\ Producer \notin Importer
BY ImageAssumption DEF IInv, TypeOK, Consumer

LEMMA NewBuildIInv ==
    ASSUME IInv, NEW b \in Build, NewBuild(b) PROVE IInv'
<1>1. /\ job.cmd = "none" /\ build' = b /\ image' = [image EXCEPT ![Producer] = NoImage]
      /\ UNCHANGED <<recorded, rec, job, cloud, released, phase, proc>>
    BY DEF NewBuild, Unlocked
<1>2. job.pc = "idle"
    BY <1>1 DEF IInv, JobInv
<1> QED  BY <1>1, <1>2, UsersStep, UsersType

\* A consumer moves on with the command it runs
LEMMA ConsumesIInv ==
    ASSUME IInv, UNCHANGED <<records, job, cloud, released>>,
           NEW c \in Consumer, NEW pc \in {"idle", "lease", "prepare", "record", "launch"},
           NEW img \in Image \cup {NoImage}, Consume(c, pc, img),
           phase' \in [Consumer -> {"none", "deploying", "deployed", "deleted"}],
           c = Producer => phase' = phase \/ job.pc = "idle",
           image' = image \/ (image' = [image EXCEPT ![c] = img]
                              /\ (c = Producer => job.pc = "idle")),
           \A d \in Consumer \ {c} : phase'[d] = phase[d],
           c = Producer /\ pc # "idle" => job.cmd = "none",
           pc = "lease" \/ pc = "idle" \/ ~ExclusiveLease(img), pc = "idle" => image' = image,
           pc = "lease" => image' = image
    PROVE  IInv'
<1>1. /\ proc' \in [Consumer -> [pc : {"idle", "lease", "prepare", "record", "launch"},
                                 img : Image \cup {NoImage}]]
      /\ proc'[c] = [pc |-> pc, img |-> img] /\ \A d \in Consumer \ {c} : proc'[d] = proc[d]
    BY UsersType DEF Consume
<1>2. image' \in [Consumer -> Image \cup {NoImage}]
    BY UsersType
<1>3. job.pc # "idle" => proc'[Producer].pc = "idle"
    BY <1>1, UsersType DEF IInv, JobInv
<1>4. ASSUME job.cmd \in {"unpublish", "prune"}, job.pc # "lease"
      PROVE  /\ SharedLease(job.img)' = {}
             /\ job.img \in Image /\ References(job.img)' => References(job.img)
  <2>1. pc \in {"idle", "lease"} \/ img # job.img
      BY <1>4 DEF ExclusiveLease
  <2>2. SharedLease(job.img) = {}
      BY <1>4 DEF IInv, LeaseInv
  <2>3. ASSUME NEW d \in Consumer, proc'[d].img = job.img, proc'[d].pc \notin {"idle", "lease"}
        PROVE  FALSE
    <3>1. CASE d = c
        BY <1>1, <2>1, <2>3, <3>1
    <3>2. CASE d # c
        BY <1>1, <2>2, <2>3, <3>2 DEF SharedLease
    <3> QED  BY <3>1, <3>2
  <2>4. SharedLease(job.img)' = {}
      BY <2>3 DEF SharedLease
  <2>5. ASSUME job.img \in Image, References(job.img)' PROVE References(job.img)
    <3>1. CASE \E d \in Importer : image'[d] = job.img
      <4>1. PICK d \in Importer : image'[d] = job.img
          BY <3>1
      <4>2. image[d] = job.img
          BY <2>1, <4>1, UsersType
      <4> QED  BY <4>2 DEF References
    <3>2. CASE phase'[Producer] \in Recorded /\ image'[Producer] = job.img
      <4>1. job.pc # "idle"
          BY <1>4 DEF IInv, JobInv
      <4>2. phase'[Producer] = phase[Producer] /\ image'[Producer] = image[Producer]
          BY <4>1, UsersType
      <4> QED  BY <3>2, <4>2 DEF References
    <3>3. CASE \E b \in recorded : rec[b].exported /\ rec[b].image = job.img
        BY <3>3 DEF References
    <3> QED  BY <2>5, <3>1, <3>2, <3>3 DEF References, records
  <2> QED  BY <2>4, <2>5
<1>5. build' \in Build
    BY DEF IInv, TypeOK, records
<1> QED  BY <1>1, <1>2, <1>3, <1>4, <1>5, UsersStep DEF records

LEMMA ConsumerIInv ==
    ASSUME IInv, NEW c \in Consumer, ConsumerStep(c) PROVE IInv'
<1>1. /\ proc[c].img \in Image \cup {NoImage} /\ NoImage \in Image \cup {NoImage}
      /\ c = Producer /\ proc[c].pc # "idle" => job.cmd = "none" /\ job.pc = "idle"
    BY UsersType DEF IInv, JobInv
<1>2. proc[c].pc \notin {"idle", "lease"} => ~ExclusiveLease(proc[c].img)
    BY DEF IInv, LeaseInv, SharedLease, ExclusiveLease
<1>3. CASE TakeShared(c)
  <2> DEFINE pc == IF c = Producer THEN "record" ELSE "prepare"
  <2>1. /\ proc[c].pc = "lease" /\ ~ExclusiveLease(proc[c].img) /\ Consume(c, pc, proc[c].img)
        /\ UNCHANGED <<records, job, cloud, released, phase, image>>
      BY <1>3 DEF TakeShared
  <2>2. pc \in {"record", "prepare"}
      OBVIOUS
  <2> HIDE DEF pc
  <2> QED  BY <1>1, <2>1, <2>2, UsersType, ConsumesIInv
<1>4. CASE Prepare(c)
  <2>1. /\ proc[c].pc = "prepare" /\ Consume(c, "record", proc[c].img)
        /\ image' = [image EXCEPT ![c] = proc[c].img]
        /\ UNCHANGED <<records, job, cloud, released, phase>>
      BY <1>4 DEF Prepare
  <2> QED  BY <1>1, <1>2, <2>1, UsersType, ConsumesIInv
<1>5. CASE RecordAttempt(c)
  <2>1. /\ proc[c].pc = "record" /\ Consume(c, "launch", proc[c].img)
        /\ image' = [image EXCEPT ![c] = proc[c].img]
        /\ phase' = [phase EXCEPT ![c] = "deploying"]
        /\ UNCHANGED <<records, job, cloud, released>>
      BY <1>5 DEF RecordAttempt
  <2>2. /\ phase' \in [Consumer -> {"none", "deploying", "deployed", "deleted"}]
        /\ \A d \in Consumer \ {c} : phase'[d] = phase[d]
      BY <2>1, UsersType
  <2> QED  BY <1>1, <1>2, <2>1, <2>2, ConsumesIInv
<1>6. CASE Launch(c)
  <2>1. /\ proc[c].pc = "launch" /\ Consume(c, "idle", NoImage)
        /\ phase' = phase \/ phase' = [phase EXCEPT ![c] = "deployed"]
        /\ UNCHANGED <<records, job, cloud, released, image>>
      BY <1>6 DEF Launch
  <2>2. /\ phase' \in [Consumer -> {"none", "deploying", "deployed", "deleted"}]
        /\ \A d \in Consumer \ {c} : phase'[d] = phase[d]
      BY <2>1, UsersType
  <2> QED  BY <1>1, <2>1, <2>2, ConsumesIInv
<1> QED  BY <1>3, <1>4, <1>5, <1>6 DEF ConsumerStep

LEMMA OrdersIInv ==
    ASSUME IInv, DeployOwn \/ \E c \in Importer : ImportRelease(c)
    PROVE  IInv'
<1>1. CASE DeployOwn
  <2>1. /\ job.cmd = "none" /\ job.pc = "idle" /\ Consume(Producer, "lease", rec[build].image)
        /\ UNCHANGED <<records, job, cloud, released, phase, image>>
      BY <1>1 DEF DeployOwn, Unlocked, IInv, JobInv
  <2>2. rec[build].image \in Image \cup {NoImage}
      BY DEF IInv, TypeOK, Publication
  <2> QED  BY <2>1, <2>2, UsersType, ConsumesIInv
<1>2. CASE \E c \in Importer : ImportRelease(c)
  <2>1. PICK c \in Importer, r \in released : Consume(c, "lease", r.image)
          /\ UNCHANGED <<records, job, cloud, released, phase, image>>
      BY <1>2 DEF ImportRelease
  <2>2. r.image \in Image /\ c \in Consumer /\ c # Producer
      BY UsersType DEF IInv, TypeOK
  <2> QED  BY <2>1, <2>2, UsersType, ConsumesIInv
<1> QED  BY <1>1, <1>2

LEMMA DropsIInv ==
    ASSUME IInv,
           \/ \E c \in Consumer : Destroy(c)
           \/ \E c \in Importer : Forget(c)
    PROVE  IInv'
<1>1. PICK c \in Consumer, ph \in {"none", "deleted"} :
        /\ phase' = [phase EXCEPT ![c] = ph]
        /\ image' = image \/ (image' = [image EXCEPT ![c] = NoImage] /\ c # Producer)
        /\ UNCHANGED <<records, job, cloud, released, proc>>
  <2>1. ASSUME NEW c \in Consumer, Destroy(c)
        PROVE  phase' = [phase EXCEPT ![c] = "deleted"] /\ image' = image
               /\ UNCHANGED <<records, job, cloud, released, proc>>
      BY <2>1 DEF Destroy
  <2>2. ASSUME NEW c \in Importer, Forget(c)
        PROVE  phase' = [phase EXCEPT ![c] = "none"] /\ image' = [image EXCEPT ![c] = NoImage]
               /\ c # Producer /\ c \in Consumer
               /\ UNCHANGED <<records, job, cloud, released, proc>>
      BY <2>2, UsersType DEF Forget
  <2> QED  BY <2>1, <2>2
<1>2. /\ phase' \in [Consumer -> {"none", "deploying", "deployed", "deleted"}]
      /\ image' \in [Consumer -> Image \cup {NoImage}]
    BY <1>1, UsersType
<1>3. ASSUME job.img \in Image, References(job.img)' PROVE References(job.img)
  <2>1. ASSUME NEW d \in Importer, image'[d] = job.img PROVE image[d] = job.img
      BY <1>1, <1>3, <2>1, UsersType, ImageAssumption
  <2>2. phase'[Producer] \in Recorded /\ image'[Producer] = job.img =>
           phase[Producer] \in Recorded /\ image[Producer] = job.img
      BY <1>1, UsersType DEF Recorded
  <2> QED  BY <1>1, <1>3, <2>1, <2>2 DEF References, records
<1>4. job.cmd \in {"unpublish", "prune"} /\ job.pc # "lease" => SharedLease(job.img)' = {}
    BY <1>1 DEF IInv, LeaseInv, SharedLease
<1>5. build' \in Build /\ (job.pc # "idle" => proc'[Producer].pc = "idle")
    BY <1>1 DEF IInv, TypeOK, JobInv, records
<1> QED  BY <1>1, <1>2, <1>3, <1>4, <1>5, UsersType, UsersStep DEF records

LEMMA CrashIInv ==
    ASSUME IInv, Crash PROVE IInv'
<1>1. CASE EndJob /\ UNCHANGED users
    BY <1>1, JobEnds DEF Crash
<1>2. CASE /\ \E c \in Consumer : proc[c].pc # "idle" /\ Consume(c, "idle", NoImage)
           /\ UNCHANGED <<job, phase, image>>
  <2>1. PICK c \in Consumer : Consume(c, "idle", NoImage)
      BY <1>2
  <2>2. UNCHANGED <<records, cloud, released>>
      BY DEF Crash
  <2> QED  BY <1>2, <2>1, <2>2, UsersType, ConsumesIInv
<1> QED  BY <1>1, <1>2 DEF Crash

-----------------------------------------------------------------------------
(* The cloud and another workspace *)

\* An image that was not available becomes so, or fails
LEMMA CloudIInv ==
    ASSUME IInv, NEW i \in Image, status[i] \in {"unused", "creating"},
           UNCHANGED <<records, job, ours, answer, objects, released, users>>,
           tag' \in [Image -> Build \cup {NoBuild}],
           \/ status' = [status EXCEPT ![i] = "available"] /\ snap' = snap \cup {i}
           \/ status' = [status EXCEPT ![i] = "failed"] /\ UNCHANGED snap
    PROVE  IInv'
<1>1. /\ status' \in [Image -> {"unused", "creating", "available", "failed", "deleted"}]
      /\ status'[i] \in {"available", "failed"}
      /\ \A j \in Image : j # i => status'[j] = status[j]
      /\ snap' \subseteq Image /\ snap \subseteq snap' /\ \A s \in snap' : s # i => s \in snap
      /\ i \in snap' => status'[i] = "available" \/ i \in snap
    BY DEF IInv, TypeOK
<1>2. TypeOK'
    BY <1>1 DEF IInv, TypeOK, records, users
<1>3. ASSUME NEW entry \in Publication, Sound(entry) PROVE Sound(entry)' /\ i \notin entry.snaps
    BY <1>1, <1>3 DEF Sound, Publication
<1>4. EntriesInv'
  <2>1. Sound(job.mem)'
      BY <1>3, MemType DEF IInv, EntriesInv
  <2>2. ASSUME NEW b \in Build PROVE Sound(rec[b])'
      BY <1>3 DEF IInv, EntriesInv, TypeOK, records
  <2> QED  BY <2>1, <2>2 DEF EntriesInv
<1>5. JobInv'
  <2>1. ASSUME Saving, job.b \in Build PROVE Saving'
    <3>1. i \notin rec[job.b].snaps
        BY <1>3, <2>1 DEF IInv, EntriesInv, TypeOK
    <3> QED  BY <1>1, <2>1, <3>1 DEF Saving, records
  <2> QED  BY <2>1 DEF IInv, JobInv, Unsaved, records, users
<1>6. PublishInv'
    BY DEF IInv, PublishInv, Place, SavedFor, records
<1>7. RetireInv'
  <2>1. Place = "deleted" => status'[job.mem.image] = "deleted"
      BY <1>1 DEF IInv, RetireInv
  <2> QED  BY <2>1 DEF IInv, RetireInv, Place, RetirePlaces, records
<1>8. LeaseInv'
    BY DEF IInv, LeaseInv, Place, SharedLease, References, records, users
<1>9. CloudInv'
    BY <1>1 DEF IInv, TypeOK, CloudInv
<1>10. ReleasedInv' /\ ObjectsInCustody'
    BY <1>1 DEF IInv, TypeOK, ReleasedInv, ObjectsInCustody, records
<1> QED  BY <1>2, <1>4, <1>5, <1>6, <1>7, <1>8, <1>9, <1>10 DEF IInv

LEMMA ImportEndsIInv ==
    ASSUME IInv, NEW i \in Image, ImportEnds(i) PROVE IInv'
BY CloudIInv DEF ImportEnds, IInv, TypeOK

LEMMA ForeignPublishIInv ==
    ASSUME IInv, NEW i \in Image, NEW b \in Build, ForeignPublish(i, b) PROVE IInv'
<1>1. tag' \in [Image -> Build \cup {NoBuild}]
    BY DEF ForeignPublish, IInv, TypeOK
<1> QED  BY <1>1, CloudIInv DEF ForeignPublish

LEMMA NextIInv == IInv /\ [Next]_vars => IInv'
<1> SUFFICES ASSUME IInv, [Next]_vars PROVE IInv'
    OBVIOUS
<1>1. CASE Command
    BY <1>1, StartsIInv, ExportNamedIInv, OrdersIInv, NewBuildIInv, DropsIInv DEF Command
<1>2. CASE Step
    BY <1>2, SaveIInv, DescribeRecordedIInv, AdoptIInv, BeginUploadIInv, UploadIInv,
       ImportImageIInv, ImportRefusedIInv, RecordImportIInv, AwaitIInv, CollectIInv,
       MarkExportedIInv, ReleaseIInv, CollectUploadIInv, TakeExclusiveIInv,
       CheckReferencesIInv, CaptureIInv, DeleteImageIInv, RecordDeletionIInv,
       DeleteSnapshotIInv, RetireUploadIInv, RemovePublicationIInv DEF Step
<1>3. CASE Crash
    BY <1>3, CrashIInv
<1>4. CASE \E c \in Consumer : ConsumerStep(c)
    BY <1>4, ConsumerIInv
<1>5. CASE \E i \in Image : ImportEnds(i) \/ \E b \in Build : ForeignPublish(i, b)
    BY <1>5, ImportEndsIInv, ForeignPublishIInv
<1>6. CASE UNCHANGED vars
  <2>1. /\ UNCHANGED <<records, cloud, released, users>> /\ job' = job
        /\ recorded' = recorded /\ rec' = rec /\ build' \in Build
      BY <1>6 DEF vars, records, IInv, TypeOK
  <2>2. /\ phase' = phase /\ image' = image /\ proc' = proc
        /\ SharedLease(job.img)' = SharedLease(job.img)
        /\ References(job.img)' = References(job.img)
      BY <2>1 DEF users, SharedLease, References
  <2> QED  BY <2>1, <2>2, UsersStep, UsersType DEF IInv, JobInv, LeaseInv
<1> QED  BY <1>1, <1>2, <1>3, <1>4, <1>5, <1>6 DEF Next


-----------------------------------------------------------------------------
(* What a command has in memory has its type and is recorded, at every point. *)
THEOREM TypeCorrect == Spec => []TypeOK
<1>1. IInv => TypeOK
    BY DEF IInv
<1> QED  BY <1>1, InitIInv, NextIInv, PTL DEF Spec

LEMMA OnlyDeleteImage ==
    ASSUME IInv, [Next]_vars, NEW i \in Image, Deletes(i)
    PROVE  job.pc = "delete" /\ job.mem.image = i
<1>1. status' # status
    BY DEF Deletes
<1>2. CASE Command
    BY <1>1, <1>2 DEF Command, PublishStart, ExportStart, DeployOwn, NewBuild, PruneUpload,
       UnpublishStart, PruneStart, ExportNamed, ImportRelease, Forget, Destroy, StartJob, cloud
<1>3. CASE Step
  <2>1. ~(Save \/ DescribeRecorded \/ Adopt \/ BeginUpload \/ Upload \/ ImportRefused)
      BY <1>1 DEF Save, DescribeRecorded, Adopt, BeginUpload, Upload, ImportRefused, cloud
  <2>2. ~(RecordImport \/ Await \/ Collect \/ MarkExported \/ Release \/ CollectUpload)
      BY <1>1 DEF RecordImport, Await, Collect, MarkExported, Release, CollectUpload, cloud
  <2>3. ~(TakeExclusive \/ CheckReferences \/ Capture \/ RecordDeletion)
      BY <1>1 DEF TakeExclusive, CheckReferences, Capture, RecordDeletion, cloud
  <2>4. ~(DeleteSnapshot \/ RetireUpload \/ RemovePublication)
      BY <1>1 DEF DeleteSnapshot, RetireUpload, RemovePublication, cloud
  <2>5. ASSUME ImportImage PROVE FALSE
      BY <2>5 DEF ImportImage, Deletes, IInv, TypeOK
  <2>6. CASE DeleteImage
    <3>1. /\ job.pc = "delete" /\ status \in [Image -> {"unused", "creating", "available",
                                                        "failed", "deleted"}]
          /\ status' = [status EXCEPT ![job.mem.image] = "deleted"]
        BY <1>1, <2>6 DEF DeleteImage, Do, IInv, TypeOK
    <3> QED  BY <3>1 DEF Deletes
  <2> QED  BY <1>3, <2>1, <2>2, <2>3, <2>4, <2>5, <2>6 DEF Step
<1>4. CASE Crash
    BY <1>1, <1>4 DEF Crash, cloud
<1>5. ASSUME NEW c \in Consumer, ConsumerStep(c) PROVE FALSE
    BY <1>1, <1>5 DEF ConsumerStep, TakeShared, Prepare, RecordAttempt, Launch, cloud
<1>6. ASSUME NEW j \in Image, ImportEnds(j) \/ \E b \in Build : ForeignPublish(j, b)
      PROVE  FALSE
  <2>1. status' = [status EXCEPT ![j] = "available"] \/ status' = [status EXCEPT ![j] = "failed"]
      BY <1>6 DEF ImportEnds, ForeignPublish
  <2> QED  BY <2>1 DEF Deletes, IInv, TypeOK
<1>7. ~UNCHANGED vars
    BY <1>1 DEF vars, cloud
<1> QED  BY <1>2, <1>3, <1>4, <1>5, <1>6, <1>7 DEF Next

(* Without --force no command deletes an image that a consumer refers to, whose *)
(* lease a deployment holds, or that a release handed out whose export found    *)
(* the publication of the image: marking it before the release, taking the      *)
(* lease before the check, and keeping both until the image is gone leave no    *)
(* interleaving in which it is shared.  It says nothing of a release that names *)
(* an image without publication.                                                *)
THEOREM RetentionKept == Spec => RetainedKept
<1> DEFINE Kept == \A i \in Image : Deletes(i) /\ ~job.force =>
                      /\ ~References(i) /\ SharedLease(i) = {}
                      /\ [image |-> i, marked |-> TRUE] \notin released
<1>1. IInv /\ [Next]_vars => Kept
  <2> SUFFICES ASSUME IInv, [Next]_vars, NEW i \in Image, Deletes(i), ~job.force
               PROVE  /\ ~References(i) /\ SharedLease(i) = {}
                      /\ [image |-> i, marked |-> TRUE] \notin released
      OBVIOUS
  <2>1. job.pc = "delete" /\ job.mem.image = i
      BY OnlyDeleteImage
  <2>2. job.img = i /\ job.cmd \in {"unpublish", "prune"}
      BY <2>1 DEF IInv, RetireInv, Place, RetirePlaces
  <2>3. ~References(i) /\ SharedLease(i) = {}
      BY <2>1, <2>2 DEF IInv, LeaseInv, Place
  <2>4. [image |-> i, marked |-> TRUE] \notin released
      BY <2>3 DEF IInv, ReleasedInv, References, Deletes
  <2> QED  BY <2>3, <2>4
<1>2. IInv /\ [Next]_vars => [Kept]_vars
    BY <1>1
<1> HIDE DEF Kept
<1>3. Spec => [][Kept]_vars
    BY <1>2, InitIInv, NextIInv, PTL DEF Spec
<1> QED  BY <1>3 DEF RetainedKept, Kept


-----------------------------------------------------------------------------
(* Custody of what a dead command leaves in the cloud *)

CustodyInv == CapturedInv /\ TagInv /\ SnapInv /\ OwnedInv

LEMMA InitCustody == Init => CustodyInv
BY DEF Init, NoJob, Base, CustodyInv, CapturedInv, TagInv, SnapInv, OwnedInv, Owns, Place

\* What a command saves, whatever it puts in the entry
LEMMA SaveAsMem ==
    ASSUME job \in Job, NEW mem, NEW next, SaveAs(mem, next)
    PROVE  /\ job'.pc = "save" /\ job'.mem = mem /\ job'.next = next
           /\ job'.b = job.b /\ job'.cmd = job.cmd
BY DEF SaveAs, Job

LEMMA JobStep ==
    ASSUME IInv, CustodyInv, UNCHANGED <<recorded, rec, status, tag, ours>>, snap' \subseteq snap,
           job.pc # "answered", CapturedInv', Owns(job.mem)'
    PROVE  CustodyInv'
<1>1. TagInv'
    BY DEF CustodyInv, TagInv, Present
<1>2. SnapInv'
    BY DEF CustodyInv, SnapInv
<1>3. OwnedInv'
    BY DEF CustodyInv, OwnedInv, Owns
<1> QED  BY <1>1, <1>2, <1>3 DEF CustodyInv

\* Most steps keep the image of the entry in memory, and do not go on to delete it
LEMMA QuietStep ==
    ASSUME IInv, CustodyInv, UNCHANGED <<recorded, rec, status, tag, ours>>, snap' \subseteq snap,
           job.pc # "answered", job'.pc # "delete", job'.pc = "save" => job'.next # "delete",
           \/ job'.mem.image = job.mem.image /\ job'.mem.owned = job.mem.owned
           \/ job'.mem = Base
           \/ \E b \in Build : job'.mem = rec[b]
    PROVE  CustodyInv'
<1>1. CapturedInv'
    BY DEF CapturedInv, Place
<1>2. Owns(job.mem)'
  <2>1. Owns(Base)
      BY DEF Owns, Base
  <2> QED  BY <2>1 DEF CustodyInv, OwnedInv, Owns
<1> QED  BY <1>1, <1>2, JobStep

LEMMA EndsCustody ==
    ASSUME IInv, CustodyInv, EndJob, UNCHANGED <<records, cloud>>, job.pc # "answered"
    PROVE  CustodyInv'
BY EndEffect, QuietStep DEF records, cloud

LEMMA StartsCustody ==
    ASSUME IInv, CustodyInv,
           \/ PublishStart \/ ExportStart
           \/ \E b \in Build :
                \/ PruneUpload(b)
                \/ \E flag \in BOOLEAN : UnpublishStart(b, flag) \/ PruneStart(b, flag)
    PROVE  CustodyInv'
<1>1. PICK cmd \in {"publish", "export", "unpublish", "prune", "gc"}, b \in Build,
           pc \in {"describe", "mark", "lease", "gc"}, force \in BOOLEAN :
        StartJob(cmd, b, pc, force)
  <2>1. build \in Build
      BY DEF IInv, TypeOK
  <2> QED  BY <2>1 DEF PublishStart, ExportStart, PruneUpload, UnpublishStart, PruneStart
<1>2. job'.pc = pc /\ job'.mem = rec[b]
    BY <1>1, StartEffect DEF IInv, Point
<1>3. UNCHANGED <<records, cloud>> /\ job.pc = "idle"
    BY <1>1 DEF StartJob, Unlocked, IInv, JobInv
<1> QED  BY <1>2, <1>3, QuietStep DEF records, cloud

LEMMA UsersCustody ==
    ASSUME CustodyInv, UNCHANGED <<recorded, rec, cloud, job>>
    PROVE  CustodyInv'
<1> USE DEF CustodyInv, cloud
<1>1. CapturedInv'
    BY DEF CapturedInv, Place
<1>2. TagInv'
    BY DEF TagInv, Present
<1>3. SnapInv' /\ OwnedInv'
    BY DEF SnapInv, OwnedInv, Owns
<1> QED  BY <1>1, <1>2, <1>3

LEMMA QuietCustody ==
    ASSUME IInv, CustodyInv,
           \/ DescribeRecorded \/ BeginUpload \/ Upload \/ ImportRefused \/ Await \/ Collect
           \/ MarkExported \/ Release \/ CollectUpload \/ TakeExclusive \/ CheckReferences
           \/ DeleteSnapshot \/ RetireUpload
    PROVE  CustodyInv'
<1>1. /\ UNCHANGED <<recorded, rec, status, tag, ours>> /\ snap' \subseteq snap
      /\ job.pc \notin {"answered", "idle"} /\ job \in Job /\ job.mem \in Publication
  <2>1. job \in Job /\ job.mem \in Publication
      BY MemType DEF IInv, TypeOK
  <2>2. ASSUME DescribeRecorded \/ BeginUpload \/ Upload \/ ImportRefused \/ Await \/ Collect
        PROVE  /\ UNCHANGED <<recorded, rec, status, tag, ours>> /\ snap' \subseteq snap
               /\ job.pc \notin {"answered", "idle"}
      BY <2>2 DEF DescribeRecorded, BeginUpload, Upload, ImportRefused, Await, Collect, Do,
         records, cloud
  <2>3. ASSUME MarkExported \/ Release \/ CollectUpload \/ TakeExclusive \/ CheckReferences
               \/ DeleteSnapshot \/ RetireUpload
        PROVE  /\ UNCHANGED <<recorded, rec, status, tag, ours>> /\ snap' \subseteq snap
               /\ job.pc \notin {"answered", "idle"}
      BY <2>3 DEF MarkExported, Release, CollectUpload, TakeExclusive, CheckReferences,
         DeleteSnapshot, RetireUpload, Do, records, cloud
  <2> QED  BY <2>1, <2>2, <2>3
<1>2. CASE EndJob
    BY <1>1, <1>2, EndEffect, QuietStep
<1>3. ASSUME NEW pc \in {"collect", "import", "check", "remove"}, Then(pc) PROVE CustodyInv'
  <2>1. job'.pc = pc /\ job'.mem = job.mem
      BY <1>1, <1>3 DEF Then, Job
  <2> QED  BY <1>1, <2>1, QuietStep
<1>4. ASSUME NEW mem, NEW next, SaveAs(mem, next), next # "delete",
             mem.image = job.mem.image /\ mem.owned = job.mem.owned
      PROVE  CustodyInv'
  <2>1. job'.pc = "save" /\ job'.mem = mem /\ job'.next = next
      BY <1>1, <1>4, SaveAsMem
  <2> QED  BY <1>1, <1>4, <2>1, QuietStep
<1>5. \A st : LET mem == [job.mem EXCEPT !.status = st] IN
         mem.image = job.mem.image /\ mem.owned = job.mem.owned
    BY <1>1 DEF Publication
<1>6. CASE DescribeRecorded
    BY <1>3, <1>4, <1>5, <1>6 DEF DescribeRecorded
<1>7. CASE BeginUpload
  <2> DEFINE mem == [job.mem EXCEPT !.status = "uploading", !.clean = FALSE]
  <2>1. mem.image = job.mem.image /\ mem.owned = job.mem.owned
      BY <1>1 DEF Publication
  <2> QED  BY <1>3, <1>4, <1>7, <2>1 DEF BeginUpload
<1>8. CASE Upload
    BY <1>4, <1>5, <1>8 DEF Upload
<1>9. CASE Await
    BY <1>2, <1>3, <1>4, <1>5, <1>9 DEF Await
<1>10. CASE Collect
  <2>1. PICK clean \in BOOLEAN :
          SaveAs([job.mem EXCEPT !.status = "available", !.snaps = Captured(job.mem),
                                 !.clean = clean], "end")
      BY <1>10 DEF Collect
  <2> DEFINE mem == [job.mem EXCEPT !.status = "available", !.snaps = Captured(job.mem),
                                    !.clean = clean]
  <2>2. mem.image = job.mem.image /\ mem.owned = job.mem.owned
      BY <1>1 DEF Publication
  <2> HIDE DEF mem
  <2> QED  BY <1>4, <2>1, <2>2 DEF mem
<1>11. CASE MarkExported
  <2> DEFINE mem == [job.mem EXCEPT !.exported = TRUE]
  <2>1. mem.image = job.mem.image /\ mem.owned = job.mem.owned
      BY <1>1 DEF Publication
  <2> QED  BY <1>4, <1>11, <2>1 DEF MarkExported
<1>12. CASE CollectUpload
  <2>1. PICK clean \in BOOLEAN : SaveAs([job.mem EXCEPT !.clean = clean], "end")
      BY <1>12 DEF CollectUpload
  <2> DEFINE mem == [job.mem EXCEPT !.clean = clean]
  <2>2. mem.image = job.mem.image /\ mem.owned = job.mem.owned
      BY <1>1 DEF Publication
  <2> HIDE DEF mem
  <2> QED  BY <1>4, <2>1, <2>2 DEF mem
<1>13. CASE TakeExclusive
    BY <1>3, <1>13 DEF TakeExclusive
<1>14. CASE CheckReferences
  <2> DEFINE mem == [job.mem EXCEPT !.retiring = TRUE]
  <2>1. mem.image = job.mem.image /\ mem.owned = job.mem.owned
      BY <1>1 DEF Publication
  <2>2. EndJob \/ SaveAs(mem, "snapshots") \/ SaveAs(mem, "capture")
      BY <1>14 DEF CheckReferences
  <2> HIDE DEF mem
  <2> QED  BY <1>2, <1>4, <2>1, <2>2
<1>15. CASE DeleteSnapshot
  <2>1. PICK s \in job.mem.snaps : SaveAs([job.mem EXCEPT !.snaps = @ \ {s}], "snapshots")
      BY <1>15 DEF DeleteSnapshot
  <2> DEFINE mem == [job.mem EXCEPT !.snaps = @ \ {s}]
  <2>2. mem.image = job.mem.image /\ mem.owned = job.mem.owned
      BY <1>1 DEF Publication
  <2> HIDE DEF mem
  <2> QED  BY <1>4, <2>1, <2>2 DEF mem
<1>16. CASE RetireUpload
    BY <1>3, <1>4, <1>16 DEF RetireUpload
<1> QED  BY <1>2, <1>6, <1>7, <1>8, <1>9, <1>10, <1>11, <1>12, <1>13, <1>14, <1>15, <1>16
            DEF ImportRefused, Release


\* Adopted bits are another workspace's: what this one imported is recorded
LEMMA AdoptCustody ==
    ASSUME IInv, CustodyInv, Adopt PROVE CustodyInv'
<1>1. /\ job.pc = "describe" /\ job.mem.image = NoImage /\ job.mem = rec[job.b]
      /\ job \in Job /\ job.mem \in Publication
      /\ UNCHANGED <<records, status, tag, ours, snap>>
    BY MemType DEF Adopt, Do, IInv, JobInv, Unsaved, TypeOK
<1>2. PICK i \in Existing(job.b), clean \in BOOLEAN :
        SaveAs([job.mem EXCEPT !.image = i, !.owned = FALSE, !.status = "available",
                               !.clean = clean], "end")
    BY DEF Adopt
<1> DEFINE mem == [job.mem EXCEPT !.image = i, !.owned = FALSE, !.status = "available",
                                  !.clean = clean]
<1>3. mem.image = i
    BY <1>1 DEF Publication
<1>4. i \notin ours
  <2>1. i \in Present /\ tag[i] = job.b /\ i # NoImage
      BY ImageAssumption DEF Existing, Present
  <2> QED  BY <1>1, <2>1 DEF CustodyInv, TagInv
<1> HIDE DEF mem
<1>5. job'.pc = "save" /\ job'.mem = mem /\ job'.next = "end"
    BY <1>1, <1>2, SaveAsMem DEF mem
<1>6. CapturedInv' /\ Owns(job.mem)'
    BY <1>1, <1>3, <1>4, <1>5 DEF CapturedInv, Place, Owns
<1> QED  BY <1>1, <1>6, JobStep DEF records

LEMMA CaptureCustody ==
    ASSUME IInv, CustodyInv, Capture PROVE CustodyInv'
<1> DEFINE mem == [job.mem EXCEPT !.snaps = Captured(job.mem)]
<1>1. /\ job.pc = "capture" /\ SaveAs(mem, "delete") /\ UNCHANGED <<records, cloud>>
      /\ job \in Job /\ job.mem \in Publication
    BY MemType DEF Capture, Do, IInv, TypeOK
<1>2. /\ mem.image = job.mem.image /\ mem.owned = job.mem.owned
      /\ mem.snaps = Captured(job.mem)
    BY <1>1 DEF Publication
<1> HIDE DEF mem
<1>3. job'.pc = "save" /\ job'.mem = mem /\ job'.next = "delete"
    BY <1>1, SaveAsMem
<1>4. CapturedInv'
    BY <1>1, <1>2, <1>3 DEF CapturedInv, Place, Captured, cloud
<1>5. Owns(job.mem)'
    BY <1>1, <1>2, <1>3 DEF CustodyInv, OwnedInv, Owns, cloud
<1> QED  BY <1>1, <1>4, <1>5, JobStep DEF records, cloud

LEMMA SaveCustody ==
    ASSUME IInv, CustodyInv, Save PROVE CustodyInv'
<1>1. /\ job.pc = "save" /\ rec' = [rec EXCEPT ![job.b] = job.mem]
      /\ recorded' = recorded \cup {job.b} /\ UNCHANGED cloud
    BY DEF Save, Do
<1>2. /\ job.b \in Build /\ rec \in [Build -> Publication] /\ job \in Job
      /\ job.next \in SavedFor
      /\ rec[job.b].image = job.mem.image \/ rec[job.b].image = NoImage
      /\ rec[job.b].snaps \cap snap \subseteq job.mem.snaps
    BY <1>1 DEF IInv, JobInv, Unsaved, Saving, TypeOK, PublishInv
<1>3. rec'[job.b] = job.mem /\ \A b \in Build \ {job.b} : rec'[b] = rec[b]
    BY <1>1, <1>2
<1>4. \/ job'.pc = "idle" /\ job'.mem = Base
      \/ job'.pc = job.next /\ job.next # "end" /\ job'.mem = job.mem
    BY <1>2, EndEffect DEF Save, Then, Job
<1>5. CapturedInv'
    BY <1>1, <1>2, <1>4 DEF CustodyInv, CapturedInv, Place, SavedFor, cloud
<1>6. TagInv'
  <2> SUFFICES ASSUME NEW i \in ours \cap Present
               PROVE  tag[i] \in recorded' /\ rec'[tag[i]].image = i
      BY <1>1 DEF TagInv, Present, cloud
  <2>1. tag[i] \in recorded /\ rec[tag[i]].image = i /\ i # NoImage /\ tag[i] \in Build
      BY <1>1, ImageAssumption DEF CustodyInv, TagInv, IInv, TypeOK
  <2> QED  BY <1>1, <1>2, <1>3, <2>1
<1>7. SnapInv'
  <2> SUFFICES ASSUME NEW i \in snap \cap ours, status[i] # "available"
               PROVE  \E b \in recorded' : i \in rec'[b].snaps
      BY <1>1 DEF SnapInv, cloud
  <2>1. PICK b \in recorded : i \in rec[b].snaps
      BY DEF CustodyInv, SnapInv
  <2>2. b \in Build
      BY DEF IInv, TypeOK
  <2> QED  BY <1>1, <1>2, <1>3, <2>1, <2>2
<1>8. OwnedInv'
  <2>1. Owns(Base)'
      BY DEF Owns, Base
  <2> QED  BY <1>1, <1>3, <1>4, <2>1 DEF CustodyInv, OwnedInv, Owns, Base, cloud
<1> QED  BY <1>5, <1>6, <1>7, <1>8 DEF CustodyInv

LEMMA ImportImageCustody ==
    ASSUME IInv, CustodyInv, ImportImage PROVE CustodyInv'
<1>1. job.pc = "import" /\ UNCHANGED <<records, snap>>
    BY DEF ImportImage, Do
<1>2. PICK i \in Image :
        /\ IF answer[job.b] # NoImage
           THEN i = answer[job.b] /\ UNCHANGED <<status, tag, ours, answer>>
           ELSE /\ status[i] = "unused"
                /\ status' = [status EXCEPT ![i] = "creating"]
                /\ tag' = [tag EXCEPT ![i] = job.b]
                /\ ours' = ours \cup {i}
        /\ job' = [job EXCEPT !.pc = "answered", !.mem.image = i, !.mem.status = "importing"]
    BY DEF ImportImage
<1>3. /\ job.mem \in Publication /\ job \in Job /\ Sound(job.mem) /\ job.mem.image = NoImage
      /\ ~job.mem.retiring /\ job.b \in recorded /\ job.b \in Build
      /\ status \in [Image -> {"unused", "creating", "available", "failed", "deleted"}]
      /\ tag \in [Image -> Build \cup {NoBuild}]
    BY <1>1, MemType, MemSound DEF IInv, PublishInv, Place, JobInv, Unsaved, TypeOK
<1>4. /\ job'.pc = "answered" /\ job'.b = job.b /\ job'.mem.image = i
      /\ job'.mem.owned = job.mem.owned
    BY <1>2, <1>3 DEF Job, Publication
<1>5. job.mem.owned
    BY <1>3 DEF Sound
<1>6. CapturedInv'
    BY <1>4 DEF CapturedInv, Place
<1>7. CASE answer[job.b] # NoImage
  <2>1. TagInv' /\ SnapInv'
      BY <1>1, <1>2, <1>7 DEF CustodyInv, TagInv, SnapInv, Present, records
  <2>2. OwnedInv'
      BY <1>1, <1>2, <1>4, <1>5, <1>7 DEF CustodyInv, OwnedInv, Owns, records
  <2> QED  BY <1>6, <2>1, <2>2 DEF CustodyInv
<1>8. CASE answer[job.b] = NoImage
  <2>1. /\ status[i] = "unused" /\ status'[i] = "creating" /\ tag'[i] = job.b
        /\ ours' = ours \cup {i}
        /\ \A j \in Image \ {i} : status'[j] = status[j] /\ tag'[j] = tag[j]
      BY <1>2, <1>3, <1>8
  <2>2. TagInv'
    <3> SUFFICES ASSUME NEW j \in ours' \cap Present'
                 PROVE  /\ tag'[j] \in recorded
                        /\ rec[tag'[j]].image = j \/ (job.b = tag'[j] /\ i = j)
        BY <1>1, <1>4 DEF TagInv, records
    <3>1. CASE j = i
        BY <1>3, <2>1, <3>1
    <3>2. CASE j # i
      <4>1. j \in ours \cap Present
          BY <2>1, <3>2 DEF Present
      <4> QED  BY <1>1, <2>1, <3>2, <4>1 DEF CustodyInv, TagInv, Present
    <3> QED  BY <3>1, <3>2
  <2>3. SnapInv'
      BY <1>1, <2>1 DEF CustodyInv, SnapInv, IInv, TypeOK, CloudInv, records
  <2>4. OwnedInv'
    <3>1. \A b \in Build : rec[b].image # i
        BY <2>1 DEF IInv, EntriesInv, Sound
    <3> QED  BY <1>1, <1>4, <1>5, <2>1, <3>1 DEF CustodyInv, OwnedInv, Owns, records
  <2> QED  BY <1>6, <2>2, <2>3, <2>4 DEF CustodyInv
<1> QED  BY <1>7, <1>8

LEMMA RecordImportCustody ==
    ASSUME IInv, CustodyInv, RecordImport PROVE CustodyInv'
<1>1. /\ job.pc = "answered" /\ rec' = [rec EXCEPT ![job.b] = job.mem] /\ Then("wait")
      /\ UNCHANGED <<recorded, cloud>>
    BY DEF RecordImport, Do
<1>2. /\ job.mem.image \in Image /\ job.b \in Build /\ job.b \in recorded /\ job \in Job
      /\ rec[job.b].image = NoImage /\ rec \in [Build -> Publication]
      /\ rec[job.b].snaps \cap snap \subseteq job.mem.snaps
    BY <1>1 DEF IInv, PublishInv, Place, JobInv, Unsaved, Saving, TypeOK
<1>3. /\ job'.pc = "wait" /\ job'.mem = job.mem /\ rec'[job.b] = job.mem
      /\ \A b \in Build \ {job.b} : rec'[b] = rec[b]
    BY <1>1, <1>2 DEF Then, Job
<1>4. CapturedInv'
    BY <1>3 DEF CapturedInv, Place
<1>5. TagInv'
  <2> SUFFICES ASSUME NEW i \in ours \cap Present
               PROVE  tag[i] \in recorded /\ rec'[tag[i]].image = i
      BY <1>1 DEF TagInv, Present, cloud
  <2>1. /\ tag[i] \in recorded /\ i # NoImage /\ tag[i] \in Build
        /\ rec[tag[i]].image = i \/ (job.b = tag[i] /\ job.mem.image = i)
      BY ImageAssumption DEF CustodyInv, TagInv, IInv, TypeOK
  <2> QED  BY <1>2, <1>3, <2>1
<1>6. SnapInv'
  <2> SUFFICES ASSUME NEW i \in snap \cap ours, status[i] # "available"
               PROVE  \E b \in recorded : i \in rec'[b].snaps
      BY <1>1 DEF SnapInv, cloud
  <2>1. PICK b \in recorded : i \in rec[b].snaps
      BY DEF CustodyInv, SnapInv
  <2>2. b \in Build
      BY DEF IInv, TypeOK
  <2> QED  BY <1>2, <1>3, <2>1, <2>2
<1>7. OwnedInv'
    BY <1>1, <1>3 DEF CustodyInv, OwnedInv, Owns, cloud
<1> QED  BY <1>4, <1>5, <1>6, <1>7 DEF CustodyInv

\* The snapshots of the image are in the entry, which is recorded, when it goes
LEMMA DeleteImageCustody ==
    ASSUME IInv, CustodyInv, DeleteImage PROVE CustodyInv'
<1>1. job.pc = "delete" /\ UNCHANGED <<records, tag, ours, answer, snap, objects>>
    BY DEF DeleteImage, Do
<1>2. CASE EndJob /\ UNCHANGED status
    BY <1>1, <1>2, EndsCustody DEF cloud
<1>3. CASE /\ status' = [status EXCEPT ![job.mem.image] = "deleted"]
           /\ job' = [job EXCEPT !.pc = "deleted"]
  <2>1. /\ job.mem.image \in Image /\ job.mem = rec[job.b] /\ job.b \in recorded /\ job \in Job
        /\ status \in [Image -> {"unused", "creating", "available", "failed", "deleted"}]
      BY <1>1 DEF IInv, RetireInv, Place, RetirePlaces, JobInv, Unsaved, TypeOK
  <2>2. job'.pc = "deleted" /\ job'.mem = job.mem
      BY <1>3, <2>1 DEF Job
  <2>3. /\ status'[job.mem.image] = "deleted"
        /\ \A i \in Image \ {job.mem.image} : status'[i] = status[i]
      BY <1>3, <2>1
  <2>4. CapturedInv'
      BY <2>2 DEF CapturedInv, Place
  <2>5. TagInv'
    <3>1. Present' \subseteq Present
        BY <2>1, <2>3 DEF Present
    <3> QED  BY <1>1, <3>1 DEF CustodyInv, TagInv, records
  <2>6. SnapInv'
    <3> SUFFICES ASSUME NEW i \in snap \cap ours, status'[i] # "available"
                 PROVE  \E b \in recorded : i \in rec[b].snaps
        BY <1>1 DEF SnapInv, records
    <3>1. CASE i = job.mem.image
        BY <1>1, <2>1, <3>1 DEF CustodyInv, CapturedInv, OwnedInv, Owns, Place
    <3>2. CASE i # job.mem.image
        BY <2>3, <3>2 DEF CustodyInv, SnapInv, IInv, TypeOK
    <3> QED  BY <3>1, <3>2
  <2>7. OwnedInv'
      BY <1>1, <2>2 DEF CustodyInv, OwnedInv, Owns, records
  <2> QED  BY <2>4, <2>5, <2>6, <2>7 DEF CustodyInv
<1> QED  BY <1>2, <1>3 DEF DeleteImage

LEMMA RecordDeletionCustody ==
    ASSUME IInv, CustodyInv, RecordDeletion PROVE CustodyInv'
<1> DEFINE mem == [job.mem EXCEPT !.image = NoImage]
<1>1. /\ job.pc = "deleted" /\ rec' = [rec EXCEPT ![job.b] = mem]
      /\ job' = [job EXCEPT !.mem.image = NoImage, !.pc = "snapshots"]
      /\ UNCHANGED <<recorded, cloud>>
    BY DEF RecordDeletion, Do
<1>2. /\ job.mem \in Publication /\ job.mem.image \in Image /\ job \in Job
      /\ status[job.mem.image] = "deleted" /\ job.b \in recorded
      /\ job.mem = rec[job.b] /\ job.b \in Build /\ rec \in [Build -> Publication]
    BY <1>1, MemType DEF IInv, RetireInv, Place, RetirePlaces, JobInv, Unsaved, TypeOK
<1>3. mem.image = NoImage /\ mem.snaps = job.mem.snaps
    BY <1>2 DEF Publication
<1>4. job'.pc = "snapshots" /\ job'.mem = mem
    BY <1>1, <1>2 DEF Job
<1> HIDE DEF mem
<1>5. rec'[job.b] = mem /\ \A b \in Build \ {job.b} : rec'[b] = rec[b]
    BY <1>1, <1>2
<1>6. CapturedInv'
    BY <1>4 DEF CapturedInv, Place
<1>7. TagInv'
  <2> SUFFICES ASSUME NEW i \in ours \cap Present
               PROVE  tag[i] \in recorded /\ rec'[tag[i]].image = i
      BY <1>1 DEF TagInv, Present, cloud
  <2>1. tag[i] \in recorded /\ rec[tag[i]].image = i /\ tag[i] \in Build
      BY <1>1 DEF CustodyInv, TagInv, IInv, TypeOK
  <2>2. i # job.mem.image
      BY <1>2 DEF Present
  <2> QED  BY <1>2, <1>5, <2>1, <2>2
<1>8. SnapInv'
  <2> SUFFICES ASSUME NEW i \in snap \cap ours, status[i] # "available"
               PROVE  \E b \in recorded : i \in rec'[b].snaps
      BY <1>1 DEF SnapInv, cloud
  <2>1. PICK b \in recorded : i \in rec[b].snaps
      BY DEF CustodyInv, SnapInv
  <2>2. b \in Build
      BY DEF IInv, TypeOK
  <2> QED  BY <1>2, <1>3, <1>5, <2>1, <2>2
<1>9. OwnedInv'
  <2>1. NoImage \notin ours
      BY ImageAssumption DEF IInv, TypeOK
  <2> QED  BY <1>1, <1>3, <1>4, <1>5, <2>1 DEF CustodyInv, OwnedInv, Owns, cloud
<1> QED  BY <1>6, <1>7, <1>8, <1>9 DEF CustodyInv

LEMMA RemovePublicationCustody ==
    ASSUME IInv, CustodyInv, RemovePublication PROVE CustodyInv'
<1>1. /\ job.pc = "remove" /\ recorded' = recorded \ {job.b}
      /\ rec' = [rec EXCEPT ![job.b] = Base] /\ EndJob /\ UNCHANGED cloud
    BY DEF RemovePublication, Do
<1>2. /\ job.mem.image = NoImage /\ job.mem.snaps = {} /\ job.mem = rec[job.b]
      /\ job.b \in Build /\ rec \in [Build -> Publication]
    BY <1>1 DEF IInv, RetireInv, Place, JobInv, Unsaved, TypeOK
<1>3. job'.pc = "idle" /\ job'.mem = Base
    BY <1>1, EndEffect
<1>4. rec'[job.b] = Base /\ \A b \in Build \ {job.b} : rec'[b] = rec[b]
    BY <1>1, <1>2
<1>5. CapturedInv'
    BY <1>3 DEF CapturedInv, Place
<1>6. TagInv'
  <2> SUFFICES ASSUME NEW i \in ours \cap Present
               PROVE  tag[i] \in recorded' /\ rec'[tag[i]].image = i
      BY <1>1 DEF TagInv, Present, cloud
  <2>1. tag[i] \in recorded /\ rec[tag[i]].image = i /\ i # NoImage /\ tag[i] \in Build
      BY <1>1, ImageAssumption DEF CustodyInv, TagInv, IInv, TypeOK
  <2> QED  BY <1>1, <1>2, <1>4, <2>1
<1>7. SnapInv'
  <2> SUFFICES ASSUME NEW i \in snap \cap ours, status[i] # "available"
               PROVE  \E b \in recorded' : i \in rec'[b].snaps
      BY <1>1 DEF SnapInv, cloud
  <2>1. PICK b \in recorded : i \in rec[b].snaps
      BY DEF CustodyInv, SnapInv
  <2>2. b \in Build
      BY DEF IInv, TypeOK
  <2> QED  BY <1>1, <1>2, <1>4, <2>1, <2>2
<1>8. OwnedInv'
  <2>1. Owns(Base)'
      BY DEF Owns, Base
  <2> QED  BY <1>1, <1>3, <1>4, <2>1 DEF CustodyInv, OwnedInv, Owns, Base, cloud
<1> QED  BY <1>5, <1>6, <1>7, <1>8 DEF CustodyInv


\* An import that ends makes a snapshot, which a retirement past its capture
\* must not miss; an image of another workspace is nobody's here
LEMMA CloudCustody ==
    ASSUME IInv, CustodyInv, NEW i \in Image, status[i] \in {"unused", "creating"},
           UNCHANGED <<records, job, ours>>, status[i] = "creating" => UNCHANGED tag,
           status[i] = "creating" => ImportRaces \/ ~ExclusiveLease(i), ImportRaces = FALSE,
           \A j \in Image \ {i} : tag'[j] = tag[j],
           \/ status' = [status EXCEPT ![i] = "available"] /\ snap' = snap \cup {i}
           \/ status' = [status EXCEPT ![i] = "failed"] /\ UNCHANGED snap
    PROVE  CustodyInv'
<1>1. /\ status'[i] \in {"available", "failed"} /\ \A j \in Image \ {i} : status'[j] = status[j]
      /\ snap' \subseteq snap \cup {i} /\ (i \in snap' => status'[i] = "available" \/ i \in snap)
      /\ status[i] = "unused" => i \notin ours
      /\ i \notin snap
    BY DEF IInv, TypeOK, CloudInv
<1>2. CapturedInv'
  <2>1. Place = "delete" => job.mem.image # i
    <3> SUFFICES ASSUME Place = "delete", job.mem.image = i PROVE FALSE
        OBVIOUS
    <3>1. job.cmd \in {"unpublish", "prune"} /\ job.img = i /\ job.pc # "lease"
        BY DEF IInv, RetireInv, Place, RetirePlaces
    <3>2. status[i] = "creating"
        BY MemType DEF IInv, EntriesInv, Sound
    <3> QED  BY <3>1, <3>2 DEF ExclusiveLease
  <2> QED  BY <1>1, <2>1 DEF CustodyInv, CapturedInv, Place
<1>3. TagInv'
  <2> SUFFICES ASSUME NEW j \in ours \cap Present'
               PROVE  /\ tag'[j] \in recorded
                      /\ rec[tag'[j]].image = j
                         \/ (job.pc = "answered" /\ job.b = tag'[j] /\ job.mem.image = j)
      BY DEF TagInv, records
  <2>1. j \in Present /\ tag'[j] = tag[j]
      BY <1>1 DEF Present
  <2> QED  BY <2>1 DEF CustodyInv, TagInv
<1>4. SnapInv'
    BY <1>1 DEF CustodyInv, SnapInv, IInv, TypeOK, records
<1>5. OwnedInv'
    BY DEF CustodyInv, OwnedInv, Owns, records
<1> QED  BY <1>2, <1>3, <1>4, <1>5 DEF CustodyInv

LEMMA CustodyStep ==
    ASSUME "answered" \notin DieAt, ImportRaces = FALSE, IInv, CustodyInv, [Next]_vars
    PROVE  CustodyInv'
<1>1. CASE Command
  <2>1. ASSUME \/ DeployOwn \/ \E c \in Importer : ImportRelease(c)
               \/ \E i \in Image : ExportNamed(i)
        PROVE  CustodyInv'
      BY <2>1, UsersCustody DEF DeployOwn, ImportRelease, ExportNamed, records
  <2>2. ASSUME NEW b \in Build, NewBuild(b) PROVE CustodyInv'
      BY <2>2, UsersCustody DEF NewBuild
  <2>3. ASSUME (\E c \in Consumer : Destroy(c)) \/ \E c \in Importer : Forget(c)
        PROVE  CustodyInv'
      BY <2>3, UsersCustody DEF Destroy, Forget, records
  <2> QED  BY <1>1, <2>1, <2>2, <2>3, StartsCustody DEF Command
<1>2. CASE Step
    BY <1>2, QuietCustody, AdoptCustody, CaptureCustody, SaveCustody, ImportImageCustody,
       RecordImportCustody, DeleteImageCustody, RecordDeletionCustody, RemovePublicationCustody
       DEF Step
<1>3. CASE Crash
  <2>1. CASE EndJob /\ job.pc # "answered"
      BY <1>3, <2>1, EndsCustody DEF Crash
  <2>2. CASE UNCHANGED job
      BY <1>3, <2>2, UsersCustody DEF Crash, records
  <2> QED  BY <1>3, <2>1, <2>2 DEF Crash
<1>4. ASSUME NEW c \in Consumer, ConsumerStep(c) PROVE CustodyInv'
    BY <1>4, UsersCustody DEF ConsumerStep, TakeShared, Prepare, RecordAttempt, Launch, records
<1>5. ASSUME NEW i \in Image, ImportEnds(i) PROVE CustodyInv'
    BY <1>5, CloudCustody DEF ImportEnds
<1>6. ASSUME NEW i \in Image, NEW b \in Build, ForeignPublish(i, b) PROVE CustodyInv'
  <2>1. \A j \in Image \ {i} : tag'[j] = tag[j]
      BY <1>6 DEF ForeignPublish, IInv, TypeOK
  <2> QED  BY <1>6, <2>1, CloudCustody DEF ForeignPublish
<1>7. CASE UNCHANGED vars
    BY <1>7, UsersCustody DEF vars, records
<1> QED  BY <1>1, <1>2, <1>3, <1>4, <1>5, <1>6, <1>7 DEF Next

\* An image is found through the publication it is tagged with: by its record,
\* or, while the answer to its import is being recorded, by its ClientToken
LEMMA CustodyHolds == IInv /\ CustodyInv => InCustody
<1> SUFFICES ASSUME IInv, CustodyInv PROVE InCustody
    OBVIOUS
<1>1. ImagesInCustody
  <2> SUFFICES ASSUME NEW i \in ours \cap Present
               PROVE  \E b \in recorded :
                        \/ rec[b].image = i
                        \/ rec[b].image = NoImage /\ ~rec[b].retiring /\ answer[b] = i
      BY DEF ImagesInCustody
  <2>1. CASE rec[tag[i]].image = i
      BY <2>1 DEF CustodyInv, TagInv
  <2>2. CASE job.pc = "answered" /\ job.b = tag[i] /\ job.mem.image = i
      BY <2>2 DEF CustodyInv, TagInv, IInv, PublishInv
  <2> QED  BY <2>1, <2>2 DEF CustodyInv, TagInv
<1>2. SnapshotsInCustody
    BY DEF SnapshotsInCustody, CustodyInv, SnapInv, IInv, TypeOK, Present
<1> QED  BY <1>1, <1>2 DEF InCustody, IInv

(* Wherever a command dies, every image, snapshot and upload it left is in the *)
(* records or found again by the recorded ClientToken -- unless it dies after  *)
(* ImportImage answered and before that is saved, or an import ends while its  *)
(* image is retired: the two counterexamples the code leaves open.             *)
THEOREM CustodyKept ==
    ASSUME "answered" \notin DieAt, ImportRaces = FALSE
    PROVE  Spec => []InCustody
<1>1. IInv /\ CustodyInv /\ [Next]_vars => CustodyInv'
    BY CustodyStep
<1>2. Init => IInv /\ CustodyInv
    BY InitIInv, InitCustody
<1> QED  BY <1>1, <1>2, NextIInv, CustodyHolds, PTL DEF Spec

=============================================================================
