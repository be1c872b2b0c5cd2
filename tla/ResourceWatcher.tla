-------------------------- MODULE ResourceWatcher --------------------------
(***************************************************************************)
(* How the guest daemon learns of delivered files (daemon/src/app.rs,      *)
(* ResourceWatcher): inotify watches on the directories of the resource    *)
(* paths that exist, reconciled with the file system before every wait.    *)
(* Before the first bootstrap is applied a challenge guest waits without a *)
(* timeout, so a missed event would be waited for in vain.                 *)
(*                                                                         *)
(* One chain of directories, level 0 being cdh_root; a file lies at a      *)
(* level.  A watch descriptor is the inode it was taken on.  Directories   *)
(* are created and removed, not renamed, and the kernel's queue does not   *)
(* overflow.                                                               *)
(***************************************************************************)
EXTENDS Naturals, FiniteSets

CONSTANTS
    File,           \* the delivered files
    Base,           \* those known from the start: bootstrap, mesh, A2A bundle
    Boot,           \* the bootstrap, which names the others
    LevelOf,        \* the directory each file lies in
    Depth,
    MaxFileChanges  \* bound on what happens to the files

ASSUME ConstAssumption ==
    /\ Depth \in Nat /\ MaxFileChanges \in Nat
    /\ Boot \in Base /\ Base \subseteq File
    /\ LevelOf \in [File -> 0..Depth]

Level == 0..Depth
Absent == 0

VARIABLES
    (* the file system and the kernel *)
    ino,        \* the inode of each directory, or Absent
    content,    \* the version of each file, or Absent
    changes,    \* counts changes; numbers inodes and versions
    marks,      \* inodes with a watch
    queue,      \* events not yet read: [wd, gone]
    (* the daemon *)
    place,      \* "stat", "adjust", "read", "poll"
    caller,     \* who reconciles: "new", "wait", "drained"
    known,      \* resource_paths
    watched,    \* watched_dirs: the descriptor of each level, or Absent
    level,      \* the next level existing_watch_dirs looks at
    desired,    \* what it has found
    changed,    \* the result of reconcile_watches
    todo,       \* files the round has still to read
    seen        \* the version of each file the daemon has read

fs == <<ino, content, changes>>
inotify == <<marks, queue>>
reconcile == <<level, desired, changed>>
watcherVars == <<fs, inotify, place, caller, known, watched, reconcile, todo, seen>>

Needed == {d \in Level : \E f \in known : d =< LevelOf[f]}

WatcherInit ==
    /\ ino = [d \in Level |-> IF d = 0 THEN 1 ELSE Absent]
    /\ content = [f \in File |-> Absent]
    /\ changes = 1
    /\ marks = {} /\ queue = {}
    /\ place = "stat" /\ caller = "new" /\ known = Base
    /\ watched = [d \in Level |-> Absent]
    /\ level = 0 /\ desired = {} /\ changed = FALSE
    /\ todo = {} /\ seen = [f \in File |-> Absent]

----------------------------------------------------------------------------
(* Files and directories come and go *)

Change == changes =< MaxFileChanges /\ changes' = changes + 1
Told(d) == IF ino[d] \in marks THEN {[wd |-> ino[d], gone |-> FALSE]} ELSE {}
Daemon == <<place, caller, known, watched, reconcile, todo, seen>>

MkDir(d) ==
    /\ Change /\ d > 0 /\ ino[d] = Absent /\ ino[d - 1] # Absent
    /\ ino' = [ino EXCEPT ![d] = changes + 1]
    /\ queue' = queue \cup Told(d - 1)
    /\ UNCHANGED <<content, marks, Daemon>>

RmDir(d) ==
    /\ Change /\ d > 0 /\ ino[d] # Absent
    /\ d < Depth => ino[d + 1] = Absent
    /\ \A f \in File : LevelOf[f] = d => content[f] = Absent
    /\ ino' = [ino EXCEPT ![d] = Absent]
    /\ queue' = queue \cup Told(d - 1) \cup
          (IF ino[d] \in marks THEN {[wd |-> ino[d], gone |-> TRUE]} ELSE {})
    /\ marks' = marks \ {ino[d]}
    /\ UNCHANGED <<content, Daemon>>

\* written, replaced by a rename, or deleted
Put(f, version) ==
    /\ Change /\ ino[LevelOf[f]] # Absent
    /\ version # content[f]
    /\ content' = [content EXCEPT ![f] = version]
    /\ queue' = queue \cup Told(LevelOf[f])
    /\ UNCHANGED <<ino, marks, Daemon>>

----------------------------------------------------------------------------
(* reconcile_watches *)

Reconcile(who) ==
    /\ place' = "stat" /\ caller' = who
    /\ level' = 0 /\ desired' = {} /\ changed' = FALSE

\* existing_watch_dirs: level by level, as far as there are directories
Stat ==
    /\ place = "stat"
    /\ IF level \in Needed /\ ino[level] # Absent
       THEN /\ desired' = desired \cup {level}
            /\ level' = level + 1
            /\ UNCHANGED place
       ELSE place' = "adjust" /\ UNCHANGED <<level, desired>>
    /\ UNCHANGED <<fs, inotify, caller, known, watched, changed, todo, seen>>

Stale == {d \in Level \ desired : watched[d] # Absent}
Fresh == {d \in desired : watched[d] = Absent}

\* remove_watch_path: the kernel confirms with an event for an unknown watch
Unwatch(d) ==
    /\ place = "adjust" /\ d \in Stale
    /\ watched' = [watched EXCEPT ![d] = Absent]
    /\ marks' = marks \ {watched[d]}
    /\ queue' = queue \cup (IF watched[d] \in marks
                            THEN {[wd |-> watched[d], gone |-> TRUE]} ELSE {})
    /\ changed' = TRUE
    /\ UNCHANGED <<fs, place, caller, known, level, desired, todo, seen>>

\* add_watch
Watch(d) ==
    /\ place = "adjust" /\ Stale = {} /\ d \in Fresh /\ ino[d] # Absent
    /\ watched' = [watched EXCEPT ![d] = ino[d]]
    /\ marks' = marks \cup {ino[d]}
    /\ changed' = TRUE
    /\ UNCHANGED <<fs, queue, place, caller, known, level, desired, todo, seen>>

\* the directory has gone again: wait returns the error, run_daemon ends and
\* systemd starts the daemon anew
WatchFails(d) ==
    /\ place = "adjust" /\ Stale = {} /\ d \in Fresh /\ ino[d] = Absent
    /\ marks' = {} /\ queue' = {}
    /\ watched' = [l \in Level |-> Absent]
    /\ known' = Base /\ todo' = {} /\ seen' = [f \in File |-> Absent]
    /\ Reconcile("new")
    /\ UNCHANGED fs

\* faulty variant of Reconciled: polls although a watch was just added
ReconciledOnce ==
    /\ place = "adjust" /\ Stale = {} /\ Fresh = {}
    /\ IF caller = "wait" THEN place' = "poll" /\ UNCHANGED todo
       ELSE place' = "read" /\ todo' = {Boot}
    /\ UNCHANGED <<fs, inotify, caller, known, watched, reconcile, seen>>

\* back in wait or run_daemon; what was changed is an event of its own
Reconciled ==
    /\ place = "adjust" /\ Stale = {} /\ Fresh = {}
    /\ IF caller = "wait" /\ ~changed
       THEN place' = "poll" /\ UNCHANGED todo
       ELSE place' = "read" /\ todo' = {Boot}
    /\ UNCHANGED <<fs, inotify, caller, known, watched, reconcile, seen>>

----------------------------------------------------------------------------
(* The round, as far as it reads, and the wait *)

\* read_bootstrap and add_resource_paths
ReadBoot ==
    /\ place = "read" /\ Boot \in todo
    /\ seen' = [seen EXCEPT ![Boot] = content[Boot]]
    /\ known' = IF content[Boot] # Absent THEN File ELSE known
    /\ todo' = known' \ {Boot}
    /\ UNCHANGED <<fs, inotify, place, caller, watched, reconcile>>

Read(f) ==
    /\ place = "read" /\ Boot \notin todo /\ f \in todo
    /\ seen' = [seen EXCEPT ![f] = content[f]]
    /\ todo' = todo \ {f}
    /\ UNCHANGED <<fs, inotify, place, caller, known, watched, reconcile>>

Wait ==
    /\ place = "read" /\ todo = {}
    /\ Reconcile("wait")
    /\ UNCHANGED <<fs, inotify, known, watched, todo, seen>>

\* faulty variant of Drain: events are read, lost watches kept
DrainOnly ==
    /\ place = "poll" /\ queue # {}
    /\ queue' = {}
    /\ Reconcile("drained")
    /\ UNCHANGED <<fs, marks, known, watched, todo, seen>>

\* drain_events and process_events
Drain ==
    /\ place = "poll" /\ queue # {}
    /\ queue' = {}
    /\ watched' = [d \in Level |->
          IF [wd |-> watched[d], gone |-> TRUE] \in queue THEN Absent ELSE watched[d]]
    /\ Reconcile("drained")
    /\ UNCHANGED <<fs, marks, known, todo, seen>>

WatcherStep ==
    \/ Stat \/ Reconciled
    \/ \E d \in Level : Unwatch(d) \/ Watch(d) \/ WatchFails(d)
    \/ ReadBoot \/ Wait \/ Drain
    \/ \E f \in File : Read(f)

WatcherNext ==
    \/ WatcherStep
    \/ \E d \in Level : MkDir(d) \/ RmDir(d)
    \/ \E f \in File : Put(f, changes + 1) \/ Put(f, Absent)

WatcherSpec == WatcherInit /\ [][WatcherNext]_watcherVars
FairWatcherSpec == WatcherSpec /\ WF_watcherVars(WatcherStep)

----------------------------------------------------------------------------
WatcherTypeOK ==
    /\ ino \in [Level -> Nat] /\ content \in [File -> Nat] /\ changes \in Nat
    /\ marks \subseteq Nat /\ queue \subseteq [wd : Nat, gone : BOOLEAN]
    /\ place \in {"stat", "adjust", "read", "poll"}
    /\ caller \in {"new", "wait", "drained"}
    /\ known \in {Base, File} /\ todo \subseteq known
    /\ watched \in [Level -> Nat]
    /\ level \in Nat /\ desired \subseteq Level /\ changed \in BOOLEAN
    /\ seen \in [File -> Nat]

(* A daemon that sleeps in poll has read what there is: directories that   *)
(* appear, go and come back at any moment, before or after their watch,    *)
(* leave an event behind (wait, drain_events, reconcile_watches).          *)
NothingMissed ==
    place = "poll" /\ queue = {} => \A f \in known : seen[f] = content[f]

(* Without a timeout, every file the bootstrap names is read in the end.   *)
EventuallyRead ==
    <>[](content[Boot] # Absent => seen = content)
=============================================================================
