------------------------------ MODULE Archive ------------------------------
(***************************************************************************)
(* The local archive of chat files: snapshots over a content-addressed     *)
(* object store.  A process of the program runs one command at a time      *)
(* (snapshot, prune or restore, from the command line or from the server)  *)
(* and can die between any two calls that change the disk.  Snapshot and   *)
(* prune hold the archive's flock, which dies with its process; restore    *)
(* does not take it.  An object's name is the hash of its content, so the  *)
(* model names an object by the content itself.                            *)
(***************************************************************************)
EXTENDS Naturals, FiniteSets, FiniteSetsExt

CONSTANTS Files,      \* the files under the providers' archive paths
          Contents,   \* what a file may hold
          Places,     \* the paths under a restore's destination
          Place,      \* where restore writes each file
          Procs,      \* processes of the program
          MaxId,      \* bound: snapshots ever started
          MaxEdits,   \* bound: changes to the providers' files
          KeepLast,   \* the argument of prune
          None

Ids == 1..MaxId
Entries == Files \X Contents
Names == {"manifest.json", "summary.json"}

ASSUME BoundsAssumption == {MaxId, MaxEdits, KeepLast} \subseteq Nat
ASSUME PlaceAssumption == Place \in [Files -> Places]
ASSUME NoneAssumption == None \notin Contents \cup Procs

VARIABLES disk,       \* the providers' own files, None when absent
          edits,      \* how often they changed
          objects,    \* the store: objects under their final name
          tmps,       \* ... and under their temporary name
          nextId,     \* the time stamp of the next snapshot
          staging,    \* the names in <id>/.partial
          placed,     \* the names in <id> itself
          manifest,   \* what the manifest of each id says
          lock,       \* who holds archive.lock
          pc, job,    \* each process: its step and its locals
          dest        \* each process: the tree its restore has written

store == <<objects, tmps>>
dirs == <<nextId, staging, placed, manifest>>
procs == <<lock, pc, job>>
sources == <<disk, edits>>
vars == <<sources, store, dirs, procs, dest>>

Steps == {"idle", "begin", "copy", "put", "summary", "promote",
          "list", "unlink", "collect", "sweep", "fetch", "restored"}

Job == [id : 0..MaxId,                  \* the snapshot taken or restored
        files : SUBSET Files,           \* still to copy
        next : Files \cup {None},       \* the file whose object is being put
        content : Contents \cup {None}, \* ... and what was read from it
        got : SUBSET Entries,           \* copied, or still to restore
        ids : SUBSET Ids,               \* still to unlink
        refs : SUBSET Contents]         \* objects a manifest names

NoJob == [id |-> 0, files |-> {}, next |-> None, content |-> None,
          got |-> {}, ids |-> {}, refs |-> {}]
NoTree == [x \in Places |-> None]

TypeOK ==
    /\ disk \in [Files -> Contents \cup {None}]
    /\ edits \in 0..MaxEdits
    /\ objects \in SUBSET Contents /\ tmps \in SUBSET Contents
    /\ nextId \in 1..(MaxId + 1)
    /\ staging \in [Ids -> SUBSET Names] /\ placed \in [Ids -> SUBSET Names]
    /\ manifest \in [Ids -> SUBSET Entries]
    /\ lock \in Procs \cup {None}
    /\ pc \in [Procs -> Steps] /\ job \in [Procs -> Job]
    /\ dest \in [Procs -> [Places -> Contents \cup {None}]]

Init ==
    /\ disk \in [Files -> Contents \cup {None}]
    /\ edits = 0
    /\ objects = {} /\ tmps = {}
    /\ nextId = 1
    /\ staging = [i \in Ids |-> {}] /\ placed = [i \in Ids |-> {}]
    /\ manifest = [i \in Ids |-> {}]
    /\ lock = None
    /\ pc = [p \in Procs |-> "idle"] /\ job = [p \in Procs |-> NoJob]
    /\ dest = [p \in Procs |-> NoTree]

\* The snapshots that list shows: the directories with a summary.
Listed == {i \in Ids : "summary.json" \in placed[i]}

\* The snapshots that show, restore and verify can read.
Shown == {i \in Ids : "manifest.json" \in placed[i]}

\* referenced_hashes_in_archive.
Referenced == {e[2] : e \in UNION {manifest[i] : i \in Shown}}

\* What verify reports: referenced objects that are not in the store.
VerifyIssues == Referenced \ objects

Goto(p, step) == pc' = [pc EXCEPT ![p] = step]

\* The command ends; the lock goes with the file handle.
Leave(p) ==
    /\ Goto(p, "idle")
    /\ job' = [job EXCEPT ![p] = NoJob]
    /\ lock' = IF lock = p THEN None ELSE lock

-----------------------------------------------------------------------------
\* A tool writes or removes one of its chat files.
Edit(f) ==
    /\ edits < MaxEdits /\ edits' = edits + 1
    /\ disk' \in {[disk EXCEPT ![f] = c] : c \in Contents \cup {None}}
    /\ UNCHANGED <<store, dirs, procs, dest>>

\* Mutated form: the answer of flock is not looked at.
AcquireAnyway(p, step) ==
    /\ pc[p] = "idle"
    /\ lock' = p
    /\ Goto(p, step)
    /\ UNCHANGED <<sources, store, dirs, job, dest>>

\* flock(LOCK_EX | LOCK_NB): a command that finds the lock taken gives up.
Acquire(p, step) ==
    /\ pc[p] = "idle" /\ lock = None
    /\ lock' = p
    /\ Goto(p, step)
    /\ UNCHANGED <<sources, store, dirs, job, dest>>

AcquireForSnapshot(p) == nextId \in Ids /\ Acquire(p, "begin")
AcquireForPrune(p) == Acquire(p, "list")

-----------------------------------------------------------------------------
(* snapshot *)

\* Names the snapshot, makes <id>/.partial and lists the providers' files.
Begin(p) ==
    /\ pc[p] = "begin" /\ nextId \in Ids
    /\ job' = [job EXCEPT ![p].id = nextId,
                          ![p].files = {f \in Files : disk[f] # None}]
    /\ nextId' = nextId + 1
    /\ Goto(p, "copy")
    /\ UNCHANGED <<sources, store, staging, placed, manifest, lock, dest>>

\* The file's content is in the store already.
CopyKnown(p, f) ==
    /\ pc[p] = "copy" /\ f \in job[p].files
    /\ disk[f] \in objects
    /\ job' = [job EXCEPT ![p].files = @ \ {f}, ![p].got = @ \cup {<<f, disk[f]>>}]
    /\ UNCHANGED <<sources, store, dirs, lock, pc, dest>>

\* put: the content is written under a temporary name first.
CopyNew(p, f) ==
    /\ pc[p] = "copy" /\ f \in job[p].files
    /\ disk[f] \in Contents \ objects
    /\ tmps' = tmps \cup {disk[f]}
    /\ job' = [job EXCEPT ![p].files = @ \ {f}, ![p].next = f,
                          ![p].content = disk[f]]
    /\ Goto(p, "put")
    /\ UNCHANGED <<sources, objects, dirs, lock, dest>>

\* ... and renamed to its hash.
PutObject(p) ==
    /\ pc[p] = "put"
    /\ objects' = objects \cup {job[p].content}
    /\ tmps' = tmps \ {job[p].content}
    /\ job' = [job EXCEPT ![p].got = @ \cup {<<job[p].next, job[p].content>>},
                          ![p].next = None, ![p].content = None]
    /\ Goto(p, "copy")
    /\ UNCHANGED <<sources, dirs, lock, dest>>

\* A listed file has gone: the read fails, and the command with it.
CopyGone(p, f) ==
    /\ pc[p] = "copy" /\ f \in job[p].files
    /\ disk[f] = None
    /\ Leave(p)
    /\ UNCHANGED <<sources, store, dirs, dest>>

WriteManifest(p) ==
    /\ pc[p] = "copy" /\ job[p].files = {}
    /\ manifest' = [manifest EXCEPT ![job[p].id] = job[p].got]
    /\ staging' = [staging EXCEPT ![job[p].id] = {"manifest.json"}]
    /\ Goto(p, "summary")
    /\ UNCHANGED <<sources, store, nextId, placed, lock, job, dest>>

WriteSummary(p) ==
    /\ pc[p] = "summary"
    /\ staging' = [staging EXCEPT ![job[p].id] = Names]
    /\ Goto(p, "promote")
    /\ UNCHANGED <<sources, store, nextId, placed, manifest, lock, job, dest>>

\* The names are moved up one at a time, in the order read_dir gives them.
Promote(p, n) ==
    /\ pc[p] = "promote" /\ n \in staging[job[p].id]
    /\ staging' = [staging EXCEPT ![job[p].id] = @ \ {n}]
    /\ placed' = [placed EXCEPT ![job[p].id] = @ \cup {n}]
    /\ UNCHANGED <<sources, store, nextId, manifest, procs, dest>>

SnapshotDone(p) ==
    /\ pc[p] = "promote" /\ staging[job[p].id] = {}
    /\ Leave(p)
    /\ UNCHANGED <<sources, store, dirs, dest>>

-----------------------------------------------------------------------------
(* prune *)

\* The listed snapshots older than the newest KeepLast.
ListStale(p) ==
    /\ pc[p] = "list"
    /\ job' = [job EXCEPT ![p].ids =
                 {i \in Listed : Cardinality({j \in Listed : j > i}) >= KeepLast}]
    /\ Goto(p, "unlink")
    /\ UNCHANGED <<sources, store, dirs, lock, dest>>

\* remove_dir_all takes the newest stale directory away name by name.
Unlink(p, i, n) ==
    /\ pc[p] = "unlink" /\ i \in job[p].ids
    /\ \A j \in job[p].ids : j <= i
    /\ n \in staging[i] \cup placed[i]
    /\ staging' = [staging EXCEPT ![i] = @ \ {n}]
    /\ placed' = [placed EXCEPT ![i] = @ \ {n}]
    /\ UNCHANGED <<sources, store, nextId, manifest, procs, dest>>

Unlinked(p, i) ==
    /\ pc[p] = "unlink" /\ i \in job[p].ids
    /\ staging[i] \cup placed[i] = {}
    /\ job' = [job EXCEPT ![p].ids = @ \ {i}]
    /\ UNCHANGED <<sources, store, dirs, lock, pc, dest>>

\* Mutated forms: the objects of the listed snapshots, of every manifest ever.
CollectListed(p) ==
    /\ pc[p] = "unlink" /\ job[p].ids = {}
    /\ job' = [job EXCEPT ![p].refs = {e[2] : e \in UNION {manifest[i] : i \in Listed}}]
    /\ Goto(p, "sweep")
    /\ UNCHANGED <<sources, store, dirs, lock, dest>>

\* The objects the remaining manifests name.
Collect(p) ==
    /\ pc[p] = "unlink" /\ job[p].ids = {}
    /\ job' = [job EXCEPT ![p].refs = Referenced]
    /\ Goto(p, "sweep")
    /\ UNCHANGED <<sources, store, dirs, lock, dest>>

\* gc removes the objects that are not among them, and temporary files.
Sweep(p, c) ==
    /\ pc[p] = "sweep"
    /\ \/ /\ c \in objects \ job[p].refs
          /\ objects' = objects \ {c}
          /\ UNCHANGED tmps
       \/ /\ c \in tmps
          /\ tmps' = tmps \ {c}
          /\ UNCHANGED objects
    /\ UNCHANGED <<sources, dirs, procs, dest>>

PruneDone(p) ==
    /\ pc[p] = "sweep"
    /\ objects \subseteq job[p].refs /\ tmps = {}
    /\ Leave(p)
    /\ UNCHANGED <<sources, store, dirs, dest>>

-----------------------------------------------------------------------------
(* restore: no lock *)

\* Reads the manifest; the destination must be empty.
StartRestore(p, i) ==
    /\ pc[p] = "idle" /\ i \in Shown
    /\ dest[p] = NoTree
    /\ job' = [job EXCEPT ![p].id = i, ![p].got = manifest[i]]
    /\ Goto(p, "fetch")
    /\ UNCHANGED <<sources, store, dirs, lock, dest>>

Fetch(p, e) ==
    /\ pc[p] = "fetch" /\ e \in job[p].got
    /\ e[2] \in objects
    /\ dest' = [dest EXCEPT ![p][Place[e[1]]] = e[2]]
    /\ job' = [job EXCEPT ![p].got = @ \ {e}]
    /\ UNCHANGED <<sources, store, dirs, lock, pc>>

\* Mutated form: a missing object is skipped.
FetchSkipped(p, e) ==
    /\ pc[p] = "fetch" /\ e \in job[p].got
    /\ e[2] \notin objects
    /\ job' = [job EXCEPT ![p].got = @ \ {e}]
    /\ UNCHANGED <<sources, store, dirs, lock, pc, dest>>

\* A prune beside the restore took the object: the command fails half-way.
FetchMissing(p, e) ==
    /\ pc[p] = "fetch" /\ e \in job[p].got
    /\ e[2] \notin objects
    /\ Leave(p)
    /\ UNCHANGED <<sources, store, dirs, dest>>

RestoreDone(p) ==
    /\ pc[p] = "fetch" /\ job[p].got = {}
    /\ Goto(p, "restored")
    /\ UNCHANGED <<sources, store, dirs, lock, job, dest>>

\* The user is done with the restored tree, or with what a failure left.
ClearTree(p) ==
    /\ pc[p] \in {"idle", "restored"} /\ dest[p] # NoTree
    /\ dest' = [dest EXCEPT ![p] = NoTree]
    /\ Leave(p)
    /\ UNCHANGED <<sources, store, dirs>>

-----------------------------------------------------------------------------
\* The process dies; the system drops its flock.
Crash(p) ==
    /\ pc[p] # "idle"
    /\ Leave(p)
    /\ UNCHANGED <<sources, store, dirs, dest>>

Snapshot(p) ==
    \/ AcquireForSnapshot(p) \/ Begin(p)
    \/ \E f \in Files : CopyKnown(p, f) \/ CopyNew(p, f) \/ CopyGone(p, f)
    \/ PutObject(p) \/ WriteManifest(p) \/ WriteSummary(p)
    \/ \E n \in Names : Promote(p, n)
    \/ SnapshotDone(p)

Prune(p) ==
    \/ AcquireForPrune(p) \/ ListStale(p)
    \/ \E i \in Ids : \E n \in Names : Unlink(p, i, n)
    \/ \E i \in Ids : Unlinked(p, i)
    \/ Collect(p)
    \/ \E c \in Contents : Sweep(p, c)
    \/ PruneDone(p)

Restore(p) ==
    \/ \E i \in Ids : StartRestore(p, i)
    \/ \E e \in Entries : Fetch(p, e) \/ FetchMissing(p, e)
    \/ RestoreDone(p) \/ ClearTree(p)

Next ==
    \/ \E f \in Files : Edit(f)
    \/ \E p \in Procs : Snapshot(p) \/ Prune(p) \/ Restore(p) \/ Crash(p)

Spec == Init /\ [][Next]_vars

-----------------------------------------------------------------------------
(* Properties *)

\* verify finds every object that a readable manifest names, whatever
\* commands run side by side, fail or die (Archive::verify, ArchiveLock).
VerifyClean == VerifyIssues = {}

\* A restore that ends well has written, at each path, a content the snapshot
\* recorded for it, and has left no recorded path out (Archive::restore).
RestoredTrue ==
    \A p \in Procs : pc[p] = "restored" =>
        \A x \in Places :
            LET recorded == {e \in manifest[job[p].id] : Place[e[1]] = x}
            IN  IF recorded = {} THEN dest[p][x] = None
                ELSE \E e \in recorded : dest[p][x] = e[2]

\* A prune that ends well leaves the objects of the readable manifests and
\* nothing else, no temporary file of a dead snapshot either (Archive::prune,
\* ObjectStore::gc).
PruneSweeps ==
    [][\A p \in Procs : PruneDone(p) => objects = Referenced /\ tmps = {}]_vars

\* The archive implements the shelf: on it stands what a restore would write
\* now, so no command takes an object away from under a snapshot, changes one
\* or brings one back.
V == INSTANCE Vault WITH
        shelf <- [i \in Shown |-> {e \in manifest[i] : e[2] \in objects}]
ShelfKept == V!Spec

\* The archive implements the shelf, and a prune that ends well sweeps it clean.
ArchiveKept == ShelfKept /\ PruneSweeps

\* A snapshot that list shows can be read, once no command is at work on the
\* archive: the promotion of its names is atomic, says the comment in snapshot.
ListedShown == lock = None => Listed \subseteq Shown

=============================================================================
