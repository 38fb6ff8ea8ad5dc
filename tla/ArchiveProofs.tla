---------------------------- MODULE ArchiveProofs ----------------------------
(***************************************************************************)
(* Proofs about Archive, for any files, contents, processes and snapshots:  *)
(* readable snapshots keep their objects, restores are true, and the        *)
(* archive implements the shelf of Vault.                                   *)
(***************************************************************************)
EXTENDS Archive, TLAPS

-----------------------------------------------------------------------------
(* The invariant *)

Working == {"begin", "copy", "put", "summary", "promote",
            "list", "unlink", "collect", "sweep"}
Copying == {"copy", "put"}
Naming == {"summary", "promote"}
Fetching == {"fetch", "restored"}

\* Whoever takes a snapshot or prunes has the lock.
LockHeld == \A p \in Procs : pc[p] \in Working => lock = p

\* A command starts with nothing in hand.
FreshStart == \A p \in Procs : pc[p] \in {"idle", "begin"} => job[p] = NoJob

\* Nothing has a name that was not given out yet.
IdsUnused == \A i \in Ids : i >= nextId => staging[i] = {} /\ placed[i] = {}

\* The snapshot being taken is the newest; until it has a manifest it is not
\* there, then its names are in one of the two directories.
NewestTaken ==
    \A p \in Procs :
        LET i == job[p].id
        IN  /\ pc[p] \in Copying \cup Naming => i \in Ids /\ nextId = i + 1
            /\ pc[p] \in Copying => staging[i] = {} /\ placed[i] = {}
            /\ pc[p] = "put" => job[p].next \in Files /\ job[p].content \in Contents
            /\ pc[p] = "summary" => placed[i] = {}
            /\ pc[p] = "promote" => staging[i] \cap placed[i] = {}

\* What it has copied so far is in the store.
CopiedStored ==
    \A p \in Procs :
        /\ pc[p] \in Copying => \A e \in job[p].got : e[2] \in objects
        /\ pc[p] \in Naming => \A e \in manifest[job[p].id] : e[2] \in objects

\* A readable manifest has all its objects.
ManifestsWhole == \A i \in Shown : \A e \in manifest[i] : e[2] \in objects

\* The objects a prune spares are those the readable manifests name.
SparedReferenced == \A p \in Procs : pc[p] = "sweep" => job[p].refs = Referenced

\* A manifest under restoration is not one that is still to be written.
RestoredSettled ==
    \A p \in Procs : pc[p] \in Fetching =>
        /\ job[p].id \in Ids /\ job[p].id < nextId
        /\ job[p].got \subseteq manifest[job[p].id]
        /\ \A q \in Procs : pc[q] \in Copying => job[q].id # job[p].id

\* The tree holds at each path one of the contents fetched for it, if any was.
Fetched(p, x) ==
    {e \in manifest[job[p].id] \ job[p].got : Place[e[1]] = x}
TreeTrue ==
    \A p \in Procs : pc[p] \in Fetching =>
        \A x \in Places :
            IF Fetched(p, x) = {} THEN dest[p][x] = None
            ELSE \E e \in Fetched(p, x) : dest[p][x] = e[2]
DoneFetching == \A p \in Procs : pc[p] = "restored" => job[p].got = {}

SafeInv == /\ LockHeld /\ FreshStart /\ IdsUnused /\ NewestTaken /\ CopiedStored
           /\ ManifestsWhole /\ SparedReferenced
RestoreInv == RestoredSettled /\ TreeTrue /\ DoneFetching
Inv == TypeOK /\ SafeInv /\ RestoreInv

-----------------------------------------------------------------------------
(* Types *)

LEMMA NoJobType == NoJob \in Job
BY BoundsAssumption DEF NoJob, Job

LEMMA TypeInit == Init => TypeOK
BY NoJobType, BoundsAssumption DEF Init, TypeOK, NoTree, Ids, Steps

\* A process goes to another step, or leaves.
LEMMA GotoType ==
    ASSUME TypeOK, NEW p \in Procs, NEW step \in Steps, Goto(p, step)
    PROVE  pc' \in [Procs -> Steps]
BY DEF TypeOK, Goto

LEMMA LeaveType ==
    ASSUME TypeOK, NEW p \in Procs, Leave(p)
    PROVE  /\ pc' \in [Procs -> Steps] /\ job' \in [Procs -> Job]
           /\ lock' \in Procs \cup {None}
BY NoJobType DEF TypeOK, Leave, Goto, Steps

\* Changes of some fields keep the type of a process's locals.
LEMMA JobTypes ==
    ASSUME NEW l \in Job
    PROVE  /\ l.id \in 0..MaxId /\ l.files \subseteq Files /\ l.got \subseteq Entries
           /\ l.ids \subseteq Ids /\ l.refs \subseteq Contents
           /\ l.next \in Files \cup {None} /\ l.content \in Contents \cup {None}
BY DEF Job

LEMMA NamedJob ==
    ASSUME NEW l \in Job, NEW id \in 0..MaxId
    PROVE  /\ \A files \in SUBSET Files : [l EXCEPT !.id = id, !.files = files] \in Job
           /\ \A got \in SUBSET Entries : [l EXCEPT !.id = id, !.got = got] \in Job
BY DEF Job

LEMMA CopiedJob ==
    ASSUME NEW l \in Job, NEW files \in SUBSET Files, NEW got \in SUBSET Entries
    PROVE  [l EXCEPT !.files = files, !.got = got] \in Job
BY DEF Job

LEMMA PutJob ==
    ASSUME NEW l \in Job, NEW got \in SUBSET Entries
    PROVE  [l EXCEPT !.got = got, !.next = None, !.content = None] \in Job
BY DEF Job

LEMMA SnapshotType ==
    ASSUME Inv, NEW p \in Procs, Snapshot(p)
    PROVE  TypeOK'
<1> USE DEF Inv, TypeOK
<1>0. job[p] \in Job
  OBVIOUS
<1>1. CASE AcquireForSnapshot(p)
  BY <1>1, GotoType DEF AcquireForSnapshot, Acquire, Steps, sources, store, dirs
<1>2. CASE Begin(p)
  <2>1. [job[p] EXCEPT !.id = nextId, !.files = {f \in Files : disk[f] # None}] \in Job
    <3>1. nextId \in 0..MaxId
      BY <1>2, BoundsAssumption DEF Begin, Ids
    <3>2. {f \in Files : disk[f] # None} \in SUBSET Files
      OBVIOUS
    <3> QED
      BY <1>0, <3>1, <3>2, NamedJob
  <2>2. nextId + 1 \in 1..(MaxId + 1)
    BY <1>2, BoundsAssumption DEF Begin, Ids
  <2> QED
    BY <1>2, <2>1, <2>2, GotoType DEF Begin, Steps, sources, store
<1>3. ASSUME NEW f \in Files, CopyKnown(p, f) PROVE TypeOK'
  <2>1. disk[f] \in Contents
    BY <1>3 DEF CopyKnown
  <2>2. [job[p] EXCEPT !.files = job[p].files \ {f},
                       !.got = job[p].got \cup {<<f, disk[f]>>}] \in Job
    <3>1. job[p].files \ {f} \in SUBSET Files
      BY <1>0, JobTypes
    <3>2. job[p].got \cup {<<f, disk[f]>>} \in SUBSET Entries
      BY <1>0, <2>1, JobTypes DEF Entries
    <3> QED
      BY <1>0, <3>1, <3>2, CopiedJob
  <2> QED
    BY <1>3, <2>2 DEF CopyKnown, sources, store, dirs
<1>4. ASSUME NEW f \in Files, CopyNew(p, f) PROVE TypeOK'
  <2>1. [job[p] EXCEPT !.files = @ \ {f}, !.next = f, !.content = disk[f]] \in Job
    BY <1>0, <1>4 DEF Job, CopyNew
  <2> QED
    BY <1>4, <2>1, GotoType DEF CopyNew, Steps, sources, dirs
<1>5. ASSUME NEW f \in Files, CopyGone(p, f) PROVE TypeOK'
  BY <1>5, LeaveType DEF CopyGone, sources, store, dirs
<1>6. CASE PutObject(p)
  <2>1. job[p].next \in Files /\ job[p].content \in Contents
    BY <1>6 DEF PutObject, SafeInv, NewestTaken
  <2>2. [job[p] EXCEPT !.got = job[p].got \cup {<<job[p].next, job[p].content>>},
                       !.next = None, !.content = None] \in Job
    <3>1. job[p].got \cup {<<job[p].next, job[p].content>>} \in SUBSET Entries
      BY <1>0, <2>1, JobTypes DEF Entries
    <3> QED
      BY <1>0, <3>1, PutJob
  <2> QED
    BY <1>6, <2>1, <2>2, GotoType DEF PutObject, Steps, sources, dirs
<1>7. CASE WriteManifest(p)
  <2>1. job[p].got \in SUBSET Entries
    BY <1>0, JobTypes
  <2>2. manifest' \in [Ids -> SUBSET Entries]
    BY <1>7, <2>1 DEF WriteManifest
  <2>3. staging' \in [Ids -> SUBSET Names]
    BY <1>7 DEF WriteManifest, Names
  <2> QED
    BY <1>7, <2>2, <2>3, GotoType DEF WriteManifest, Steps, sources, store
<1>10. CASE WriteSummary(p)
  BY <1>10, GotoType DEF WriteSummary, Steps, sources, store
<1>8. ASSUME NEW n \in Names, Promote(p, n) PROVE TypeOK'
  BY <1>8 DEF Promote, sources, store, procs
<1>9. CASE SnapshotDone(p)
  BY <1>9, LeaveType DEF SnapshotDone, sources, store, dirs
<1> QED
  BY <1>1, <1>2, <1>3, <1>4, <1>5, <1>6, <1>7, <1>8, <1>9, <1>10 DEF Snapshot

LEMMA PruneType ==
    ASSUME Inv, NEW p \in Procs, Prune(p)
    PROVE  TypeOK'
<1> USE DEF Inv, TypeOK
<1>0. job[p] \in Job
  OBVIOUS
<1>1. CASE AcquireForPrune(p)
  BY <1>1, GotoType DEF AcquireForPrune, Acquire, Steps, sources, store, dirs
<1>2. CASE ListStale(p)
  <2>1. [job[p] EXCEPT !.ids = {i \in Listed : Cardinality({j \in Listed : j > i}) >= KeepLast}]
           \in Job
    BY <1>0 DEF Job, Listed
  <2> QED
    BY <1>2, <2>1, GotoType DEF ListStale, Steps, sources, store, dirs
<1>3. ASSUME NEW i \in Ids, NEW n \in Names, Unlink(p, i, n) PROVE TypeOK'
  BY <1>3 DEF Unlink, sources, store, procs
<1>4. ASSUME NEW i \in Ids, Unlinked(p, i) PROVE TypeOK'
  <2>1. [job[p] EXCEPT !.ids = @ \ {i}] \in Job
    BY <1>0 DEF Job
  <2> QED
    BY <1>4, <2>1 DEF Unlinked, sources, store, dirs
<1>5. CASE Collect(p)
  <2>1. Referenced \subseteq Contents
    BY DEF Referenced, Shown, Entries
  <2>2. [job[p] EXCEPT !.refs = Referenced] \in Job
    BY <1>0, <2>1 DEF Job
  <2> QED
    BY <1>5, <2>2, GotoType DEF Collect, Steps, sources, store, dirs
<1>6. ASSUME NEW c \in Contents, Sweep(p, c) PROVE TypeOK'
  BY <1>6 DEF Sweep, sources, dirs, procs
<1>7. CASE PruneDone(p)
  BY <1>7, LeaveType DEF PruneDone, sources, store, dirs
<1> QED
  BY <1>1, <1>2, <1>3, <1>4, <1>5, <1>6, <1>7 DEF Prune

LEMMA RestoreType ==
    ASSUME Inv, NEW p \in Procs, Restore(p) \/ Crash(p)
    PROVE  TypeOK'
<1> USE DEF Inv, TypeOK
<1>0. job[p] \in Job
  OBVIOUS
<1>1. ASSUME NEW i \in Ids, StartRestore(p, i) PROVE TypeOK'
  <2>1. [job[p] EXCEPT !.id = i, !.got = manifest[i]] \in Job
    <3>1. i \in 0..MaxId /\ manifest[i] \in SUBSET Entries
      BY BoundsAssumption DEF Ids
    <3> QED
      BY <1>0, <3>1, NamedJob
  <2> QED
    BY <1>1, <2>1, GotoType DEF StartRestore, Steps, sources, store, dirs
<1>2. ASSUME NEW e \in Entries, Fetch(p, e) PROVE TypeOK'
  <2>1. [job[p] EXCEPT !.got = @ \ {e}] \in Job
    BY <1>0 DEF Job
  <2>2. e[1] \in Files /\ e[2] \in Contents /\ Place[e[1]] \in Places
    BY PlaceAssumption DEF Entries
  <2> QED
    BY <1>2, <2>1, <2>2 DEF Fetch, sources, store, dirs
<1>3. ASSUME NEW e \in Entries, FetchMissing(p, e) PROVE TypeOK'
  BY <1>3, LeaveType DEF FetchMissing, sources, store, dirs
<1>4. CASE RestoreDone(p)
  BY <1>4, GotoType DEF RestoreDone, Steps, sources, store, dirs
<1>5. CASE ClearTree(p)
  BY <1>5, LeaveType DEF ClearTree, sources, store, dirs, NoTree
<1>6. CASE Crash(p)
  BY <1>6, LeaveType DEF Crash, sources, store, dirs
<1> QED
  BY <1>1, <1>2, <1>3, <1>4, <1>5, <1>6 DEF Restore

LEMMA EditType ==
    ASSUME TypeOK, NEW f \in Files, Edit(f)
    PROVE  TypeOK'
BY BoundsAssumption DEF TypeOK, Edit, store, dirs, procs

-----------------------------------------------------------------------------
(* Steps that keep the invariant *)

\* Two processes are not both at work on the archive.
LEMMA OneWorks ==
    ASSUME LockHeld, NEW p \in Procs, NEW q \in Procs,
           pc[p] \in Working, pc[q] \in Working
    PROVE  p = q
BY DEF LockHeld

LEMMA SameDirs ==
    ASSUME UNCHANGED dirs
    PROVE  Shown' = Shown /\ Referenced' = Referenced
BY DEF dirs, Shown, Referenced

\* A command that ends takes nothing with it but its locals and the lock.
LEMMA LeaveKeeps ==
    ASSUME Inv, NEW p \in Procs, Leave(p), UNCHANGED <<store, dirs>>,
           \A q \in Procs \ {p} : dest'[q] = dest[q]
    PROVE  SafeInv' /\ RestoreInv'
<1> USE DEF Inv, SafeInv, RestoreInv, TypeOK
<1>1. /\ pc'[p] = "idle" /\ job'[p] = NoJob
      /\ \A q \in Procs \ {p} : pc'[q] = pc[q] /\ job'[q] = job[q]
  BY DEF Leave, Goto
<1>2. LockHeld'
  BY <1>1, NoneAssumption DEF LockHeld, Leave, Working
<1>3. FreshStart'
  BY <1>1 DEF FreshStart
<1>4. IdsUnused'
  BY DEF IdsUnused, dirs
<1>5. NewestTaken'
  BY <1>1 DEF NewestTaken, Copying, Naming, dirs
<1>6. CopiedStored'
  BY <1>1 DEF CopiedStored, Copying, Naming, dirs, store
<1>7. ManifestsWhole'
  BY SameDirs DEF ManifestsWhole, dirs, store
<1>8. SparedReferenced'
  BY <1>1, SameDirs DEF SparedReferenced
<1>9. RestoredSettled'
  BY <1>1 DEF RestoredSettled, Fetching, Copying, dirs
<1>10. TreeTrue'
  BY <1>1 DEF TreeTrue, Fetched, Fetching, dirs
<1>11. DoneFetching'
  BY <1>1 DEF DoneFetching
<1> QED
  BY <1>2, <1>3, <1>4, <1>5, <1>6, <1>7, <1>8, <1>9, <1>10, <1>11

\* What is under restoration stays as it is.
LEMMA SameTrees ==
    ASSUME TreeTrue, \A q \in Procs : job'[q] = job[q],
           \A q \in Procs : pc'[q] \in Fetching => pc[q] \in Fetching,
           UNCHANGED <<manifest, dest>>
    PROVE  TreeTrue'
BY DEF TreeTrue, Fetched

\* A step of the tools.
LEMMA EditKeeps ==
    ASSUME Inv, UNCHANGED <<store, dirs, procs, dest>>
    PROVE  SafeInv' /\ RestoreInv'
<1> USE DEF Inv, SafeInv, RestoreInv, store, dirs, procs
<1>1. (LockHeld /\ FreshStart /\ IdsUnused /\ NewestTaken /\ CopiedStored)'
  BY DEF LockHeld, FreshStart, IdsUnused, NewestTaken, CopiedStored
<1>2. (ManifestsWhole /\ SparedReferenced)'
  BY SameDirs DEF ManifestsWhole, SparedReferenced
<1>3. RestoreInv'
  BY DEF RestoredSettled, TreeTrue, Fetched, DoneFetching
<1> QED
  BY <1>1, <1>2, <1>3

LEMMA AcquireKeeps ==
    ASSUME Inv, NEW p \in Procs, AcquireForSnapshot(p) \/ AcquireForPrune(p)
    PROVE  SafeInv' /\ RestoreInv'
<1> USE DEF Inv, SafeInv, RestoreInv, TypeOK, AcquireForSnapshot, AcquireForPrune,
            Acquire, Goto
<1>1. /\ pc'[p] \in {"begin", "list"} /\ job'[p] = NoJob
      /\ \A q \in Procs : job'[q] = job[q]
      /\ \A q \in Procs \ {p} : pc'[q] = pc[q]
  BY DEF FreshStart
<1>2. UNCHANGED <<objects, tmps, nextId, staging, placed, manifest, dest>>
  BY DEF store, dirs
<1>3. LockHeld'
  BY <1>1, NoneAssumption DEF LockHeld, Working
<1>4. (FreshStart /\ IdsUnused)'
  BY <1>1, <1>2 DEF FreshStart, IdsUnused
<1>5. NewestTaken'
  BY <1>1, <1>2 DEF NewestTaken, Copying, Naming
<1>6. CopiedStored'
  BY <1>1, <1>2 DEF CopiedStored, Copying, Naming
<1>7. (ManifestsWhole /\ SparedReferenced)'
  BY <1>1, <1>2, SameDirs DEF ManifestsWhole, SparedReferenced, dirs
<1>8. RestoredSettled'
  BY <1>1, <1>2 DEF RestoredSettled, Fetching, Copying
<1>9. TreeTrue'
  <2>1. \A q \in Procs : pc'[q] \in Fetching => pc[q] \in Fetching
    BY <1>1 DEF Fetching
  <2> QED
    BY <1>1, <1>2, <2>1, SameTrees
<1>10. DoneFetching'
  BY <1>1 DEF DoneFetching
<1> QED
  BY <1>3, <1>4, <1>5, <1>6, <1>7, <1>8, <1>9, <1>10

\* What a step of a process that holds the lock cannot disturb: restores and
\* the processes that do nothing, unless it writes a manifest.
LEMMA WorkKeepsRestores ==
    ASSUME Inv, NEW p \in Procs, pc[p] \in Working, pc'[p] \in Working,
           \A q \in Procs \ {p} : pc'[q] = pc[q] /\ job'[q] = job[q],
           pc'[p] \in Copying => pc[p] \in Copying /\ job'[p].id = job[p].id,
           UNCHANGED <<nextId, manifest, dest>>
    PROVE  RestoreInv'
<1> USE DEF Inv, RestoreInv
<1>0. pc'[p] \notin Fetching /\ pc'[p] \notin {"idle", "restored"}
  BY DEF Working, Fetching
<1>1. RestoredSettled'
  BY <1>0 DEF RestoredSettled
<1>2. TreeTrue'
  BY <1>0 DEF TreeTrue, Fetched
<1>3. DoneFetching'
  BY <1>0 DEF DoneFetching
<1> QED
  BY <1>1, <1>2, <1>3

LEMMA WorkKeepsLock ==
    ASSUME Inv, NEW p \in Procs, pc[p] \in Working, pc'[p] \in Working \ {"begin"},
           \A q \in Procs \ {p} : pc'[q] = pc[q] /\ job'[q] = job[q],
           lock' = lock
    PROVE  /\ LockHeld' /\ FreshStart'
           /\ lock = p /\ \A q \in Procs \ {p} : pc[q] \notin Working
<1> USE DEF Inv, SafeInv
<1>1. lock = p /\ \A q \in Procs \ {p} : pc[q] \notin Working
  BY DEF LockHeld
<1>2. LockHeld'
  BY <1>1 DEF LockHeld
<1>3. pc'[p] \notin {"idle", "begin"}
  BY DEF Working
<1>4. FreshStart'
  BY <1>3 DEF FreshStart
<1> QED
  BY <1>1, <1>2, <1>4

LEMMA BeginKeeps ==
    ASSUME Inv, NEW p \in Procs, Begin(p)
    PROVE  SafeInv' /\ RestoreInv'
<1> USE DEF Inv, SafeInv, TypeOK, Begin
<1>1. /\ pc[p] = "begin" /\ pc'[p] = "copy"
      /\ job'[p].id = nextId /\ job'[p].got = {}
      /\ \A q \in Procs \ {p} : pc'[q] = pc[q] /\ job'[q] = job[q]
  <2>1. job[p] = NoJob
    BY DEF FreshStart
  <2> QED
    BY <2>1 DEF Goto, NoJob
<1>2. /\ nextId' = nextId + 1 /\ nextId \in Ids /\ nextId \in Nat
      /\ UNCHANGED <<objects, tmps, staging, placed, manifest, lock, dest>>
  BY DEF store
<1>3. LockHeld' /\ FreshStart' /\ \A q \in Procs \ {p} : pc[q] \notin Working
  BY <1>1, <1>2, WorkKeepsLock DEF Working
<1>4. IdsUnused'
  BY <1>2, BoundsAssumption DEF IdsUnused, Ids
<1>5. NewestTaken'
  BY <1>1, <1>2, <1>3, BoundsAssumption DEF NewestTaken, IdsUnused, Copying, Naming, Working, Ids
<1>6. CopiedStored'
  BY <1>1, <1>2 DEF CopiedStored, Copying, Naming
<1>7. Shown' = Shown /\ Referenced' = Referenced
  BY <1>2 DEF Shown, Referenced
<1>8. ManifestsWhole'
  BY <1>2, <1>7 DEF ManifestsWhole
<1>9. SparedReferenced'
  BY <1>1, <1>7 DEF SparedReferenced
<1>10. RestoredSettled'
  BY <1>1, <1>2, BoundsAssumption DEF RestoreInv, RestoredSettled, Fetching, Ids
<1>11. TreeTrue'
  BY <1>1, <1>2 DEF RestoreInv, TreeTrue, Fetched, Fetching
<1>12. DoneFetching'
  BY <1>1 DEF RestoreInv, DoneFetching
<1> QED
  BY <1>3, <1>4, <1>5, <1>6, <1>8, <1>9, <1>10, <1>11, <1>12 DEF RestoreInv

LEMMA CopyKnownKeeps ==
    ASSUME Inv, NEW p \in Procs, NEW f \in Files, CopyKnown(p, f)
    PROVE  SafeInv' /\ RestoreInv'
<1> USE DEF Inv, SafeInv, TypeOK, CopyKnown
<1>0. job[p] \in Job
  OBVIOUS
<1>1. /\ pc[p] = "copy" /\ pc' = pc
      /\ job'[p].id = job[p].id
      /\ job'[p].got = job[p].got \cup {<<f, disk[f]>>}
      /\ \A q \in Procs \ {p} : job'[q] = job[q]
  BY <1>0 DEF Job
<1>2. /\ disk[f] \in objects
      /\ UNCHANGED <<objects, tmps, nextId, staging, placed, manifest, lock, dest>>
  BY DEF store, dirs
<1>3. LockHeld' /\ FreshStart'
  BY <1>1, <1>2, WorkKeepsLock DEF Working
<1>4. IdsUnused'
  BY <1>2 DEF IdsUnused
<1>5. NewestTaken'
  BY <1>1, <1>2 DEF NewestTaken
<1>6. CopiedStored'
  BY <1>1, <1>2 DEF CopiedStored, Copying, Naming
<1>7. Shown' = Shown /\ Referenced' = Referenced
  BY <1>2 DEF Shown, Referenced
<1>8. ManifestsWhole'
  BY <1>2, <1>7 DEF ManifestsWhole
<1>9. SparedReferenced'
  BY <1>1, <1>7 DEF SparedReferenced
<1>10. RestoreInv'
  BY <1>1, <1>2, WorkKeepsRestores DEF Working
<1> QED
  BY <1>3, <1>4, <1>5, <1>6, <1>8, <1>9, <1>10

LEMMA CopyNewKeeps ==
    ASSUME Inv, NEW p \in Procs, NEW f \in Files, CopyNew(p, f)
    PROVE  SafeInv' /\ RestoreInv'
<1> USE DEF Inv, SafeInv, TypeOK, CopyNew
<1>0. job[p] \in Job
  OBVIOUS
<1>1. /\ pc[p] = "copy" /\ pc'[p] = "put"
      /\ job'[p].id = job[p].id /\ job'[p].got = job[p].got
      /\ job'[p].next = f /\ job'[p].content = disk[f]
      /\ \A q \in Procs \ {p} : pc'[q] = pc[q] /\ job'[q] = job[q]
  BY <1>0 DEF Job, Goto
<1>2. /\ disk[f] \in Contents
      /\ UNCHANGED <<objects, nextId, staging, placed, manifest, lock, dest>>
  BY DEF dirs
<1>3. LockHeld' /\ FreshStart'
  BY <1>1, <1>2, WorkKeepsLock DEF Working
<1>4. IdsUnused'
  BY <1>2 DEF IdsUnused
<1>5. NewestTaken'
  BY <1>1, <1>2 DEF NewestTaken, Copying, Naming
<1>6. CopiedStored'
  BY <1>1, <1>2 DEF CopiedStored, Copying, Naming
<1>7. Shown' = Shown /\ Referenced' = Referenced
  BY <1>2 DEF Shown, Referenced
<1>8. ManifestsWhole'
  BY <1>2, <1>7 DEF ManifestsWhole
<1>9. SparedReferenced'
  BY <1>1, <1>7 DEF SparedReferenced
<1>10. RestoreInv'
  BY <1>1, <1>2, WorkKeepsRestores DEF Working, Copying
<1> QED
  BY <1>3, <1>4, <1>5, <1>6, <1>8, <1>9, <1>10

LEMMA PutObjectKeeps ==
    ASSUME Inv, NEW p \in Procs, PutObject(p)
    PROVE  SafeInv' /\ RestoreInv'
<1> USE DEF Inv, SafeInv, TypeOK, PutObject
<1>0. job[p] \in Job
  OBVIOUS
<1>1. /\ pc[p] = "put" /\ pc'[p] = "copy"
      /\ job'[p].id = job[p].id
      /\ job'[p].got = job[p].got \cup {<<job[p].next, job[p].content>>}
      /\ \A q \in Procs \ {p} : pc'[q] = pc[q] /\ job'[q] = job[q]
  BY <1>0 DEF Job, Goto
<1>2. /\ objects' = objects \cup {job[p].content}
      /\ UNCHANGED <<nextId, staging, placed, manifest, lock, dest>>
  BY DEF dirs
<1>3. LockHeld' /\ FreshStart'
  BY <1>1, <1>2, WorkKeepsLock DEF Working
<1>4. IdsUnused'
  BY <1>2 DEF IdsUnused
<1>5. NewestTaken'
  BY <1>1, <1>2 DEF NewestTaken, Copying, Naming
<1>6. CopiedStored'
  BY <1>1, <1>2 DEF CopiedStored, Copying, Naming
<1>7. Shown' = Shown /\ Referenced' = Referenced
  BY <1>2 DEF Shown, Referenced
<1>8. ManifestsWhole'
  BY <1>2, <1>7 DEF ManifestsWhole
<1>9. SparedReferenced'
  BY <1>1, <1>7 DEF SparedReferenced
<1>10. RestoreInv'
  BY <1>1, <1>2, WorkKeepsRestores DEF Working, Copying
<1> QED
  BY <1>3, <1>4, <1>5, <1>6, <1>8, <1>9, <1>10

LEMMA WriteManifestKeeps ==
    ASSUME Inv, NEW p \in Procs, WriteManifest(p)
    PROVE  SafeInv' /\ RestoreInv'
<1> USE DEF Inv, SafeInv, TypeOK, WriteManifest
<1>1. /\ pc[p] = "copy" /\ pc'[p] = "summary" /\ job' = job
      /\ \A q \in Procs \ {p} : pc'[q] = pc[q]
  BY DEF Goto
<1>2. /\ UNCHANGED <<objects, tmps, nextId, placed, lock, dest>>
      /\ job[p].id \in Ids /\ nextId = job[p].id + 1
      /\ placed[job[p].id] = {}
      /\ manifest'[job[p].id] = job[p].got
      /\ \A i \in Ids \ {job[p].id} : manifest'[i] = manifest[i] /\ staging'[i] = staging[i]
  BY <1>1 DEF store, NewestTaken, Copying
<1>3. LockHeld' /\ FreshStart' /\ \A q \in Procs \ {p} : pc[q] \notin Working
  BY <1>1, <1>2, WorkKeepsLock DEF Working
<1>4. IdsUnused'
  BY <1>2, BoundsAssumption DEF IdsUnused, Ids
<1>5. NewestTaken'
  BY <1>1, <1>2, <1>3 DEF NewestTaken, Copying, Naming, Working
<1>6. CopiedStored'
  BY <1>1, <1>2, <1>3 DEF CopiedStored, Copying, Naming, Working
<1>7. Shown' = Shown /\ \A i \in Shown : manifest'[i] = manifest[i]
  BY <1>2 DEF Shown
<1>8. ManifestsWhole'
  BY <1>2, <1>7 DEF ManifestsWhole
<1>9. SparedReferenced'
  BY <1>1, <1>3 DEF SparedReferenced, Working
<1>10. \A q \in Procs : pc'[q] \in Fetching =>
           /\ q # p /\ job[q].id # job[p].id /\ job[q].id \in Ids
           /\ manifest'[job[q].id] = manifest[job[q].id]
  BY <1>1, <1>2 DEF RestoreInv, RestoredSettled, Fetching, Copying
<1>11. RestoredSettled'
  BY <1>1, <1>2, <1>10 DEF RestoreInv, RestoredSettled, Copying
<1>12. TreeTrue'
  BY <1>1, <1>2, <1>10 DEF RestoreInv, TreeTrue, Fetched
<1>13. DoneFetching'
  BY <1>1 DEF RestoreInv, DoneFetching
<1> QED
  BY <1>3, <1>4, <1>5, <1>6, <1>8, <1>9, <1>11, <1>12, <1>13 DEF RestoreInv

LEMMA WriteSummaryKeeps ==
    ASSUME Inv, NEW p \in Procs, WriteSummary(p)
    PROVE  SafeInv' /\ RestoreInv'
<1> USE DEF Inv, SafeInv, TypeOK, WriteSummary
<1>1. /\ pc[p] = "summary" /\ pc'[p] = "promote" /\ job' = job
      /\ \A q \in Procs \ {p} : pc'[q] = pc[q]
  BY DEF Goto
<1>2. /\ UNCHANGED <<objects, tmps, nextId, placed, manifest, lock, dest>>
      /\ job[p].id \in Ids /\ nextId = job[p].id + 1
      /\ placed[job[p].id] = {}
      /\ \A i \in Ids \ {job[p].id} : staging'[i] = staging[i]
  BY <1>1 DEF store, NewestTaken, Copying, Naming
<1>3. LockHeld' /\ FreshStart' /\ \A q \in Procs \ {p} : pc[q] \notin Working
  BY <1>1, <1>2, WorkKeepsLock DEF Working
<1>4. IdsUnused'
  BY <1>2, BoundsAssumption DEF IdsUnused, Ids
<1>5. NewestTaken'
  BY <1>1, <1>2, <1>3 DEF NewestTaken, Copying, Naming, Working
<1>6. CopiedStored'
  BY <1>1, <1>2 DEF CopiedStored, Copying, Naming
<1>7. Shown' = Shown /\ Referenced' = Referenced
  BY <1>2 DEF Shown, Referenced
<1>8. ManifestsWhole'
  BY <1>2, <1>7 DEF ManifestsWhole
<1>9. SparedReferenced'
  BY <1>1, <1>7 DEF SparedReferenced
<1>10. RestoreInv'
  BY <1>1, <1>2, WorkKeepsRestores DEF Working, Copying
<1> QED
  BY <1>3, <1>4, <1>5, <1>6, <1>8, <1>9, <1>10

LEMMA PromoteKeeps ==
    ASSUME Inv, NEW p \in Procs, NEW n \in Names, Promote(p, n)
    PROVE  SafeInv' /\ RestoreInv'
<1> USE DEF Inv, SafeInv, TypeOK, Promote
<1>1. pc[p] = "promote" /\ pc' = pc /\ job' = job
  BY DEF procs
<1>2. /\ UNCHANGED <<objects, tmps, nextId, manifest, lock, dest>>
      /\ job[p].id \in Ids /\ nextId = job[p].id + 1
      /\ staging'[job[p].id] = staging[job[p].id] \ {n}
      /\ placed'[job[p].id] = placed[job[p].id] \cup {n}
      /\ \A i \in Ids \ {job[p].id} : staging'[i] = staging[i] /\ placed'[i] = placed[i]
  BY <1>1 DEF store, procs, NewestTaken, Copying, Naming
<1>3. LockHeld' /\ FreshStart' /\ \A q \in Procs \ {p} : pc[q] \notin Working
  BY <1>1, <1>2, WorkKeepsLock DEF Working
<1>4. IdsUnused'
  BY <1>2, BoundsAssumption DEF IdsUnused, Ids
<1>5. NewestTaken'
  <2>1. staging'[job[p].id] \cap placed'[job[p].id] = {}
    BY <1>1, <1>2 DEF NewestTaken
  <2> QED
    BY <1>1, <1>2, <1>3, <2>1 DEF NewestTaken, Copying, Naming, Working
<1>6. CopiedStored'
  BY <1>1, <1>2 DEF CopiedStored
<1>7. ManifestsWhole'
  <2>1. \A i \in Shown' : i \in Shown \/ i = job[p].id
    BY <1>2 DEF Shown
  <2> QED
    BY <1>1, <1>2, <2>1 DEF ManifestsWhole, CopiedStored, Naming
<1>8. SparedReferenced'
  BY <1>1, <1>3 DEF SparedReferenced, Working
<1>9. RestoreInv'
  BY <1>1, <1>2, WorkKeepsRestores DEF Working
<1> QED
  BY <1>3, <1>4, <1>5, <1>6, <1>7, <1>8, <1>9

-----------------------------------------------------------------------------
LEMMA PruneKeepsOthers ==
    ASSUME Inv, NEW p \in Procs, pc[p] \in {"list", "unlink", "sweep"},
           pc'[p] \in {"list", "unlink", "sweep"},
           \A q \in Procs \ {p} : pc'[q] = pc[q] /\ job'[q] = job[q],
           UNCHANGED <<nextId, manifest, lock, dest>>
    PROVE  /\ LockHeld' /\ FreshStart' /\ NewestTaken' /\ CopiedStored' /\ RestoreInv'
           /\ \A q \in Procs : pc'[q] = "sweep" => q = p
<1> USE DEF Inv, SafeInv
<1>1. /\ LockHeld' /\ FreshStart' /\ \A q \in Procs \ {p} : pc[q] \notin Working
  BY WorkKeepsLock DEF Working
<1>2. NewestTaken'
  BY <1>1 DEF NewestTaken, Copying, Naming, Working
<1>3. CopiedStored'
  BY <1>1 DEF CopiedStored, Copying, Naming, Working
<1>4. RestoreInv'
  BY WorkKeepsRestores DEF Working, Copying
<1>5. \A q \in Procs : pc'[q] = "sweep" => q = p
  BY <1>1 DEF Working
<1> QED
  BY <1>1, <1>2, <1>3, <1>4, <1>5

LEMMA ListUnlinkedCollectKeep ==
    ASSUME Inv, NEW p \in Procs,
           ListStale(p) \/ (\E i \in Ids : Unlinked(p, i)) \/ Collect(p)
    PROVE  SafeInv' /\ RestoreInv'
<1> USE DEF Inv, SafeInv, TypeOK
<1>0. job[p] \in Job
  OBVIOUS
<1>1. /\ pc[p] \in {"list", "unlink"} /\ pc'[p] \in {"unlink", "sweep"}
      /\ \A q \in Procs \ {p} : pc'[q] = pc[q] /\ job'[q] = job[q]
  BY DEF ListStale, Unlinked, Collect, Goto
<1>2. UNCHANGED <<objects, tmps, nextId, staging, placed, manifest, lock, dest>>
  BY DEF ListStale, Unlinked, Collect, store, dirs
<1>3. /\ LockHeld' /\ FreshStart' /\ NewestTaken' /\ CopiedStored' /\ RestoreInv'
      /\ \A q \in Procs : pc'[q] = "sweep" => q = p
  BY <1>1, <1>2, PruneKeepsOthers
<1>4. IdsUnused'
  BY <1>2 DEF IdsUnused
<1>5. Shown' = Shown /\ Referenced' = Referenced
  BY <1>2 DEF Shown, Referenced
<1>6. ManifestsWhole'
  BY <1>2, <1>5 DEF ManifestsWhole
<1>7. SparedReferenced'
  <2>1. pc'[p] = "sweep" => Collect(p)
    BY <1>1 DEF ListStale, Unlinked, Goto
  <2>2. Collect(p) => job'[p].refs = Referenced
    BY <1>0 DEF Collect, Job
  <2> QED
    BY <1>3, <1>5, <2>1, <2>2 DEF SparedReferenced
<1> QED
  BY <1>3, <1>4, <1>6, <1>7

LEMMA UnlinkKeeps ==
    ASSUME Inv, NEW p \in Procs, NEW i \in Ids, NEW n \in Names, Unlink(p, i, n)
    PROVE  SafeInv' /\ RestoreInv'
<1> USE DEF Inv, SafeInv, TypeOK, Unlink
<1>1. pc[p] = "unlink" /\ pc' = pc /\ job' = job
  BY DEF procs
<1>2. /\ UNCHANGED <<objects, nextId, manifest, lock, dest>>
      /\ \A j \in Ids : staging'[j] \subseteq staging[j] /\ placed'[j] \subseteq placed[j]
  BY DEF store, procs
<1>3. /\ LockHeld' /\ FreshStart' /\ NewestTaken' /\ CopiedStored' /\ RestoreInv'
      /\ \A q \in Procs : pc'[q] = "sweep" => q = p
  BY <1>1, <1>2, PruneKeepsOthers
<1>4. IdsUnused'
  BY <1>2 DEF IdsUnused
<1>5. ManifestsWhole'
  BY <1>2 DEF ManifestsWhole, Shown
<1>6. SparedReferenced'
  BY <1>1, <1>3 DEF SparedReferenced
<1> QED
  BY <1>3, <1>4, <1>5, <1>6

LEMMA SweepKeeps ==
    ASSUME Inv, NEW p \in Procs, NEW c \in Contents, Sweep(p, c)
    PROVE  SafeInv' /\ RestoreInv'
<1> USE DEF Inv, SafeInv, TypeOK, Sweep
<1>1. pc[p] = "sweep" /\ pc' = pc /\ job' = job
  BY DEF procs
<1>2. UNCHANGED <<nextId, staging, placed, manifest, lock, dest>>
  BY DEF dirs, procs
<1>3. LockHeld' /\ FreshStart' /\ NewestTaken' /\ CopiedStored' /\ RestoreInv'
  BY <1>1, <1>2, PruneKeepsOthers
<1>4. IdsUnused'
  BY <1>2 DEF IdsUnused
<1>5. Shown' = Shown /\ Referenced' = Referenced
  BY <1>2 DEF Shown, Referenced
<1>6. ManifestsWhole'
  <2>1. \A j \in Shown : \A e \in manifest[j] : e[2] \in job[p].refs
    BY <1>1 DEF SparedReferenced, Referenced
  <2>2. objects \cap job[p].refs \subseteq objects'
    OBVIOUS
  <2> QED
    BY <1>2, <1>5, <2>1, <2>2 DEF ManifestsWhole
<1>7. SparedReferenced'
  BY <1>1, <1>5 DEF SparedReferenced
<1> QED
  BY <1>3, <1>4, <1>6, <1>7

-----------------------------------------------------------------------------
\* A restore touches neither the store nor the directories, and has no lock.
LEMMA RestoreKeepsSafe ==
    ASSUME Inv, NEW p \in Procs, pc'[p] \in Fetching,
           \A q \in Procs \ {p} : pc'[q] = pc[q] /\ job'[q] = job[q],
           UNCHANGED <<objects, nextId, staging, placed, manifest, lock>>
    PROVE  SafeInv'
<1> USE DEF Inv, SafeInv
<1>0. pc'[p] \notin Working \cup Copying \cup Naming \cup {"idle", "begin", "sweep"}
  BY DEF Fetching, Working, Copying, Naming
<1>1. LockHeld' /\ FreshStart' /\ IdsUnused'
  BY <1>0 DEF LockHeld, FreshStart, IdsUnused
<1>2. NewestTaken'
  BY <1>0 DEF NewestTaken, Copying, Naming
<1>3. CopiedStored'
  BY <1>0 DEF CopiedStored
<1>4. ManifestsWhole'
  BY DEF ManifestsWhole, Shown
<1>5. Referenced' = Referenced
  BY DEF Referenced, Shown
<1>6. SparedReferenced'
  BY <1>0, <1>5 DEF SparedReferenced
<1> QED
  BY <1>1, <1>2, <1>3, <1>4, <1>6

LEMMA StartRestoreKeeps ==
    ASSUME Inv, NEW p \in Procs, NEW i \in Ids, StartRestore(p, i)
    PROVE  SafeInv' /\ RestoreInv'
<1> USE DEF Inv, TypeOK, StartRestore
<1>0. job[p] \in Job
  OBVIOUS
<1>1. /\ pc[p] = "idle" /\ pc'[p] = "fetch"
      /\ job'[p].id = i /\ job'[p].got = manifest[i]
      /\ \A q \in Procs \ {p} : pc'[q] = pc[q] /\ job'[q] = job[q]
  BY <1>0 DEF Goto, Job
<1>2. UNCHANGED <<objects, nextId, staging, placed, manifest, lock, dest>>
  BY DEF store, dirs
<1>3. SafeInv'
  BY <1>1, <1>2, RestoreKeepsSafe DEF Fetching
<1>4. i < nextId /\ placed[i] # {}
  BY BoundsAssumption DEF Shown, SafeInv, IdsUnused, Ids
<1>5. RestoredSettled'
  BY <1>1, <1>2, <1>4 DEF RestoreInv, RestoredSettled, SafeInv, NewestTaken, Fetching, Copying
<1>6. TreeTrue'
  <2>1. ASSUME NEW x \in Places PROVE Fetched(p, x)' = {} /\ dest'[p][x] = None
    BY <1>1, <1>2 DEF Fetched, NoTree
  <2>2. ASSUME NEW q \in Procs \ {p}, NEW x \in Places PROVE Fetched(q, x)' = Fetched(q, x)
    BY <1>1, <1>2 DEF Fetched
  <2>3. ASSUME NEW q \in Procs \ {p}, pc'[q] \in Fetching, NEW x \in Places
        PROVE  IF Fetched(q, x)' = {} THEN dest'[q][x] = None
               ELSE \E e \in Fetched(q, x)' : dest'[q][x] = e[2]
    BY <1>1, <1>2, <2>2, <2>3 DEF RestoreInv, TreeTrue
  <2> QED
    BY <2>1, <2>3 DEF TreeTrue
<1>7. DoneFetching'
  BY <1>1 DEF RestoreInv, DoneFetching
<1> QED
  BY <1>3, <1>5, <1>6, <1>7 DEF RestoreInv

LEMMA FetchKeeps ==
    ASSUME Inv, NEW p \in Procs, NEW e \in Entries, Fetch(p, e)
    PROVE  SafeInv' /\ RestoreInv'
<1> USE DEF Inv, TypeOK, Fetch
<1>0. job[p] \in Job
  OBVIOUS
<1>1. /\ pc[p] = "fetch" /\ pc' = pc
      /\ job'[p].id = job[p].id /\ job'[p].got = job[p].got \ {e}
      /\ \A q \in Procs \ {p} : job'[q] = job[q] /\ dest'[q] = dest[q]
  BY <1>0 DEF Job
<1>2. UNCHANGED <<objects, nextId, staging, placed, manifest, lock>>
  BY DEF store, dirs
<1>3. SafeInv'
  BY <1>1, <1>2, RestoreKeepsSafe DEF Fetching
<1>4. e \in manifest[job[p].id] /\ e \in job[p].got
  BY <1>1 DEF RestoreInv, RestoredSettled, Fetching
<1>5. RestoredSettled'
  BY <1>1, <1>2 DEF RestoreInv, RestoredSettled, Copying
<1>6. TreeTrue'
  <2>1. Place[e[1]] \in Places
    BY PlaceAssumption DEF Entries
  <2>2. ASSUME NEW x \in Places, x # Place[e[1]]
        PROVE  Fetched(p, x)' = Fetched(p, x) /\ dest'[p][x] = dest[p][x]
    BY <1>1, <1>2, <2>1, <2>2 DEF Fetched
  <2>3. e \in Fetched(p, Place[e[1]])' /\ dest'[p][Place[e[1]]] = e[2]
    BY <1>1, <1>2, <1>4, <2>1 DEF Fetched
  <2>4. ASSUME NEW q \in Procs \ {p}, NEW x \in Places PROVE Fetched(q, x)' = Fetched(q, x)
    BY <1>1, <1>2 DEF Fetched
  <2>5. ASSUME NEW x \in Places
        PROVE  IF Fetched(p, x)' = {} THEN dest'[p][x] = None
               ELSE \E d \in Fetched(p, x)' : dest'[p][x] = d[2]
    <3>1. CASE x = Place[e[1]]
      BY <2>3, <3>1
    <3>2. CASE x # Place[e[1]]
      BY <1>1, <2>2, <3>2 DEF RestoreInv, TreeTrue, Fetching
    <3> QED
      BY <3>1, <3>2
  <2> QED
    BY <1>1, <2>4, <2>5 DEF RestoreInv, TreeTrue
<1>7. DoneFetching'
  BY <1>1 DEF RestoreInv, DoneFetching
<1> QED
  BY <1>3, <1>5, <1>6, <1>7 DEF RestoreInv

LEMMA RestoreDoneKeeps ==
    ASSUME Inv, NEW p \in Procs, RestoreDone(p)
    PROVE  SafeInv' /\ RestoreInv'
<1> USE DEF Inv, TypeOK, RestoreDone
<1>1. /\ pc[p] = "fetch" /\ pc'[p] = "restored" /\ job' = job /\ job[p].got = {}
      /\ \A q \in Procs \ {p} : pc'[q] = pc[q]
  BY DEF Goto
<1>2. UNCHANGED <<objects, nextId, staging, placed, manifest, lock, dest>>
  BY DEF store, dirs
<1>3. SafeInv'
  BY <1>1, <1>2, RestoreKeepsSafe DEF Fetching
<1>4. \A q \in Procs : pc'[q] \in Fetching => pc[q] \in Fetching
  BY <1>1 DEF Fetching
<1>5. RestoredSettled'
  BY <1>1, <1>2, <1>4 DEF RestoreInv, RestoredSettled, Copying
<1>6. TreeTrue'
  BY <1>1, <1>2, <1>4, SameTrees DEF RestoreInv
<1>7. DoneFetching'
  BY <1>1 DEF RestoreInv, DoneFetching
<1> QED
  BY <1>3, <1>5, <1>6, <1>7 DEF RestoreInv

LEMMA LeavingKeeps ==
    ASSUME Inv, NEW p \in Procs,
           \/ \E f \in Files : CopyGone(p, f)
           \/ SnapshotDone(p) \/ PruneDone(p)
           \/ \E e \in Entries : FetchMissing(p, e)
           \/ ClearTree(p) \/ Crash(p)
    PROVE  SafeInv' /\ RestoreInv'
<1>1. Leave(p)
  BY DEF CopyGone, SnapshotDone, PruneDone, FetchMissing, ClearTree, Crash
<1>2. UNCHANGED <<store, dirs>>
  BY DEF CopyGone, SnapshotDone, PruneDone, FetchMissing, ClearTree, Crash
<1>3. \A q \in Procs \ {p} : dest'[q] = dest[q]
  BY DEF CopyGone, SnapshotDone, PruneDone, FetchMissing, ClearTree, Crash, Inv, TypeOK
<1> QED
  BY <1>1, <1>2, <1>3, LeaveKeeps

-----------------------------------------------------------------------------
LEMMA InvInit == Init => Inv
<1> SUFFICES ASSUME Init PROVE Inv
  OBVIOUS
<1> USE DEF Init
<1>1. TypeOK
  BY TypeInit
<1>2. \A p \in Procs : pc[p] = "idle" /\ job[p] = NoJob
  OBVIOUS
<1>3. \A i \in Ids : staging[i] = {} /\ placed[i] = {}
  OBVIOUS
<1>4. SafeInv
  BY <1>2, <1>3 DEF SafeInv, LockHeld, FreshStart, IdsUnused, NewestTaken, CopiedStored,
     ManifestsWhole, SparedReferenced, Working, Copying, Naming, Shown
<1>5. RestoreInv
  BY <1>2 DEF RestoreInv, RestoredSettled, TreeTrue, DoneFetching, Fetching
<1> QED
  BY <1>1, <1>4, <1>5 DEF Inv

LEMMA SnapshotKeeps ==
    ASSUME Inv, NEW p \in Procs, Snapshot(p)
    PROVE  SafeInv' /\ RestoreInv'
BY AcquireKeeps, BeginKeeps, CopyKnownKeeps, CopyNewKeeps, LeavingKeeps, PutObjectKeeps,
   WriteManifestKeeps, WriteSummaryKeeps, PromoteKeeps DEF Snapshot

LEMMA PruneKeeps ==
    ASSUME Inv, NEW p \in Procs, Prune(p)
    PROVE  SafeInv' /\ RestoreInv'
BY AcquireKeeps, ListUnlinkedCollectKeep, UnlinkKeeps, SweepKeeps, LeavingKeeps DEF Prune

LEMMA RestoreKeeps ==
    ASSUME Inv, NEW p \in Procs, Restore(p) \/ Crash(p)
    PROVE  SafeInv' /\ RestoreInv'
BY StartRestoreKeeps, FetchKeeps, RestoreDoneKeeps, LeavingKeeps DEF Restore

LEMMA InvNext == Inv /\ [Next]_vars => Inv'
<1> SUFFICES ASSUME Inv, [Next]_vars PROVE Inv'
  OBVIOUS
<1>1. ASSUME NEW f \in Files, Edit(f) PROVE Inv'
  <2>1. UNCHANGED <<store, dirs, procs, dest>>
    BY <1>1 DEF Edit
  <2> QED
    BY <1>1, <2>1, EditType, EditKeeps DEF Inv
<1>2. ASSUME NEW p \in Procs, Snapshot(p) PROVE Inv'
  BY <1>2, SnapshotType, SnapshotKeeps DEF Inv
<1>3. ASSUME NEW p \in Procs, Prune(p) PROVE Inv'
  BY <1>3, PruneType, PruneKeeps DEF Inv
<1>4. ASSUME NEW p \in Procs, Restore(p) \/ Crash(p) PROVE Inv'
  BY <1>4, RestoreType, RestoreKeeps DEF Inv
<1>5. CASE UNCHANGED vars
  <2>1. UNCHANGED <<store, dirs, procs, dest>>
    BY <1>5 DEF vars
  <2>2. TypeOK'
    BY <1>5 DEF Inv, TypeOK, vars, sources, store, dirs, procs
  <2> QED
    BY <2>1, <2>2, EditKeeps DEF Inv
<1> QED
  BY <1>1, <1>2, <1>3, <1>4, <1>5 DEF Next

\* The inductive invariant.
LEMMA Invariant == Spec => []Inv
BY InvInit, InvNext, PTL DEF Spec

-----------------------------------------------------------------------------
(* Theorems *)

\* Every step keeps the types of the archive's state.
THEOREM ArchiveTypes == Spec => []TypeOK
<1>1. Inv => TypeOK
  BY DEF Inv
<1> QED
  BY <1>1, Invariant, PTL

\* Whatever snapshots, prunes and restores run side by side, fail or die, the
\* objects that a readable manifest names are in the store, so verify finds
\* nothing (Archive::verify, ArchiveLock).
THEOREM VerifyAlwaysClean == Spec => []VerifyClean
<1>1. Inv => VerifyClean
  BY DEF Inv, SafeInv, ManifestsWhole, VerifyClean, VerifyIssues, Referenced
<1> QED
  BY <1>1, Invariant, PTL

\* A restore that ends well wrote, at each path, a content its snapshot
\* recorded for the path, and left none out, though it takes no lock
\* (Archive::restore).
THEOREM RestoresTrue == Spec => []RestoredTrue
<1>1. ASSUME Inv, NEW p \in Procs, pc[p] = "restored", NEW x \in Places
      PROVE  LET recorded == {e \in manifest[job[p].id] : Place[e[1]] = x}
             IN  IF recorded = {} THEN dest[p][x] = None
                 ELSE \E e \in recorded : dest[p][x] = e[2]
  <2>1. Fetched(p, x) = {e \in manifest[job[p].id] : Place[e[1]] = x}
    BY <1>1 DEF Inv, RestoreInv, DoneFetching, Fetched
  <2> QED
    BY <1>1, <2>1 DEF Inv, RestoreInv, TreeTrue, Fetching
<1>2. Inv => RestoredTrue
  BY <1>1 DEF RestoredTrue
<1> QED
  BY <1>2, Invariant, PTL

-----------------------------------------------------------------------------
(* The archive implements the shelf *)

\* What stands on the shelf: while the invariant holds, every manifest whole.
Shelf == [i \in Shown |-> {e \in manifest[i] : e[2] \in objects}]

LEMMA ShelfWhole == Inv => Shelf = [i \in Shown |-> manifest[i]]
<1> SUFFICES ASSUME Inv PROVE Shelf = [i \in Shown |-> manifest[i]]
  OBVIOUS
<1>1. \A i \in Shown : {e \in manifest[i] : e[2] \in objects} = manifest[i]
  BY DEF Inv, SafeInv, ManifestsWhole
<1> QED
  BY <1>1 DEF Shelf

LEMMA ShelfWholeAfter == (Inv => Shelf = [i \in Shown |-> manifest[i]])'
BY ShelfWhole, PTL

\* A step that leaves the readable snapshots alone leaves the shelf alone.
LEMMA ShelfStays ==
    ASSUME Inv, Inv', Shown' = Shown, \A i \in Shown : manifest'[i] = manifest[i]
    PROVE  Shelf' = Shelf
<1>1. Shelf' = [i \in Shown' |-> manifest'[i]]
  BY ShelfWholeAfter
<1> QED
  BY <1>1, ShelfWhole

\* The rename of the manifest publishes the snapshot.
LEMMA PromotePublishes ==
    ASSUME Inv, Inv', NEW p \in Procs, NEW n \in Names, Promote(p, n), Shown' # Shown,
           NEW i \in Ids, i = job[p].id
    PROVE  V!Publish(i)
<1> USE DEF Inv, TypeOK, Promote
<1>1. i \in Ids /\ nextId = i + 1
  BY DEF SafeInv, NewestTaken, Naming
<1>2. UNCHANGED manifest
  OBVIOUS
<1>3. i \notin Shown /\ Shown' = Shown \cup {i}
  <2>1. \A j \in Ids \ {i} : placed'[j] = placed[j]
    OBVIOUS
  <2>2. placed'[i] = placed[i] \cup {n}
    BY <1>1
  <2> QED
    BY <1>1, <2>1, <2>2 DEF Shown
<1>4. \A j \in Shown : j < i
  <2> SUFFICES ASSUME NEW j \in Shown PROVE j < i
    OBVIOUS
  <2>1. j \in Ids /\ ~(j >= i + 1) /\ j # i
    BY <1>1, <1>3 DEF Shown, SafeInv, IdsUnused
  <2>2. i \in Int /\ j \in Int
    BY <2>1, BoundsAssumption DEF Ids
  <2>3. \A a, b \in Int : ~(a >= b + 1) /\ a # b => a < b
    OBVIOUS
  <2> QED
    BY <2>1, <2>2, <2>3
<1>5. Shelf' = [j \in Shown \cup {i} |-> IF j = i THEN manifest[i] ELSE Shelf[j]]
  <2>1. Shelf' = [j \in Shown' |-> manifest'[j]]
    BY ShelfWholeAfter
  <2>2. Shelf = [j \in Shown |-> manifest[j]]
    BY ShelfWhole
  <2> QED
    BY <1>2, <1>3, <2>1, <2>2
<1>6. manifest[i] \in SUBSET Entries /\ DOMAIN Shelf = Shown
  BY <1>1 DEF Shelf
<1> HIDE DEF Inv, TypeOK, Promote
<1> QED
  BY <1>1, <1>4, <1>5, <1>6 DEF V!Publish, Shelf

\* The removal of the manifest takes the snapshot off the shelf.
LEMMA UnlinkDiscards ==
    ASSUME Inv, Inv', NEW p \in Procs, NEW i \in Ids, NEW n \in Names, Unlink(p, i, n),
           Shown' # Shown
    PROVE  V!Discard(i)
<1> USE DEF Inv, TypeOK, Unlink
<1>1. UNCHANGED manifest
  OBVIOUS
<1>2. i \in Shown /\ Shown' = Shown \ {i}
  <2>1. \A j \in Ids \ {i} : placed'[j] = placed[j]
    OBVIOUS
  <2>2. placed'[i] = placed[i] \ {n}
    OBVIOUS
  <2> QED
    BY <2>1, <2>2 DEF Shown
<1>3. Shelf' = [j \in Shown \ {i} |-> Shelf[j]] /\ DOMAIN Shelf = Shown
  <2>1. Shelf' = [j \in Shown' |-> manifest'[j]]
    BY ShelfWholeAfter
  <2>2. Shelf = [j \in Shown |-> manifest[j]]
    BY ShelfWhole
  <2> QED
    BY <1>1, <1>2, <2>1, <2>2
<1> HIDE DEF Inv, TypeOK, Unlink
<1> QED
  BY <1>2, <1>3 DEF V!Discard, Shelf

LEMMA ShelfStep == Inv /\ Inv' /\ [Next]_vars => V!Next \/ Shelf' = Shelf
<1> SUFFICES ASSUME Inv, Inv', [Next]_vars, Shelf' # Shelf PROVE V!Next
  OBVIOUS
<1>1. Shown' # Shown \/ \E i \in Shown : manifest'[i] # manifest[i]
  BY ShelfStays
<1>2. ASSUME NEW p \in Procs, WriteManifest(p) PROVE FALSE
  <2>1. placed' = placed /\ Shown' = Shown
    BY <1>2 DEF WriteManifest, Shown
  <2>2. job[p].id \notin Shown
    BY <1>2 DEF WriteManifest, Inv, SafeInv, NewestTaken, Copying, Shown
  <2>3. \A i \in Shown : manifest'[i] = manifest[i]
    BY <1>2, <2>2 DEF WriteManifest, Inv, TypeOK, Shown
  <2> QED
    BY <1>1, <2>1, <2>3
<1>3. ASSUME NEW p \in Procs, NEW n \in Names, Promote(p, n) PROVE V!Next
  <2>1. UNCHANGED manifest
    BY <1>3 DEF Promote
  <2>2. job[p].id \in Ids
    BY <1>3 DEF Promote, Inv, SafeInv, NewestTaken, Naming
  <2>3. PICK i \in Ids : i = job[p].id
    BY <2>2
  <2>4. V!Publish(i)
    BY <1>1, <1>3, <2>1, <2>3, PromotePublishes
  <2> QED
    BY <2>4 DEF V!Next
<1>4. ASSUME NEW p \in Procs, NEW i \in Ids, NEW n \in Names, Unlink(p, i, n) PROVE V!Next
  BY <1>1, <1>4, UnlinkDiscards DEF Unlink, V!Next
<1>5. ASSUME UNCHANGED <<placed, manifest>> PROVE FALSE
  BY <1>1, <1>5 DEF Shown
<1>6. ASSUME NEW p \in Procs, Snapshot(p) PROVE V!Next
  BY <1>2, <1>3, <1>5, <1>6 DEF Snapshot, AcquireForSnapshot, Acquire, Begin, CopyKnown,
     CopyNew, CopyGone, PutObject, WriteSummary, SnapshotDone, dirs
<1>7. ASSUME NEW p \in Procs, Prune(p) PROVE V!Next
  BY <1>4, <1>5, <1>7 DEF Prune, AcquireForPrune, Acquire, ListStale, Unlinked, Collect,
     Sweep, PruneDone, dirs
<1>8. ASSUME NEW p \in Procs, Restore(p) \/ Crash(p) PROVE FALSE
  BY <1>5, <1>8 DEF Restore, StartRestore, Fetch, FetchMissing, RestoreDone, ClearTree,
     Crash, dirs
<1>9. ASSUME NEW f \in Files, Edit(f) PROVE FALSE
  BY <1>5, <1>9 DEF Edit, dirs
<1>10. CASE UNCHANGED vars
  BY <1>5, <1>10 DEF vars, dirs
<1> QED
  BY <1>6, <1>7, <1>8, <1>9, <1>10 DEF Next

\* The snapshots that can be read change only as the shelf of Vault allows: one
\* appears whole and newer than the rest, none is altered, one leaves as a
\* whole; and a prune that ends well leaves no object and no temporary file but
\* those they name (Archive::snapshot, Archive::prune, ObjectStore::gc).
THEOREM ArchiveKeepsShelf == Spec => ArchiveKept
<1>1. Init => V!Init
  BY DEF Init, V!Init, Shown
<1>2. Inv /\ Inv' /\ [Next]_vars => [V!Next]_Shelf
  BY ShelfStep
<1>3. Inv /\ [Next]_vars => [\A p \in Procs : PruneDone(p) => objects = Referenced /\ tmps = {}]_vars
  <2> SUFFICES ASSUME Inv, NEW p \in Procs, PruneDone(p) PROVE objects = Referenced /\ tmps = {}
    OBVIOUS
  <2>1. Referenced \subseteq objects
    BY DEF Inv, SafeInv, ManifestsWhole, Referenced
  <2>2. job[p].refs = Referenced
    BY DEF Inv, SafeInv, SparedReferenced, PruneDone
  <2> QED
    BY <2>1, <2>2 DEF PruneDone
<1>4. Spec => PruneSweeps
  BY <1>3, Invariant, PTL DEF PruneSweeps, Spec
<1>5. Spec => ShelfKept
  BY <1>1, <1>2, Invariant, PTL DEF ShelfKept, V!Spec, Spec, Shelf
<1> QED
  BY <1>4, <1>5 DEF ArchiveKept

=============================================================================
