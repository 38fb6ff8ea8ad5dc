----------------------------- MODULE Statusline -----------------------------
(***************************************************************************)
(* The statusline command (src/src/statusline/mod.rs and cache.rs): every  *)
(* prompt of an agent starts a process that answers from a cache file or,  *)
(* under a lock file that holds a PID, computes the line and replaces the  *)
(* cache.  One action is one file-system call.  Processes overlap, and are *)
(* killed at any point.                                                    *)
(***************************************************************************)
EXTENDS Integers, FiniteSets

CONSTANTS
    Pids,           \* process ids; a process that ended gives its id back
    Sessions,
    None,
    TTL,            \* refresh_interval, seconds
    MaxClock,       \* bound: seconds
    MaxVersion,     \* bound: states of a transcript
    MaxRunning,     \* bound: processes at a time
    MaxKills,       \* bound: killed processes
    PidReuse,       \* TRUE: a PID may be reused while a lock file still holds it
    MaxTries        \* attempts that fit into the lock timeout

\* The output of a run: for which session, from which transcript, when.
Line  == [session : Sessions, version : 0..MaxVersion, asOf : 0..MaxClock]
\* A cache entry without its output: session_id, computed_at, transcript_mtime_secs.
Keys  == [session : Sessions, at : 0..MaxClock, mtime : 0..MaxClock]

ASSUME BoundsAssumption ==
    /\ {TTL, MaxClock, MaxVersion, MaxRunning, MaxKills, MaxTries} \subseteq Nat
    /\ PidReuse \in BOOLEAN
ASSUME PidsAssumption == IsFiniteSet(Pids)
ASSUME NoneAssumption == None \notin Pids \cup Sessions \cup Nat \cup Line \cup Keys \cup {"stub"}

VARIABLES
    clock,          \* the second it is
    transcripts,    \* session -> version of its transcript and mtime in seconds
    lock,           \* statusline.lock: its creator, and whether the PID is in it
    tmp,            \* the inode statusline.tmp names, or None
    cache,          \* the inode statusline.json names, or None
    blob,           \* inode -> what is written of a JSON entry: its keys, its output
    run,            \* local state of each process
    shown,          \* what each process printed last
    kills

world == <<clock, transcripts>>
files == <<tmp, cache, blob>>
vars  == <<world, lock, files, run, shown, kills>>

\* One inode for each name and each process that has one open.
Inodes == 0..(Cardinality(Pids) + 1)
Blank  == [keys |-> None, output |-> None]
Idle   == [pc |-> "idle", session |-> None, mtime |-> None, tries |-> 0,
           saw |-> None, line |-> None, at |-> None, fd |-> None]

Init ==
    /\ clock = 0
    /\ transcripts = [s \in Sessions |-> [version |-> 0, mtime |-> 0]]
    /\ lock = None
    /\ tmp = None /\ cache = None
    /\ blob = [i \in Inodes |-> Blank]
    /\ run = [p \in Pids |-> Idle]
    /\ shown = [p \in Pids |-> None]
    /\ kills = 0

At(p, stage) == run[p].pc = stage
Running == { p \in Pids : ~At(p, "idle") }
Goto(p, stage) == run' = [run EXCEPT ![p].pc = stage]

\* The PID a reader finds in the lock file.
LockPid == IF lock # None /\ lock.written THEN lock.owner ELSE None

-----------------------------------------------------------------------------
(* Time, and the agent that writes the transcripts. *)

Tick == /\ clock < MaxClock
        /\ clock' = clock + 1
        /\ UNCHANGED <<transcripts, lock, files, run, shown, kills>>

WriteTranscript(s) ==
    /\ transcripts[s].version < MaxVersion
    /\ transcripts' = [transcripts EXCEPT ![s] = [version |-> @.version + 1, mtime |-> clock]]
    /\ UNCHANGED <<clock, lock, files, run, shown, kills>>

-----------------------------------------------------------------------------
(* A run up to the lock. *)

\* The process starts and takes the mtime it will store with its line.
Start(p, s) ==
    /\ At(p, "idle")
    /\ Cardinality(Running) < MaxRunning
    /\ PidReuse \/ LockPid # p
    /\ run' = [run EXCEPT ![p] = [Idle EXCEPT !.pc = "look", !.session = s,
                                              !.mtime = transcripts[s].mtime]]
    /\ shown' = [shown EXCEPT ![p] = None]
    /\ UNCHANGED <<world, lock, files, kills>>

\* An entry parses if both parts are there.
Parses(b) == b.keys # None /\ b.output # None

\* is_fresh: same session, younger than the TTL, transcript unchanged.
Fresh(k, s) == /\ k.session = s
               /\ k.at =< clock
               /\ clock - k.at < TTL
               /\ k.mtime = transcripts[s].mtime

Cached(s) == /\ cache # None
             /\ Parses(blob[cache])
             /\ Fresh(blob[cache].keys, s)

\* The process exits: its PID is free again.
Exit(p, output) == /\ run' = [run EXCEPT ![p] = Idle]
                   /\ shown' = [shown EXCEPT ![p] = output]

ServeCached(p) ==
    /\ At(p, "look")
    /\ Cached(run[p].session)
    /\ Exit(p, "cached")
    /\ UNCHANGED <<world, lock, files, kills>>

MissCache(p) ==
    /\ At(p, "look")
    /\ ~Cached(run[p].session)
    /\ Goto(p, "try")
    /\ UNCHANGED <<world, lock, files, shown, kills>>

-----------------------------------------------------------------------------
(* acquire_lock.  The file is created first and gets its PID afterwards.    *)

TryCreate(p) ==
    /\ At(p, "try")
    /\ \/ /\ lock = None
          /\ lock' = [owner |-> p, written |-> FALSE]
          /\ Goto(p, "sign")
       \/ /\ lock # None
          /\ Goto(p, "read")
          /\ UNCHANGED lock
    /\ UNCHANGED <<world, files, shown, kills>>

\* write!(f, pid) goes to the file this process created, which may be gone.
WritePid(p) ==
    /\ At(p, "sign")
    /\ lock' = IF lock # None /\ lock.owner = p THEN [owner |-> p, written |-> TRUE] ELSE lock
    /\ Goto(p, "compute")
    /\ UNCHANGED <<world, files, shown, kills>>

\* read_lock_pid: a file that is gone or still empty counts as stale.
ReadLockPid(p) ==
    /\ At(p, "read")
    /\ run' = [run EXCEPT ![p].pc = IF LockPid = None THEN "steal" ELSE "alive",
                          ![p].saw = LockPid]
    /\ UNCHANGED <<world, lock, files, shown, kills>>

\* Mutated form: every owner counts as alive.
SomeoneIsAlive(p) == TRUE

PidAlive(p) == run[p].saw \in Running

CheckAlive(p) ==
    /\ At(p, "alive")
    /\ Goto(p, IF PidAlive(p) THEN "wait" ELSE "steal")
    /\ UNCHANGED <<world, lock, files, shown, kills>>

\* The stale lock is removed by name, whoever's it is by now.
RemoveStale(p) ==
    /\ At(p, "steal")
    /\ lock' = None
    /\ Goto(p, "retake")
    /\ UNCHANGED <<world, files, shown, kills>>

RetakeLock(p) ==
    /\ At(p, "retake")
    /\ \/ /\ lock = None
          /\ lock' = [owner |-> p, written |-> FALSE]
          /\ Goto(p, "sign")
       \/ /\ lock # None
          /\ Goto(p, "wait")
          /\ UNCHANGED lock
    /\ UNCHANGED <<world, files, shown, kills>>

\* Mutated form: the attempts are not counted.
SleepForEver(p) ==
    /\ At(p, "wait")
    /\ run' = [run EXCEPT ![p].pc = "try", ![p].saw = None]
    /\ UNCHANGED <<world, lock, files, shown, kills>>

Sleep(p) ==
    /\ At(p, "wait")
    /\ run[p].tries < MaxTries
    /\ run' = [run EXCEPT ![p].pc = "try", ![p].saw = None, ![p].tries = @ + 1]
    /\ UNCHANGED <<world, lock, files, shown, kills>>

\* The timeout is over: the stub is printed.
GiveUp(p) ==
    /\ At(p, "wait")
    /\ run[p].tries = MaxTries
    /\ Exit(p, "stub")
    /\ UNCHANGED <<world, lock, files, kills>>

-----------------------------------------------------------------------------
(* Under the lock: compute the line, write the temporary file, rename it.   *)

Compute(p) ==
    /\ At(p, "compute")
    /\ LET s == run[p].session
       IN  run' = [run EXCEPT ![p].pc = "create",
                     ![p].line = [session |-> s, version |-> transcripts[s].version,
                                  asOf |-> clock]]
    /\ UNCHANGED <<world, lock, files, shown, kills>>

\* Mutated form: the error leaves the lock file in place.
FailHolding(p) ==
    /\ At(p, "compute")
    /\ Exit(p, "error")
    /\ UNCHANGED <<world, lock, files, kills>>

\* A query fails: the guard is dropped on the way out.
ComputeFails(p) ==
    /\ At(p, "compute")
    /\ lock' = None
    /\ Exit(p, "error")
    /\ UNCHANGED <<world, files, kills>>

FreeInodes == Inodes \ ({tmp, cache} \cup { run[q].fd : q \in Pids })
\* An inode no name and no process refers to; the least one, as any will do.
IsFree(i) == i \in FreeInodes /\ \A j \in FreeInodes : i =< j

\* Mutated form: the entry is written straight to statusline.json.
CreateInPlace(p) ==
    /\ At(p, "create")
    /\ \E i \in Inodes :
          /\ IF cache # None THEN i = cache ELSE IsFree(i)
          /\ cache' = i
          /\ blob' = [blob EXCEPT ![i] = Blank]
          /\ run' = [run EXCEPT ![p].pc = "keys", ![p].at = clock, ![p].fd = i]
    /\ UNCHANGED <<world, lock, tmp, shown, kills>>

\* computed_at is taken, and File::create opens statusline.tmp: a new inode,
\* or the one another process has there, truncated.
CreateTmp(p) ==
    /\ At(p, "create")
    /\ \E i \in Inodes :
          /\ IF tmp # None THEN i = tmp ELSE IsFree(i)
          /\ tmp' = i
          /\ blob' = [blob EXCEPT ![i] = Blank]
          /\ run' = [run EXCEPT ![p].pc = "keys", ![p].at = clock, ![p].fd = i]
    /\ UNCHANGED <<world, lock, cache, shown, kills>>

\* Mutated form: the transcript's mtime is read when the entry is written.
EntryKeysLate(p) == [session |-> run[p].session, at |-> run[p].at,
                     mtime |-> transcripts[run[p].session].mtime]

EntryKeys(p) == [session |-> run[p].session, at |-> run[p].at, mtime |-> run[p].mtime]

\* to_writer writes piece by piece, each writer at its own offset.
WriteKeys(p) ==
    /\ At(p, "keys")
    /\ blob' = [blob EXCEPT ![run[p].fd].keys = EntryKeys(p)]
    /\ Goto(p, "output")
    /\ UNCHANGED <<world, lock, tmp, cache, shown, kills>>

WriteOutput(p) ==
    /\ At(p, "output")
    /\ blob' = [blob EXCEPT ![run[p].fd].output = run[p].line]
    /\ run' = [run EXCEPT ![p].pc = "rename", ![p].fd = None]
    /\ UNCHANGED <<world, lock, tmp, cache, shown, kills>>

\* Whatever statusline.tmp names by now; without one the rename fails, which
\* is only logged.
Rename(p) ==
    /\ At(p, "rename")
    /\ cache' = IF tmp # None THEN tmp ELSE cache
    /\ tmp' = None
    /\ run' = [run EXCEPT ![p] = [Idle EXCEPT !.pc = "release", !.session = run[p].session,
                                              !.mtime = run[p].mtime]]
    /\ UNCHANGED <<world, lock, blob, shown, kills>>

\* The guard removes the lock file by name.
Release(p) ==
    /\ At(p, "release")
    /\ lock' = None
    /\ Exit(p, "line")
    /\ UNCHANGED <<world, files, kills>>

\* The process is killed; its files stay as they are.
Kill(p) ==
    /\ ~At(p, "idle")
    /\ kills < MaxKills
    /\ kills' = kills + 1
    /\ Exit(p, None)
    /\ UNCHANGED <<world, lock, files>>

Step(p) ==
    \/ ServeCached(p) \/ MissCache(p)
    \/ TryCreate(p) \/ WritePid(p) \/ ReadLockPid(p) \/ CheckAlive(p)
    \/ RemoveStale(p) \/ RetakeLock(p) \/ Sleep(p) \/ GiveUp(p)
    \/ Compute(p) \/ ComputeFails(p)
    \/ CreateTmp(p) \/ WriteKeys(p) \/ WriteOutput(p) \/ Rename(p) \/ Release(p)

Next ==
    \/ Tick
    \/ \E s \in Sessions : WriteTranscript(s)
    \/ \E p \in Pids : Step(p) \/ Kill(p) \/ \E s \in Sessions : Start(p, s)

Spec == Init /\ [][Next]_vars

\* A process that runs goes on.
FairSpec == Spec /\ \A p \in Pids : WF_vars(Step(p))

-----------------------------------------------------------------------------
(* Type invariant *)

Stages == {"idle", "look", "try", "sign", "read", "alive", "steal", "retake", "wait",
           "compute", "create", "keys", "output", "rename", "release"}
Holding == {"sign", "compute", "create", "keys", "output", "rename", "release"}

Local == [pc : Stages, session : Sessions \cup {None}, mtime : (0..MaxClock) \cup {None},
          tries : 0..MaxTries, saw : Pids \cup {None}, line : Line \cup {None},
          at : (0..MaxClock) \cup {None}, fd : Inodes \cup {None}]

LocalOK(l) ==
    /\ l.pc # "idle" => l.session \in Sessions /\ l.mtime \in 0..MaxClock
    /\ l.pc = "alive" => l.saw \in Pids
    /\ l.pc \in {"create", "keys", "output"} => l.line \in Line
    /\ l.pc \in {"keys", "output"} <=> l.fd \in Inodes
    /\ l.pc \in {"keys", "output"} => l.at \in 0..MaxClock

\* Every variable has its type, and a process that writes has a file open.
TypeOK ==
    /\ clock \in 0..MaxClock
    /\ transcripts \in [Sessions -> [version : 0..MaxVersion, mtime : 0..MaxClock]]
    /\ lock \in [owner : Pids, written : BOOLEAN] \cup {None}
    /\ tmp \in Inodes \cup {None}
    /\ cache \in Inodes \cup {None}
    /\ blob \in [Inodes -> [keys : Keys \cup {None}, output : Line \cup {None}]]
    /\ run \in [Pids -> Local]
    /\ \A p \in Pids : LocalOK(run[p])
    /\ shown \in [Pids -> {"cached", "line", "stub", "error", None}]
    /\ kills \in 0..MaxKills

-----------------------------------------------------------------------------
(* Properties *)

\* A reader of statusline.json never finds a partly written entry, nor the
\* keys of one entry with the output of another.
CacheWhole ==
    cache # None => /\ Parses(blob[cache])
                    /\ blob[cache].keys.session = blob[cache].output.session

\* A cached line that would be served was computed from the transcript as it is,
\* unless it was computed in the very second the transcript was written.
LineCurrent ==
    \A s \in Sessions :
        LET e == blob[cache] IN
        (Cached(s) /\ e.keys.mtime # e.output.asOf) => e.output.version = transcripts[s].version

\* A run that has the machine to itself never prints the stub: the lock file of
\* a killed run is recognised and taken over.
StubOnlyWhenBusy == MaxRunning = 1 => \A p \in Pids : shown[p] # "stub"

\* When no process runs and none was killed, there is no lock file, however the
\* runs stole each other's.
LockReleased == (Running = {} /\ kills = 0) => lock = None

\* Every run that starts ends: it prints something or is killed.
EveryRunEnds == \A p \in Pids : At(p, "look") ~> At(p, "idle")

=============================================================================
