------------------------------- MODULE Rescan -------------------------------
(***************************************************************************)
(* POST /api/rescan (src/src/server/api.rs): the scan fills a temporary     *)
(* database, the runtime history of the live one is merged into it, and the *)
(* temporary file takes the live one's name.  Meanwhile the hook, the       *)
(* pollers and scans of other processes open the live database by name and  *)
(* write history into it.                                                   *)
(* An inode stands for a database with its -wal and -shm files.             *)
(***************************************************************************)
EXTENDS Integers, Sequences, FiniteSets

CONSTANTS
    Requests,       \* rescan requests the server handles
    Writers,        \* processes and tasks that write runtime history
    Rows,           \* rows of the runtime tables
    TableOf,        \* row -> its table
    FromFiles,      \* rows of the quota history that scans read from files (kind "file")
    Inodes,         \* enough for every name and every open connection
    None,
    MaxAsked,       \* bound: requests made
    MaxCrashes,     \* bound: crashes of the server
    MaxDisconnects  \* bound: clients that hang up

\* The statements of merge_live_db, in order.
MergeOrder == << "live_events", "agent_status_history", "claude_usage_runs",
                 "claude_usage_factors", "rate_window_history" >>
Tables == { MergeOrder[i] : i \in 1..5 }

ASSUME RescanBounds == {MaxAsked, MaxCrashes, MaxDisconnects} \subseteq Nat
ASSUME RescanRows == TableOf \in [Rows -> Tables]
ASSUME RescanFiles == FromFiles \subseteq { r \in Rows : TableOf[r] = "rate_window_history" }
ASSUME RescanNone == None \notin Requests \cup Inodes
ASSUME RescanInodes == Inodes \subseteq Nat

VARIABLES
    live, temp,     \* the inodes of heimdall.db and heimdall.db.tmp, or None
    content,        \* inode -> row -> "absent", "whole", or "cut": some columns defaulted
    dbLock,         \* the request that holds AppState::db_lock, or None
    run,            \* local state of each request
    conn,           \* the database each writer has open, or None
    committed,      \* rows whose insert succeeded
    owed,           \* those of them a rescan has to keep (history variable)
    asked, crashes, disconnects,
    torn            \* TRUE: a swap was broken off with the live database removed (history)

names == <<live, temp>>
ghosts == <<committed, owed>>
counts == <<asked, crashes, disconnects, torn>>
vars == <<names, content, dbLock, run, conn, ghosts, counts>>

Empty == [r \in Rows |-> "absent"]
Ended == [pc |-> "idle", db |-> None, att |-> None, merged |-> 0]

Init ==
    /\ live = None /\ temp = None
    /\ content = [i \in Inodes |-> Empty]
    /\ dbLock = None
    /\ run = [q \in Requests |-> Ended]
    /\ conn = [w \in Writers |-> None]
    /\ committed = {} /\ owed = {}
    /\ asked = 0 /\ crashes = 0 /\ disconnects = 0 /\ torn = FALSE

At(q, stage) == run[q].pc = stage
Goto(q, stage) == run' = [run EXCEPT ![q].pc = stage]

\* An inode that no name and no connection refers to.
Free(i) == /\ i \notin {live, temp}
           /\ \A w \in Writers : conn[w] # i
           /\ \A q \in Requests : i \notin {run[q].db, run[q].att}

\* open_db on a name: the inode there, or a new empty database (any free inode
\* would do: the least one).
Opens(name, i) ==
    IF name # None THEN i = name
    ELSE Free(i) /\ \A j \in Inodes : Free(j) => i =< j
Emptied(name, i) == IF name # None THEN content ELSE [content EXCEPT ![i] = Empty]

-----------------------------------------------------------------------------
(* The hook, the pollers and other scans: open by name, insert, close.      *)

\* The request has merged the row's table and not yet replaced the database.
Overlooks(q, r) ==
    \/ run[q].pc \in {"unlink", "rename"}
    \/ run[q].pc = "merge" /\ \E i \in 1..run[q].merged : MergeOrder[i] = TableOf[r]

OpenLiveDb(w) ==
    /\ conn[w] = None
    /\ \E i \in Inodes :
          /\ Opens(live, i)
          /\ content' = Emptied(live, i)
          /\ live' = i
          /\ conn' = [conn EXCEPT ![w] = i]
    /\ UNCHANGED <<temp, dbLock, run, ghosts, counts>>

\* The insert is owed if it reaches the live database before a rescan has
\* passed its table; a row read from a file is the scan's to read again.
Insert(w, r) ==
    /\ conn[w] # None
    /\ r \notin committed
    /\ content' = [content EXCEPT ![conn[w]][r] = "whole"]
    /\ committed' = committed \cup {r}
    /\ owed' = IF conn[w] = live /\ r \notin FromFiles /\ \A q \in Requests : ~Overlooks(q, r)
               THEN owed \cup {r} ELSE owed
    /\ UNCHANGED <<names, dbLock, run, conn, counts>>

Close(w) ==
    /\ conn[w] # None
    /\ conn' = [conn EXCEPT ![w] = None]
    /\ UNCHANGED <<names, content, dbLock, run, ghosts, counts>>

-----------------------------------------------------------------------------
(* A rescan request. *)

Ask(q) ==
    /\ At(q, "idle")
    /\ asked < MaxAsked
    /\ asked' = asked + 1
    /\ Goto(q, "wait")
    /\ UNCHANGED <<names, content, dbLock, conn, ghosts, crashes, disconnects, torn>>

\* Mutated form: the rescan does not take the lock.
AcquireNothing(q) ==
    /\ At(q, "wait")
    /\ Goto(q, "clean")
    /\ UNCHANGED <<names, content, dbLock, conn, ghosts, counts>>

Acquire(q) ==
    /\ At(q, "wait")
    /\ dbLock = None
    /\ dbLock' = q
    /\ Goto(q, "clean")
    /\ UNCHANGED <<names, content, conn, ghosts, counts>>

\* The handler returns: the guard goes, if the handler still had it.
Finish(q) ==
    /\ run' = [run EXCEPT ![q] = Ended]
    /\ dbLock' = IF dbLock = q THEN None ELSE dbLock

\* Every `?` before the live database is removed.
MayFail == {"clean", "scan", "look", "migrate", "attach", "merge", "unlink"}

\* Mutated form: an error keeps the lock.
FailHolding(q) ==
    /\ run[q].pc \in MayFail
    /\ run' = [run EXCEPT ![q] = Ended]
    /\ UNCHANGED <<names, content, dbLock, conn, ghosts, counts>>

\* A step fails and the rescan with it; the files stay as the steps before left
\* them: removed in part ("scan"), filled in part ("look"), open ("attach", "merge").
Fail(q) ==
    /\ run[q].pc \in MayFail
    /\ Finish(q)
    /\ UNCHANGED <<names, content, conn, ghosts, counts>>

\* cleanup_sqlite_files(temp_path)
CleanTemp(q) ==
    /\ At(q, "clean")
    /\ temp' = None
    /\ Goto(q, "scan")
    /\ UNCHANGED <<live, content, dbLock, conn, ghosts, counts>>

\* scanner::scan fills temp_path with what the transcripts say: no history but
\* the quota rows of the files that are still there.
ScanTemp(q) ==
    /\ At(q, "scan")
    /\ \E i \in Inodes, found \in SUBSET FromFiles :
          /\ Opens(temp, i)
          /\ content' = [Emptied(temp, i) EXCEPT ![i] =
                [r \in Rows |-> IF r \in found THEN "whole" ELSE @[r]]]
          /\ temp' = i
    /\ Goto(q, "look")
    /\ UNCHANGED <<live, dbLock, conn, ghosts, counts>>

\* Without a temporary file the rescan ends; without a live one nothing is merged.
LookForFiles(q) ==
    /\ At(q, "look")
    /\ \/ temp = None /\ Finish(q)
       \/ temp # None /\ live = None /\ Goto(q, "unlink") /\ UNCHANGED dbLock
       \/ temp # None /\ live # None /\ Goto(q, "migrate") /\ UNCHANGED dbLock
    /\ UNCHANGED <<names, content, conn, ghosts, counts>>

\* The live database is opened and migrated, and closed again.
MigrateLive(q) ==
    /\ At(q, "migrate")
    /\ \E i \in Inodes :
          /\ Opens(live, i)
          /\ content' = Emptied(live, i)
          /\ live' = i
    /\ Goto(q, "attach")
    /\ UNCHANGED <<temp, dbLock, conn, ghosts, counts>>

\* The temporary database is opened and the live one attached, if it is there.
AttachLive(q) ==
    /\ At(q, "attach")
    /\ \E i \in Inodes :
          /\ Opens(temp, i)
          /\ content' = Emptied(temp, i)
          /\ temp' = i
          /\ run' = [run EXCEPT ![q] =
                 IF live = None THEN [Ended EXCEPT !.pc = "unlink"]
                 ELSE [pc |-> "merge", db |-> i, att |-> live, merged |-> 0]]
    /\ UNCHANGED <<live, dbLock, conn, ghosts, counts>>

\* A quota snapshot is copied without its provider, plan and estimate, and only
\* if its kind is "oauth".
Copied(r, value) ==
    IF r \in FromFiles THEN "absent"
    ELSE IF value = "whole" /\ TableOf[r] = "rate_window_history" THEN "cut" ELSE value

\* INSERT OR IGNORE ... SELECT of one table.
Merged(q, table) ==
    [r \in Rows |->
        IF TableOf[r] = table /\ content[run[q].db][r] = "absent"
        THEN Copied(r, content[run[q].att][r])
        ELSE content[run[q].db][r]]

MergeNext(q) ==
    /\ At(q, "merge")
    /\ run[q].merged < 5
    /\ content' = [content EXCEPT ![run[q].db] = Merged(q, MergeOrder[run[q].merged + 1])]
    /\ run' = [run EXCEPT ![q].merged = @ + 1]
    /\ UNCHANGED <<names, dbLock, conn, ghosts, counts>>

\* DETACH, and the connection is dropped.
Detach(q) ==
    /\ At(q, "merge")
    /\ run[q].merged = 5
    /\ run' = [run EXCEPT ![q] = [Ended EXCEPT !.pc = "unlink"]]
    /\ UNCHANGED <<names, content, dbLock, conn, ghosts, counts>>

\* cleanup_sqlite_files(db_path)
UnlinkLive(q) ==
    /\ At(q, "unlink")
    /\ live' = None
    /\ Goto(q, "rename")
    /\ UNCHANGED <<temp, content, dbLock, conn, ghosts, counts>>

\* The temporary file takes the name.  No connection has it open, so it has no
\* -wal or -shm file left to rename.
RenameTemp(q) ==
    /\ At(q, "rename")
    /\ temp # None
    /\ live' = temp
    /\ temp' = None
    /\ Finish(q)
    /\ UNCHANGED <<content, conn, ghosts, counts>>

\* The live database is removed and then a -wal or -shm file cannot be, or the
\* rename fails: the rescan ends in an error and the live name is free.
BreakOff(q) ==
    /\ At(q, "rename")
    /\ torn' = TRUE
    /\ Finish(q)
    /\ UNCHANGED <<names, content, conn, ghosts, asked, crashes, disconnects>>

\* The client hangs up: the handler's future is dropped and its guard with it,
\* while the blocking task goes on.
Disconnect(q) ==
    /\ disconnects < MaxDisconnects
    /\ disconnects' = disconnects + 1
    /\ \/ At(q, "wait") /\ Goto(q, "idle") /\ UNCHANGED dbLock
       \/ dbLock = q /\ dbLock' = None /\ UNCHANGED run
    /\ UNCHANGED <<names, content, conn, ghosts, asked, crashes, torn>>

\* Between the removal and the rename no file has the live name for sure.
Swapping == \E q \in Requests : At(q, "rename")

\* The server dies; nothing but the files remains of its rescans.
Crash ==
    /\ crashes < MaxCrashes
    /\ crashes' = crashes + 1
    /\ torn' = (torn \/ Swapping)
    /\ dbLock' = None
    /\ run' = [q \in Requests |-> Ended]
    /\ UNCHANGED <<names, content, conn, ghosts, asked, disconnects>>

Step(q) ==
    \/ Acquire(q) \/ CleanTemp(q) \/ ScanTemp(q) \/ LookForFiles(q) \/ MigrateLive(q)
    \/ AttachLive(q) \/ MergeNext(q) \/ Detach(q) \/ UnlinkLive(q) \/ RenameTemp(q)
    \/ BreakOff(q)

Next ==
    \/ \E w \in Writers : OpenLiveDb(w) \/ Close(w) \/ \E r \in Rows : Insert(w, r)
    \/ \E q \in Requests : Ask(q) \/ Step(q) \/ Fail(q) \/ Disconnect(q)
    \/ Crash

Spec == Init /\ [][Next]_vars

\* The server's tasks run on, and a request that waits gets the lock in turn.
FairSpec == Spec /\ \A q \in Requests : WF_vars(Step(q))

-----------------------------------------------------------------------------
(* Type invariant *)

Stages == {"idle", "wait", "clean", "scan", "look", "migrate", "attach", "merge",
           "unlink", "rename"}

\* Every variable has its type, and a merge has both its databases open.
TypeOK ==
    /\ live \in Inodes \cup {None}
    /\ temp \in Inodes \cup {None}
    /\ content \in [Inodes -> [Rows -> {"absent", "whole", "cut"}]]
    /\ dbLock \in Requests \cup {None}
    /\ run \in [Requests -> [pc : Stages, db : Inodes \cup {None}, att : Inodes \cup {None},
                             merged : 0..5]]
    /\ \A q \in Requests : At(q, "merge") => {run[q].db, run[q].att} \subseteq Inodes
    /\ conn \in [Writers -> Inodes \cup {None}]
    /\ committed \subseteq Rows
    /\ owed \subseteq committed
    /\ asked \in 0..MaxAsked
    /\ crashes \in 0..MaxCrashes
    /\ disconnects \in 0..MaxDisconnects
    /\ torn \in BOOLEAN

-----------------------------------------------------------------------------
(* Properties *)

\* The live database has the row.
InLive(r) == live # None /\ content[live][r] # "absent"

\* A rescan keeps the history: every row that reached the live database before a
\* rescan had passed its table is still there.
OwedKept == ~Swapping => \A r \in owed : InLive(r)

\* So it is, whatever rescans, failed rescans, crashes and writers do, as long as
\* no swap was broken off, by an error or a crash, once the live database was
\* removed (replace_sqlite_files is not atomic), and no client has hung up.
OwedKeptUnbroken == (~torn /\ disconnects = 0) => OwedKept

\* A quota snapshot keeps its provider, plan and estimate.
SnapshotsWhole == \A r \in Rows : InLive(r) => content[live][r] = "whole"

\* A request is answered: it gets the lock, runs and ends, though others fail,
\* hang up or are cut off by a crash.
EveryRequestEnds == \A q \in Requests : At(q, "wait") ~> At(q, "idle")

=============================================================================
