-------------------------------- MODULE Scan --------------------------------
(***************************************************************************)
(* The incremental scan of transcript files into the SQLite database       *)
(* (src/src/scanner/mod.rs, the statements it issues in scanner/db.rs and  *)
(* the Claude parser), together with every other process that merely opens *)
(* the database: open_db + init_db rewrites the sessions table each time.  *)
(*                                                                         *)
(* No statement of the scan runs inside a transaction, so one action is    *)
(* one SQL statement (or one file-system call).  Any number of scanners    *)
(* and openers interleave, and a scanner may stop between two statements   *)
(* (a crash, or a statement error propagated by `?`).                      *)
(***************************************************************************)
EXTENDS Integers, Sequences, FiniteSets, FiniteSetsExt

CONSTANTS
    Files,          \* source paths, as numbers in the order paths sort in
    Sessions,       \* session keys
    MsgIds,         \* message ids
    NoId,           \* an empty message_id, stored as NULL
    ToolIds,        \* tool_use ids
    Contents,       \* for each file, the contents it may have: sequences of lines
    Scanners,       \* processes that run scan()
    Openers,        \* processes that only open the database (API, hook, MCP)
    None,
    Rewrites,       \* TRUE: files may also be replaced and removed
    MaxEdits,       \* bound: changes of the file system
    MaxCrashes      \* bound: interrupted scans

Procs == Scanners \cup Openers

\* A line of a transcript.  Title and user lines carry no usage.
Line == [kind : {"assistant", "user", "title"}, session : Sessions, ts : Nat,
         msg : MsgIds \cup {NoId}, cost : Nat, tools : Seq(ToolIds)]

ASSUME FilesAssumption == Files \subseteq Nat
ASSUME ContentsAssumption == \A f \in Files : \A c \in Contents[f] : c \in Seq(Line)
ASSUME NoneAssumption == None \notin Nat
ASSUME BoundsAssumption == /\ MaxEdits \in Nat
                           /\ MaxCrashes \in Nat
                           /\ Rewrites \in BOOLEAN
ASSUME ProcsAssumption == Scanners \cap Openers = {}

-----------------------------------------------------------------------------
(* Parsing a transcript: parse_claude_jsonl_file. *)

\* The positions whose records become turns: every assistant record without
\* a message id, and the last one of each message id.
Kept(c) == { i \in DOMAIN c :
               /\ c[i].kind = "assistant"
               /\ \/ c[i].msg = NoId
                  \/ \A j \in DOMAIN c :
                        (j > i /\ c[j].kind = "assistant") => c[j].msg # c[i].msg }

ParsedTurns(c) == { c[i] : i \in Kept(c) }

\* Sessions with a SessionMeta: those of user and assistant records.
MetaLines(c, s) == { i \in DOMAIN c : c[i].kind # "title" /\ c[i].session = s }
Metas(c) == { s \in Sessions : MetaLines(c, s) # {} }

Titled(c) == { s \in Sessions :
                 \E i \in DOMAIN c : c[i].kind = "title" /\ c[i].session = s }

\* first_timestamp and last_timestamp are the least and greatest of these.
Span(c, s) == { c[i].ts : i \in MetaLines(c, s) }

AllContents == UNION { Contents[f] : f \in Files }
TurnsOf(f) == UNION { ParsedTurns(c) : c \in Contents[f] }

\* Mutated form: the remainder of the division is dropped.
ShareWithoutRemainder(t, i) == t.cost \div Len(t.tools)

\* compute_tool_events_for_turn: the cost of a turn split over its tools,
\* the remainder on the first.
Share(t, i) == (t.cost \div Len(t.tools))
               + (IF i = 1 THEN t.cost % Len(t.tools) ELSE 0)

TurnEvents(t) == { [tool |-> t.tools[i], session |-> t.session, cost |-> Share(t, i)] :
                     i \in DOMAIN t.tools }

ToolsOf(c)  == UNION { { t.tools[i] : i \in DOMAIN t.tools } : t \in ParsedTurns(c) }
EventsOf(c) == UNION { TurnEvents(t) : t \in ParsedTurns(c) }

-----------------------------------------------------------------------------
VARIABLES
    fs,             \* the files: content and mtime, or None
    edits,          \* changes so far; also the clock mtimes are read from
    turns,          \* table turns: how many rows hold turn t of source f
    processed,      \* table processed_files: path -> mtime
    sessions,       \* table sessions
    invocations,    \* table tool_invocations: tool_use_id -> source_path
    toolEvents,     \* table tool_events: dedup_key -> row
    scan,           \* local state of each process
    crashes

db   == <<turns, processed, sessions, invocations, toolEvents>>
vars == <<fs, edits, db, scan, crashes>>

Rows == UNION { {f} \X TurnsOf(f) : f \in Files }

\* The totals of a sessions row are sums over turns; the row carries the
\* counts they are sums over, so that equal means equal for every column.
RowsOf(s) == [k \in Rows |-> IF k[2].session = s THEN turns[k] ELSE 0]
HasTurns(s) == \E k \in Rows : k[2].session = s /\ turns[k] > 0

FileTotals(f, c, s) ==
    [k \in Rows |-> IF k[1] = f /\ k[2] \in ParsedTurns(c) /\ k[2].session = s
                    THEN 1 ELSE 0]

Idle == [pc |-> "idle", todo |-> {}, stale |-> {}, file |-> None, mtime |-> None,
         dirty |-> FALSE, content |-> <<>>, pend |-> {}]

Init ==
    /\ fs = [f \in Files |-> None]
    /\ edits = 0
    /\ turns = [k \in Rows |-> 0]
    /\ processed = [f \in Files |-> None]
    /\ sessions = [s \in Sessions |-> None]
    /\ invocations = [u \in ToolIds |-> None]
    /\ toolEvents = [u \in ToolIds |-> None]
    /\ scan = [p \in Procs |-> Idle]
    /\ crashes = 0

At(p, stage) == scan[p].pc = stage
Goto(p, stage) == scan' = [scan EXCEPT ![p].pc = stage]

-----------------------------------------------------------------------------
(* The agents that write transcripts.  Every change gets an mtime more     *)
(* than the 10 ms tolerance away from the previous one.                    *)

Extends(c, d) == /\ Len(c) < Len(d)
                 /\ \A i \in DOMAIN c : d[i] = c[i]

WriteFile(f) ==
    /\ edits < MaxEdits
    /\ \E c \in Contents[f] :
          /\ (~Rewrites /\ fs[f] # None) => Extends(fs[f].content, c)
          /\ fs' = [fs EXCEPT ![f] = [content |-> c, mtime |-> edits + 1]]
    /\ edits' = edits + 1
    /\ UNCHANGED <<db, scan, crashes>>

RemoveFile(f) ==
    /\ Rewrites
    /\ edits < MaxEdits
    /\ fs[f] # None
    /\ fs' = [fs EXCEPT ![f] = None]
    /\ edits' = edits + 1
    /\ UNCHANGED <<db, scan, crashes>>

-----------------------------------------------------------------------------
(* Opening the database: recompute_session_totals inside init_db, two      *)
(* statements of one batch.                                                *)

\* Mutated forms: the first statement skipped on open; the second without effect.
OpenWithoutRecompute(p) ==
    /\ At(p, "idle") \/ At(p, "dead")
    /\ scan' = [scan EXCEPT ![p] = [Idle EXCEPT !.pc = "opened"]]
    /\ UNCHANGED <<fs, edits, db, crashes>>
EverySessionKept == sessions

RecomputedTotals ==
    [s \in Sessions |-> IF sessions[s] = None THEN None
                        ELSE [sessions[s] EXCEPT !.totals = RowsOf(s)]]
PrunedSessions ==
    [s \in Sessions |-> IF HasTurns(s) THEN sessions[s] ELSE None]

OpenDb(p) ==
    /\ At(p, "idle") \/ At(p, "dead")
    /\ sessions' = RecomputedTotals
    /\ scan' = [scan EXCEPT ![p] = [Idle EXCEPT !.pc = "opened"]]
    /\ UNCHANGED <<fs, edits, turns, processed, invocations, toolEvents, crashes>>

PruneOnOpen(p) ==
    /\ At(p, "opened")
    /\ sessions' = PrunedSessions
    /\ Goto(p, IF p \in Scanners THEN "discover" ELSE "idle")
    /\ UNCHANGED <<fs, edits, turns, processed, invocations, toolEvents, crashes>>

-----------------------------------------------------------------------------
(* The stale sweep: rows of files that are no longer there. *)

\* Both loops go through their files in path order.
FirstOf(f, S) == \A g \in S : f =< g

Discover(p) ==
    /\ At(p, "discover")
    /\ scan' = [scan EXCEPT ![p].pc = "list", ![p].todo = {f \in Files : fs[f] # None}]
    /\ UNCHANGED <<fs, edits, db, crashes>>

ListProcessed(p) ==
    /\ At(p, "list")
    /\ scan' = [scan EXCEPT ![p].pc = "sweep",
                            ![p].stale = {f \in Files : processed[f] # None}
                                         \ scan[p].todo]
    /\ UNCHANGED <<fs, edits, db, crashes>>

SweepNext(p) ==
    /\ At(p, "sweep")
    /\ \E f \in scan[p].stale :
          /\ FirstOf(f, scan[p].stale)
          /\ scan' = [scan EXCEPT ![p].pc = "delTurns", ![p].file = f]
    /\ UNCHANGED <<fs, edits, db, crashes>>

SweepDone(p) ==
    /\ At(p, "sweep")
    /\ scan[p].stale = {}
    /\ Goto(p, "next")
    /\ UNCHANGED <<fs, edits, db, crashes>>

\* Mutated form: the rows of the file are left in place.
LeaveTurns(p) ==
    /\ At(p, "delTurns")
    /\ Goto(p, "delInvocations")
    /\ UNCHANGED <<fs, edits, db, crashes>>

DeleteTurns(p) ==
    /\ At(p, "delTurns")
    /\ turns' = [k \in Rows |-> IF k[1] = scan[p].file THEN 0 ELSE turns[k]]
    /\ Goto(p, "delInvocations")
    /\ UNCHANGED <<fs, edits, processed, sessions, invocations, toolEvents, crashes>>

DeleteInvocations(p) ==
    /\ At(p, "delInvocations")
    /\ invocations' = [u \in ToolIds |-> IF invocations[u] = scan[p].file THEN None
                                         ELSE invocations[u]]
    /\ Goto(p, "delEvents")
    /\ UNCHANGED <<fs, edits, turns, processed, sessions, toolEvents, crashes>>

\* The third delete of both users: the sweep goes on to delete the mark, the
\* update of a changed file goes on to parse it.
DeleteEvents(p) ==
    /\ At(p, "delEvents")
    /\ toolEvents' = [u \in ToolIds |->
                        IF toolEvents[u] # None /\ toolEvents[u].src = scan[p].file
                        THEN None ELSE toolEvents[u]]
    /\ \/ /\ scan[p].stale # {}
          /\ Goto(p, "forget")
       \/ /\ scan[p].stale = {}
          /\ scan' = [scan EXCEPT ![p].pc = "parse", ![p].dirty = TRUE]
    /\ UNCHANGED <<fs, edits, turns, processed, sessions, invocations, crashes>>

KeepMark(p) ==
    /\ At(p, "forget")
    /\ scan' = [scan EXCEPT ![p].pc = "sweep", ![p].dirty = TRUE, ![p].file = None,
                            ![p].stale = @ \ {scan[p].file}]
    /\ UNCHANGED <<fs, edits, db, crashes>>

DeleteProcessed(p) ==
    /\ At(p, "forget")
    /\ processed' = [processed EXCEPT ![scan[p].file] = None]
    /\ scan' = [scan EXCEPT ![p].pc = "sweep", ![p].dirty = TRUE,
                            ![p].file = None, ![p].stale = @ \ {scan[p].file}]
    /\ UNCHANGED <<fs, edits, turns, sessions, invocations, toolEvents, crashes>>

-----------------------------------------------------------------------------
(* The file loop. *)

\* The loop goes round: only todo and any_changes outlive the body.
NextOf(l) == [pc |-> "next", todo |-> l.todo, stale |-> {}, file |-> None, mtime |-> None,
              dirty |-> l.dirty, content |-> <<>>, pend |-> {}]

\* metadata() fails: the file went away since the discovery.
SkipVanished(p) ==
    /\ At(p, "next")
    /\ \E f \in scan[p].todo :
          /\ FirstOf(f, scan[p].todo)
          /\ fs[f] = None
          /\ scan' = [scan EXCEPT ![p].todo = @ \ {f}]
    /\ UNCHANGED <<fs, edits, db, crashes>>

StatFile(p) ==
    /\ At(p, "next")
    /\ \E f \in scan[p].todo :
          /\ FirstOf(f, scan[p].todo)
          /\ fs[f] # None
          /\ scan' = [scan EXCEPT ![p].pc = "lookup", ![p].todo = @ \ {f},
                                  ![p].file = f, ![p].mtime = fs[f].mtime]
    /\ UNCHANGED <<fs, edits, db, crashes>>

\* get_processed_file: unchanged, new, or updated.
SkipUnchanged(p) ==
    /\ At(p, "lookup")
    /\ processed[scan[p].file] = scan[p].mtime
    /\ scan' = [scan EXCEPT ![p] = NextOf(scan[p])]
    /\ UNCHANGED <<fs, edits, db, crashes>>

TakeNew(p) ==
    /\ At(p, "lookup")
    /\ processed[scan[p].file] = None
    /\ Goto(p, "parse")
    /\ UNCHANGED <<fs, edits, db, crashes>>

TakeUpdated(p) ==
    /\ At(p, "lookup")
    /\ processed[scan[p].file] \notin {None, scan[p].mtime}
    /\ Goto(p, "delTurns")
    /\ UNCHANGED <<fs, edits, db, crashes>>

\* parse_source reads the file as it is now; a file that cannot be opened
\* any more parses to nothing.
ParseFile(p) ==
    /\ At(p, "parse")
    /\ LET c == IF fs[scan[p].file] = None THEN <<>> ELSE fs[scan[p].file].content
       IN  scan' = [scan EXCEPT ![p].pc = IF Metas(c) = {} THEN "mark" ELSE "upsert",
                                ![p].content = c, ![p].pend = Metas(c)]
    /\ UNCHANGED <<fs, edits, db, crashes>>

Consume(p, x) == scan' = [scan EXCEPT ![p].pend = @ \ {x}]

\* INSERT .. ON CONFLICT DO UPDATE: totals and timestamps of this file alone,
\* the title of an existing row kept.
UpsertSession(p) ==
    /\ At(p, "upsert")
    /\ \E s \in scan[p].pend :
          /\ sessions' = [sessions EXCEPT ![s] =
                [totals |-> FileTotals(scan[p].file, scan[p].content, s),
                 span   |-> Span(scan[p].content, s),
                 titled |-> sessions[s] # None /\ sessions[s].titled]]
          /\ Consume(p, s)
    /\ UNCHANGED <<fs, edits, turns, processed, invocations, toolEvents, crashes>>

\* Mutated form: no unique index on message_id.
NothingCollides(t) == FALSE

\* The unique index on (provider, message_id) ignores rows without an id.
Collides(t) == /\ t.msg # NoId
               /\ \E k \in Rows : k[2].msg = t.msg /\ turns[k] > 0

InsertTurn(p) ==
    /\ At(p, "insert")
    /\ \E t \in scan[p].pend :
          /\ turns' = IF Collides(t) THEN turns
                      ELSE [turns EXCEPT ![<<scan[p].file, t>>] = @ + 1]
          /\ Consume(p, t)
    /\ UNCHANGED <<fs, edits, processed, sessions, invocations, toolEvents, crashes>>

InsertInvocation(p) ==
    /\ At(p, "invoke")
    /\ \E u \in scan[p].pend :
          /\ invocations' = IF invocations[u] # None THEN invocations
                            ELSE [invocations EXCEPT ![u] = scan[p].file]
          /\ Consume(p, u)
    /\ UNCHANGED <<fs, edits, turns, processed, sessions, toolEvents, crashes>>

\* sync_session_titles overwrites: no title line in this file clears it.
SyncTitle(p) ==
    /\ At(p, "title")
    /\ \E s \in scan[p].pend :
          /\ sessions' = IF sessions[s] = None THEN sessions
                         ELSE [sessions EXCEPT ![s] =
                                 [totals |-> @.totals, span |-> @.span,
                                  titled |-> s \in Titled(scan[p].content)]]
          /\ Consume(p, s)
    /\ UNCHANGED <<fs, edits, turns, processed, invocations, toolEvents, crashes>>

InsertEvent(p) ==
    /\ At(p, "event")
    /\ \E e \in scan[p].pend :
          /\ toolEvents' = IF toolEvents[e.tool] # None THEN toolEvents
                           ELSE [toolEvents EXCEPT ![e.tool] =
                                   [src |-> scan[p].file, session |-> e.session,
                                    cost |-> e.cost]]
          /\ Consume(p, e)
    /\ UNCHANGED <<fs, edits, turns, processed, sessions, invocations, crashes>>

\* One batch is done: on to the next call of the loop body.
PhaseDone(p) ==
    /\ scan[p].pend = {}
    /\ LET c == scan[p].content
       IN \/ /\ At(p, "upsert")
             /\ scan' = [scan EXCEPT ![p].pc = "insert", ![p].pend = ParsedTurns(c)]
          \/ /\ At(p, "insert")
             /\ scan' = [scan EXCEPT ![p].pc = "invoke", ![p].pend = ToolsOf(c)]
          \/ /\ At(p, "invoke")
             /\ scan' = [scan EXCEPT ![p].pc = "title", ![p].pend = Metas(c)]
          \/ /\ At(p, "title")
             /\ scan' = [scan EXCEPT ![p].pc = "event", ![p].pend = EventsOf(c)]
          \/ /\ At(p, "event")
             /\ scan' = [scan EXCEPT ![p].pc = "mark", ![p].dirty = TRUE]
    /\ UNCHANGED <<fs, edits, db, crashes>>

\* upsert_processed_file with the mtime taken before the parse.
MarkProcessed(p) ==
    /\ At(p, "mark")
    /\ processed' = [processed EXCEPT ![scan[p].file] = scan[p].mtime]
    /\ scan' = [scan EXCEPT ![p] = NextOf(scan[p])]
    /\ UNCHANGED <<fs, edits, turns, sessions, invocations, toolEvents, crashes>>

-----------------------------------------------------------------------------
(* The end of the scan. *)

\* Mutated form: the scan ends without looking at any_changes.
FinishAlways(p) ==
    /\ At(p, "next")
    /\ scan[p].todo = {}
    /\ scan' = [scan EXCEPT ![p] = Idle]
    /\ UNCHANGED <<fs, edits, db, crashes>>

FinishUnchanged(p) ==
    /\ At(p, "next")
    /\ scan[p].todo = {}
    /\ ~scan[p].dirty
    /\ scan' = [scan EXCEPT ![p] = Idle]
    /\ UNCHANGED <<fs, edits, db, crashes>>

RecomputeTotals(p) ==
    /\ At(p, "next")
    /\ scan[p].todo = {}
    /\ scan[p].dirty
    /\ sessions' = RecomputedTotals
    /\ Goto(p, "drop")
    /\ UNCHANGED <<fs, edits, turns, processed, invocations, toolEvents, crashes>>

DropEmptySessions(p) ==
    /\ At(p, "drop")
    /\ sessions' = PrunedSessions
    /\ scan' = [scan EXCEPT ![p] = Idle]
    /\ UNCHANGED <<fs, edits, turns, processed, invocations, toolEvents, crashes>>

\* The scan stops where it is: the process dies, or a statement fails.
Crash(p) ==
    /\ p \in Scanners
    /\ ~At(p, "idle")
    /\ ~At(p, "dead")
    /\ crashes < MaxCrashes
    /\ crashes' = crashes + 1
    /\ scan' = [scan EXCEPT ![p] = [Idle EXCEPT !.pc = "dead"]]
    /\ UNCHANGED <<fs, edits, db>>

ScanStep(p) ==
    \/ OpenDb(p) \/ PruneOnOpen(p)
    \/ Discover(p) \/ ListProcessed(p) \/ SweepNext(p) \/ SweepDone(p)
    \/ DeleteTurns(p) \/ DeleteInvocations(p) \/ DeleteEvents(p) \/ DeleteProcessed(p)
    \/ SkipVanished(p) \/ StatFile(p)
    \/ SkipUnchanged(p) \/ TakeNew(p) \/ TakeUpdated(p) \/ ParseFile(p)
    \/ UpsertSession(p) \/ InsertTurn(p) \/ InsertInvocation(p)
    \/ SyncTitle(p) \/ InsertEvent(p) \/ PhaseDone(p) \/ MarkProcessed(p)
    \/ FinishUnchanged(p) \/ RecomputeTotals(p) \/ DropEmptySessions(p)

Next ==
    \/ \E f \in Files : WriteFile(f) \/ RemoveFile(f)
    \/ \E p \in Procs : ScanStep(p) \/ Crash(p)

Spec == Init /\ [][Next]_vars

\* A scan that runs goes on, and scans keep being started (the file watcher,
\* the background poll, the next command).
FairSpec == Spec /\ \A p \in Scanners : WF_vars(ScanStep(p))

-----------------------------------------------------------------------------
(* Type invariant *)

Stages == {"idle", "dead", "opened", "discover", "list", "sweep", "delTurns",
           "delInvocations", "delEvents", "forget", "next", "lookup", "parse",
           "upsert", "insert", "invoke", "title", "event", "mark", "drop"}

Filing   == {"lookup", "parse", "upsert", "insert", "invoke", "title", "event", "mark"}
Deleting == {"delTurns", "delInvocations", "delEvents", "forget"}

EventRow  == [src : Files, session : Sessions, cost : Nat]
EventItem == [tool : ToolIds, session : Sessions, cost : Nat]

Local == [pc : Stages, todo : SUBSET Files, stale : SUBSET Files,
          file : Files \cup {None}, mtime : Nat \cup {None}, dirty : BOOLEAN,
          content : AllContents \cup {<<>>},
          pend : SUBSET (Sessions \cup ToolIds \cup EventItem
                         \cup UNION { TurnsOf(f) : f \in Files })]

\* What the local state of a process holds at each stage.
LocalOK(l) ==
    /\ l.pc \in Filing \cup Deleting => l.file \in Files
    /\ l.pc \in Filing => l.mtime \in Nat
    /\ l.pc \in Filing \ {"lookup", "parse"} => l.content \in Contents[l.file] \cup {<<>>}
    /\ (l.pc \in Deleting /\ l.stale = {}) => l.mtime \in Nat
    /\ l.pc \in {"upsert", "title"} => l.pend \subseteq Sessions
    /\ l.pc = "insert" => l.pend \subseteq TurnsOf(l.file)
    /\ l.pc = "invoke" => l.pend \subseteq ToolIds
    /\ l.pc = "event"  => l.pend \subseteq EventItem

SessionRow == [totals : [Rows -> Nat], span : SUBSET Nat, titled : BOOLEAN]
\* A session or an event that is not there is no row.
ASSUME RowAssumption == None \notin SessionRow
ASSUME EventAssumption == None \notin EventRow

FilesOK == /\ fs \in [Files -> [content : AllContents, mtime : Nat] \cup {None}]
           /\ \A f \in Files : fs[f] # None => fs[f].content \in Contents[f]
           /\ edits \in 0..MaxEdits

DbOK == /\ turns \in [Rows -> Nat]
        /\ processed \in [Files -> Nat \cup {None}]
        /\ sessions \in [Sessions -> SessionRow \cup {None}]
        /\ invocations \in [ToolIds -> Files \cup {None}]
        /\ toolEvents \in [ToolIds -> EventRow \cup {None}]

ScansOK == /\ scan \in [Procs -> Local]
           /\ \A p \in Procs : LocalOK(scan[p])
           /\ crashes \in 0..MaxCrashes

\* Every variable has its type, and a process that works on a file has one,
\* with a batch of the kind its stage writes.
TypeOK == FilesOK /\ DbOK /\ ScansOK

-----------------------------------------------------------------------------
(* Properties *)

Quiet == \A p \in Procs : At(p, "idle")

\* The mark of every file is its mtime: a scan would find nothing to do.
Current == \A f \in Files : processed[f] = IF fs[f] = None THEN None ELSE fs[f].mtime

TurnsNow(f) == IF fs[f] = None THEN {} ELSE ParsedTurns(fs[f].content)

\* When nothing runs and every file is marked with its mtime, the table turns
\* holds exactly the turns of the files, each once.
TurnsExact ==
    Quiet /\ Current =>
        \A k \in Rows : turns[k] = IF k[2] \in TurnsNow(k[1]) THEN 1 ELSE 0

\* When nothing runs, the totals of every session are those of its turns: each
\* scan recomputes after its last write, whatever the others did in between.
TotalsExact ==
    Quiet => \A s \in Sessions :
                sessions[s] # None => sessions[s].totals = RowsOf(s)

\* When nothing runs, a session is listed exactly if it has turns.
SessionsMatchTurns ==
    Quiet => \A s \in Sessions : (sessions[s] # None) <=> HasTurns(s)

\* When nothing runs, the tool events of a stored turn add up to its cost, and
\* every tool event belongs to a stored turn.
ToolCostsAddUp ==
    Quiet =>
      /\ \A k \in Rows : (turns[k] > 0 /\ k[2].tools # <<>>) =>
            LET used == { u \in ToolIds : \E i \in DOMAIN k[2].tools : k[2].tools[i] = u }
            IN  /\ \A u \in used : toolEvents[u] # None
                /\ MapThenSumSet(LAMBDA u : toolEvents[u].cost, used) = k[2].cost
      /\ \A u \in ToolIds : toolEvents[u] # None =>
            \E k \in Rows : /\ turns[k] > 0
                            /\ k[1] = toolEvents[u].src
                            /\ \E i \in DOMAIN k[2].tools : k[2].tools[i] = u

\* Rows of a file that has no mark can be removed by no later scan: they exist
\* only while a scan works on that file.
NoOrphanRows ==
    \A f \in Files :
        (processed[f] = None /\ \E k \in Rows : k[1] = f /\ turns[k] > 0)
            => \E p \in Procs : scan[p].file = f

\* The interval of a session row covers the turns of the session.
WindowCoversTurns ==
    Quiet => \A s \in Sessions : sessions[s] # None =>
        \A k \in Rows : (k[2].session = s /\ turns[k] > 0) =>
            \E lo, hi \in sessions[s].span : lo =< k[2].ts /\ k[2].ts =< hi

\* A session is titled exactly if a title line of a file names it.
TitleKept ==
    Quiet /\ Current =>
        \A s \in Sessions : sessions[s] # None =>
            (sessions[s].titled <=>
                \E f \in Files : fs[f] # None /\ s \in Titled(fs[f].content))

\* Every message of a file is stored exactly once, under that file or another
\* one, whatever scans died half-way.
MessagesOnce ==
    Quiet /\ Current =>
        \A f \in Files : \A t \in TurnsNow(f) : t.msg # NoId =>
            \E k \in Rows :
                /\ k[2].msg = t.msg /\ turns[k] = 1
                /\ \A j \in Rows : j[2].msg = t.msg /\ turns[j] > 0 => j = k

\* The stored record of a message is the last one its own file holds.
LastRecordWins ==
    Quiet /\ Current =>
        \A k \in Rows : (turns[k] > 0 /\ k[2].msg # NoId) => k[2] \in TurnsNow(k[1])

\* Once the files stop changing, scanning comes to rest with every file
\* marked: it does not go on finding changes.
ScansConverge == <>[]Current

=============================================================================
