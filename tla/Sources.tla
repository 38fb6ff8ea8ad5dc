------------------------------- MODULE Sources -------------------------------
(* The providers other than Claude: how the log of a Codex, Pi, Amp,         *)
(* OpenCode, Cursor or Copilot session becomes rows, and how a scan takes    *)
(* the files of such a provider into the database while their programs write *)
(* to them.  Cursor keeps a sidecar file that says which version of a        *)
(* workspace was read last.                                                  *)
EXTENDS Integers, Sequences, FiniteSets, SequencesExt, FiniteSetsExt

CONSTANTS
    Files,      \* the paths a session log may be at, in the order of the scan
    Archived,   \* those of them in Codex's archive
    Kinds,      \* the providers of an instance
    Alphabet,   \* what the program of each may write, one line or entry at a time
    MaxLog      \* records written in all

\* What an instance must satisfy.
SourcesAssumption ==
    /\ Files \subseteq Nat \ {0} /\ Files # {} /\ Archived \subseteq Files
    /\ MaxLog \in Nat
    /\ Kinds \subseteq {"codex", "pi", "amp", "opencode", "cursor", "copilot"}
    /\ \A k \in Kinds : \A r \in Alphabet[k] :
        /\ r.id \in Nat /\ r.to \in Nat /\ r.tokens \in Nat
        /\ k = "codex" => r.what \in {"meta", "context", "started", "count", "call", "end"}

VARIABLES
    kind,       \* the provider of this behaviour
    log,        \* what each file holds
    mtime,      \* when it was last written; 0: it does not exist
    clock,
    rows,       \* table turns
    marks,      \* table processed_files: the mtime a file was read at
    sidecar,    \* Cursor's cache: the mtime its sidecar names
    pc, cur,    \* the scan: its step and its file
    stamp, got, \* the mtime it took, the turns it parsed
    excused,    \* files whose rows may be missing (see SourcesStored)
    hidden      \* the turns of a file left out because another's row had their id

vars == <<kind, log, mtime, clock, rows, marks, sidecar, pc, cur, stamp, got, excused, hidden>>

---------------------------------------------------------------------------
(* Records: a kind of line, an id, a reference and an amount, 0 when absent.  *)
(* In a log the ids belong to the file that a program wrote them to: they are  *)
(* pairs that begin with it, so that no two files are given one id (an event of *)
(* Amp goes by its thread and its own id).  Not so the messages of OpenCode,    *)
(* which are known within their session: a pair that begins with 0 may be       *)
(* another file's as well.                                                      *)

Rec(what, id, to, tokens) == [what |-> what, id |-> id, to |-> to, tokens |-> tokens]
Row(id, session, tokens, extra) ==
    [id |-> id, session |-> session, tokens |-> tokens, extra |-> extra]

NoId == <<0, 0>>
IdIn(f, n) == IF n = 0 THEN NoId ELSE <<f, n>>
Own(k, r, f) ==
    Rec(r.what, IF k = "opencode" THEN <<0, r.id>> ELSE IdIn(f, r.id), IdIn(f, r.to), r.tokens)

\* An id a program leaves out is made from the place of the record in the file,
\* or from its place alone: that is the same in every file.
Place(f, n) == <<f, -n>>
LinePlace(n) == <<0, n>>

\* The session of a file that names none, from the name of the file.
StemOf(f) == <<f, 0>>

\* What is parsed is a function from the places of its turns in the log, or from
\* their ids, to their rows.
Nothing == [x \in {} |-> x]

\* `f` with x mapped to y, whether it was in its domain or not.
Put(f, x, y) == [z \in DOMAIN f \cup {x} |-> IF z = x THEN y ELSE f[z]]
Get(f, x, other) == IF x \in DOMAIN f THEN f[x] ELSE other

\* The first row of each id.
FirstOf(out) ==
    {out[i] : i \in {i \in DOMAIN out :
        \A j \in DOMAIN out : out[j].id = out[i].id => j = i \/ i < j}}

---------------------------------------------------------------------------
(* Codex *)

CodexStart(f) ==
    [n |-> 0, session |-> StemOf(f), current |-> NoId, model |-> NoId,
     contexts |-> Nothing, tools |-> Nothing, failed |-> {}, turns |-> Nothing]

CodexMeta(s, r) == [s EXCEPT !.session = r.id]

CodexContext(s, r) ==
    IF r.id = NoId THEN s
    ELSE [s EXCEPT !.current = r.id, !.contexts = Put(@, r.id, r.to),
                   !.model = IF r.to # NoId THEN r.to ELSE @]

\* A task without an id leaves no turn current.
CodexStarted(s, r) ==
    [s EXCEPT !.current = r.id,
              !.contexts = IF r.id = NoId \/ r.id \in DOMAIN @ THEN @
                           ELSE Put(@, r.id, s.model)]

CodexTurn(s) == IF s.current # NoId THEN s.current ELSE LinePlace(s.n)

\* The last count of a turn is its usage, also one that counts nothing.
CodexCount(s, r) ==
    LET turn == CodexTurn(s)
        own == Get(s.contexts, turn, NoId)
        model == IF own # NoId THEN own ELSE s.model
    IN [s EXCEPT !.turns = Put(@, turn, Row(turn, s.session, r.tokens, model)),
                 !.model = IF model # NoId THEN model ELSE @]

CodexCall(s, r) ==
    [s EXCEPT !.tools = Put(@, CodexTurn(s), Get(@, CodexTurn(s), {}) \cup {r.id})]

CodexEnd(s, r) ==
    [s EXCEPT !.failed = IF r.tokens # 0 THEN @ \cup {r.id} ELSE @ \ {r.id}]

CodexLine(s, r) ==
    LET t == [s EXCEPT !.n = @ + 1]
    IN CASE r.what = "meta" -> CodexMeta(t, r)
         [] r.what = "context" -> CodexContext(t, r)
         [] r.what = "started" -> CodexStarted(t, r)
         [] r.what = "count" -> CodexCount(t, r)
         [] r.what = "call" -> CodexCall(t, r)
         [] r.what = "end" -> CodexEnd(t, r)

\* One row per turn.
ParseCodex(f, lines) ==
    LET read[n \in 0..Len(lines)] ==
            IF n = 0 THEN CodexStart(f) ELSE CodexLine(read[n - 1], lines[n])
    IN read[Len(lines)].turns

---------------------------------------------------------------------------
(* The others *)

\* Lines without an id or without tokens are skipped; the last one of a
\* response is its usage.
PiLine(f, seen, r) ==
    IF r.id = NoId \/ r.tokens = 0 THEN seen
    ELSE Put(seen, r.id, Row(r.id, StemOf(f), r.tokens, 0))

ParsePi(f, lines) ==
    LET seen[n \in 0..Len(lines)] ==
            IF n = 0 THEN Nothing ELSE PiLine(f, seen[n - 1], lines[n])
    IN seen[Len(lines)]

\* The cached tokens of an event are those of the message it led to, wherever
\* that stands in the thread.
Cached(entries, id) ==
    LET places == {i \in DOMAIN entries : entries[i].what = "message" /\ entries[i].id = id}
    IN IF id = NoId \/ places = {} THEN 0 ELSE entries[Max(places)].tokens

\* The first event of an id counts.
AmpEvent(f, seen, r, cached) ==
    IF r.what # "event" \/ r.id = NoId \/ r.id \in DOMAIN seen THEN seen
    ELSE Put(seen, r.id, Row(r.id, StemOf(f), r.tokens, cached))

ParseAmp(f, entries) ==
    LET seen[n \in 0..Len(entries)] ==
            IF n = 0 THEN Nothing
            ELSE AmpEvent(f, seen[n - 1], entries[n], Cached(entries, entries[n].to))
    IN seen[Len(entries)]

\* A message without an id goes by the rowid its table gave it.
MessageId(entries, i) == IF entries[i].id # NoId THEN entries[i].id ELSE LinePlace(i)

\* The first row of a session and id counts, and one without tokens hides those
\* after it.  The turn has the id alone.
ParseOpencode(f, entries) ==
    LET Key(i) == <<entries[i].to, MessageId(entries, i)>>
        first == {i \in DOMAIN entries : \A j \in 1 .. i - 1 : Key(j) # Key(i)}
    IN [i \in {i \in first : entries[i].tokens # 0} |->
            Row(MessageId(entries, i), entries[i].to, entries[i].tokens, 0)]

\* The id of a record, or one that says where it stands.
IdAt(f, entries, i) == IF entries[i].id # NoId THEN entries[i].id ELSE Place(f, i)

\* Every answer with tokens is a turn; the index of the table drops repeats.
ParseCursor(f, entries) ==
    [i \in {i \in DOMAIN entries : entries[i].what = "ai" /\ entries[i].tokens # 0} |->
        Row(IdAt(f, entries, i), StemOf(f), entries[i].tokens, 0)]

ParseCopilot(f, entries) ==
    [i \in {i \in DOMAIN entries : entries[i].tokens # 0} |->
        Row(IdAt(f, entries, i), StemOf(f), entries[i].tokens, 0)]

Parse(f, lines) ==
    CASE kind = "codex" -> ParseCodex(f, lines)
      [] kind = "pi" -> ParsePi(f, lines)
      [] kind = "amp" -> ParseAmp(f, lines)
      [] kind = "opencode" -> ParseOpencode(f, lines)
      [] kind = "cursor" -> ParseCursor(f, lines)
      [] kind = "copilot" -> ParseCopilot(f, lines)

---------------------------------------------------------------------------
(* The programs that write the logs *)

Init ==
    /\ kind \in Kinds
    /\ log = [f \in Files |-> <<>>] /\ mtime = [f \in Files |-> 0] /\ clock = 0
    /\ rows = {} /\ marks = [f \in Files |-> 0] /\ sidecar = [f \in Files |-> 0]
    /\ pc = "idle" /\ cur = 0 /\ stamp = 0 /\ got = Nothing
    /\ excused = {} /\ hidden = {}

scanner == <<rows, marks, sidecar, pc, cur, stamp, got, hidden>>

\* The paths whose programs made the ids in a log; 0 for the ids of no file.
Origins(f) == {log[f][i].id[1] : i \in DOMAIN log[f]} \ {0}

\* A log is written where it began, and its path is not used again once it is moved.
Grows(f) == f \notin Archived /\ \A g \in Files \ {f} : f \notin Origins(g)

Write ==
    /\ clock < MaxLog
    /\ \E f \in Files, r \in Alphabet[kind] :
        /\ Grows(f)
        /\ log' = [log EXCEPT ![f] = Append(@, Own(kind, r, f))]
        /\ mtime' = [mtime EXCEPT ![f] = clock + 1]
        /\ excused' = IF kind = "cursor" /\ cur = f /\ pc \in {"read", "stat"}
                      THEN excused \cup {f} ELSE excused
    /\ clock' = clock + 1
    /\ UNCHANGED <<kind, scanner>>

\* Codex moves a session that is over to its archive: the file keeps its time.
\* A scan under way that has not swept the old path ignores the rows of the new.
Archive ==
    /\ kind = "codex"
    /\ \E f \in Files \ Archived, g \in Archived :
        /\ mtime[f] # 0 /\ mtime[g] = 0
        /\ log' = [log EXCEPT ![f] = <<>>, ![g] = log[f]]
        /\ mtime' = [mtime EXCEPT ![f] = 0, ![g] = mtime[f]]
        /\ excused' = IF pc # "idle" \/ f \in excused THEN excused \cup {f, g}
                      ELSE excused
    /\ UNCHANGED <<kind, clock, scanner>>

---------------------------------------------------------------------------
(* The scan *)

\* Rows of files that are gone go first.
Sweep ==
    LET stale == {f \in Files : marks[f] # 0 /\ mtime[f] = 0}
    IN /\ rows' = {r \in rows : r.file \notin stale}
       /\ marks' = [f \in Files |-> IF f \in stale THEN 0 ELSE marks[f]]

Start ==
    /\ pc = "idle"
    /\ Sweep
    /\ pc' = "look" /\ cur' = Min(Files) /\ stamp' = 0 /\ got' = Nothing
    /\ UNCHANGED <<kind, log, mtime, clock, sidecar, excused, hidden>>

Advance ==
    IF \E f \in Files : f > cur
    THEN pc' = "look" /\ cur' = Min({f \in Files : f > cur})
    ELSE pc' = "idle" /\ cur' = 0

Skip ==
    /\ pc = "look" /\ mtime[cur] \in {0, marks[cur]}
    /\ Advance
    /\ UNCHANGED <<kind, log, mtime, clock, rows, marks, sidecar, stamp, got, excused, hidden>>

HiddenAt(f) == {h \in hidden : h[1] = f}

Look ==
    /\ pc = "look" /\ mtime[cur] \notin {0, marks[cur]}
    /\ stamp' = mtime[cur]
    /\ rows' = IF marks[cur] # 0 THEN {r \in rows : r.file # cur} ELSE rows
    /\ pc' = "read"
    /\ hidden' = hidden \ HiddenAt(cur)
    /\ UNCHANGED <<kind, log, mtime, clock, marks, sidecar, cur, got, excused>>

IsCacheFresh(f) == kind = "cursor" /\ sidecar[f] # 0 /\ sidecar[f] = mtime[f]

\* A workspace its sidecar calls fresh yields nothing.
ReadCached ==
    /\ pc = "read" /\ IsCacheFresh(cur)
    /\ got' = Nothing /\ pc' = "store"
    /\ UNCHANGED <<kind, log, mtime, clock, rows, marks, sidecar, cur, stamp, excused, hidden>>

Read ==
    /\ pc = "read" /\ ~IsCacheFresh(cur)
    /\ got' = Parse(cur, log[cur])
    /\ pc' = IF kind = "cursor" THEN "stat" ELSE "store"
    /\ excused' = IF marks[cur] # 0 /\ stamp = mtime[cur] THEN excused \ {cur}
                  ELSE excused
    /\ UNCHANGED <<kind, log, mtime, clock, rows, marks, sidecar, cur, stamp, hidden>>

\* A file that cannot be opened yields nothing and counts as read.
Unreadable ==
    /\ pc = "read" /\ ~IsCacheFresh(cur)
    /\ got' = Nothing
    /\ pc' = IF kind = "cursor" THEN "stat" ELSE "store"
    /\ excused' = excused \cup {cur}
    /\ UNCHANGED <<kind, log, mtime, clock, rows, marks, sidecar, cur, stamp, hidden>>

\* The sidecar takes the time the workspace has now, after it was read.
SaveCache ==
    /\ pc = "stat"
    /\ sidecar' = [sidecar EXCEPT ![cur] = mtime[cur]]
    /\ pc' = "store"
    /\ UNCHANGED <<kind, log, mtime, clock, rows, marks, cur, stamp, got, excused, hidden>>

\* A row whose id is taken is ignored, also within one file.
InsertTurns ==
    LET new == {r \in FirstOf(got) : \A s \in rows : s.row.id # r.id}
    IN rows \cup {[row |-> r, file |-> cur] : r \in new}

\* The ids parsed that rows of other files have.
TakenIds == {r.id : r \in {r \in FirstOf(got) : \E s \in rows : s.file # cur /\ s.row.id = r.id}}

Store ==
    /\ pc = "store"
    /\ rows' = InsertTurns
    /\ hidden' = hidden \cup ({cur} \X TakenIds)
    /\ pc' = "mark"
    /\ UNCHANGED <<kind, log, mtime, clock, marks, sidecar, cur, stamp, got, excused>>

\* Mutated form: the file is marked with the time it has by now.
MarkNow ==
    /\ pc = "mark"
    /\ marks' = [marks EXCEPT ![cur] = mtime[cur]]
    /\ Advance
    /\ got' = Nothing /\ stamp' = 0
    /\ UNCHANGED <<kind, log, mtime, clock, rows, sidecar, excused, hidden>>

Mark ==
    /\ pc = "mark"
    /\ marks' = [marks EXCEPT ![cur] = stamp]
    /\ Advance
    /\ got' = Nothing /\ stamp' = 0
    /\ UNCHANGED <<kind, log, mtime, clock, rows, sidecar, excused, hidden>>

\* The process dies.  A sidecar saved before the rows were outlives it, and rows
\* of a file that has no mark yet stay when it is read again.
Crash ==
    /\ pc # "idle"
    /\ pc' = "idle" /\ cur' = 0 /\ stamp' = 0 /\ got' = Nothing
    /\ excused' = IF pc # "look" /\ (kind = "cursor" \/ (pc = "mark" /\ marks[cur] = 0))
                  THEN excused \cup {cur} ELSE excused
    /\ UNCHANGED <<kind, log, mtime, clock, rows, marks, sidecar, hidden>>

\* The database is made anew (db reset, POST /api/rescan): every file is read
\* again, only sidecars stay.
Reset ==
    /\ pc = "idle" /\ rows # {}
    /\ rows' = {} /\ marks' = [f \in Files |-> 0] /\ hidden' = {}
    /\ excused' = IF kind = "cursor" THEN Files ELSE {}
    /\ UNCHANGED <<kind, log, mtime, clock, sidecar, pc, cur, stamp, got>>

Next ==
    \/ Write \/ Archive \/ Start \/ Skip \/ Look \/ ReadCached \/ Read \/ Unreadable
    \/ SaveCache \/ Store \/ Mark \/ Crash \/ Reset

Spec == Init /\ [][Next]_vars

---------------------------------------------------------------------------
(* Properties *)

TypeOK ==
    /\ kind \in Kinds /\ clock \in 0 .. MaxLog
    /\ mtime \in [Files -> 0 .. MaxLog] /\ marks \in [Files -> 0 .. MaxLog]
    /\ sidecar \in [Files -> 0 .. MaxLog] /\ stamp \in 0 .. MaxLog
    /\ pc \in {"idle", "look", "read", "stat", "store", "mark"}
    /\ cur \in Files \cup {0} /\ excused \subseteq Files
    /\ \A h \in hidden : h[1] \in Files
    /\ \A r \in rows : r.file \in Files

\* The rows a file stands for: its turns, the first of each id.
Due(f) == FirstOf(Parse(f, log[f]))
OfFile(f) == {s \in rows : s.file = f}
Stored(f) == {s.row : s \in OfFile(f)} = {r \in Due(f) : <<f, r.id>> \notin hidden}

\* What may be hidden is what no id tells from another file's: usage that Codex
\* wrote outside of a turn, which goes by its line, and the messages of OpenCode.
MayHide(h) == kind \in {"codex", "opencode"} /\ h[2][1] = 0

\* When every file is marked at the time it has, the table holds exactly what
\* the logs say: after growth in the middle of a scan, a crash of the scan, a
\* session moved to the archive, a new database.  A turn is left out only when
\* another file's row had its id as it was read, and only where no id tells the
\* two apart.  Excused are a file that could not be opened, one whose first scan
\* died between its rows and its mark, one moved in the middle of a scan, and
\* Cursor's once the scan died with one in hand, the database was made anew, or
\* one was written between the scan's look at it and the time its sidecar took.
SourcesStored ==
    pc = "idle" /\ marks = mtime =>
        \A f \in Files \ excused : Stored(f) /\ \A h \in HiddenAt(f) : MayHide(h)

\* What the index is there for, and what does not hold of it: no turn is left out.
NothingHidden == hidden = {}

\* What the sidecar says of itself: a workspace it calls fresh has its turns in
\* the database.
FreshMeansStored == pc = "read" /\ IsCacheFresh(cur) => Stored(cur)

\* The record a Codex turn's usage is from: the last count among the records
\* that follow the last start of the turn and precede that of another one.
Opens(lines, i) == IF lines[i].what = "started" THEN TRUE
                   ELSE lines[i].what = "context" /\ lines[i].id # NoId
TurnAt(lines, i) ==
    LET opens == {j \in 1 .. i : Opens(lines, j)}
    IN IF opens = {} \/ lines[Max(opens)].id = NoId THEN LinePlace(i) ELSE lines[Max(opens)].id
CodexUsage(lines) ==
    LET counts == {i \in DOMAIN lines : lines[i].what = "count"}
    IN {<<TurnAt(lines, i), lines[i].tokens>> : i \in
            {i \in counts : \A j \in counts : TurnAt(lines, j) = TurnAt(lines, i) => j <= i}}

\* Each provider's log is read as its format means: a Codex turn has the last
\* count that fell to it, a Pi response its last usage, an Amp event its first,
\* and no turn of a session is there twice.
CodexRight(lines, out) == {<<out[i].id, out[i].tokens>> : i \in DOMAIN out} = CodexUsage(lines)
PiRight(lines, out) ==
    /\ \A i \in DOMAIN lines : lines[i].id # NoId /\ lines[i].tokens # 0 =>
        \E j \in DOMAIN out : out[j].id = lines[i].id
    /\ \A j \in DOMAIN out : \E i \in DOMAIN lines :
        /\ lines[i].id = out[j].id /\ lines[i].tokens = out[j].tokens
        /\ \A m \in i + 1 .. Len(lines) : lines[m].id = out[j].id => lines[m].tokens = 0
AmpRight(entries, out) ==
    \A i \in DOMAIN entries :
        /\ entries[i].what = "event" /\ entries[i].id # NoId
        /\ \A m \in 1 .. i - 1 :
            entries[m].what = "event" => entries[m].id # entries[i].id
        => \E j \in DOMAIN out :
            out[j].id = entries[i].id /\ out[j].tokens = entries[i].tokens

ParsedRight ==
    \A f \in Files :
        LET out == Parse(f, log[f]) IN
        /\ kind # "cursor" /\ kind # "copilot" =>
            \A i, j \in DOMAIN out :
                out[i].id = out[j].id /\ (kind = "opencode" => out[i].session = out[j].session)
                => i = j
        /\ kind = "codex" => CodexRight(log[f], out)
        /\ kind = "pi" => PiRight(log[f], out)
        /\ kind = "amp" => AmpRight(log[f], out)

---------------------------------------------------------------------------
(* The invariant *)

InHand == pc \in {"read", "stat", "store", "mark"}
Live(f) == mtime[f] # 0

\* Every time is a time that was, a file that is not there is empty, and what is
\* in hand has been stamped.
Times ==
    /\ \A f \in Files : mtime[f] = 0 => log[f] = <<>>
    /\ \A f \in Files : mtime[f] <= clock /\ marks[f] <= clock /\ sidecar[f] <= clock
    /\ stamp <= clock
    /\ pc = "idle" <=> cur = 0
    /\ InHand => stamp # 0
    /\ pc = "read" => marks[cur] # stamp /\ (marks[cur] # 0 => OfFile(cur) = {})
    /\ pc \in {"read", "stat", "store"} => HiddenAt(cur) = {}
    /\ kind # "cursor" => pc # "stat"

\* A log holds what programs write where it began; only Codex moves one.
Entries(k, f) == {Own(k, r, g) : r \in Alphabet[k], g \in IF k = "codex" THEN Files ELSE {f}}
Written ==
    /\ DOMAIN log = Files
    /\ \A f \in Files : log[f] \in Seq(Entries(kind, f))
    /\ \A f \in Files \ Archived : Origins(f) \subseteq {f}

\* What the ids of a file's rows begin with.
Marked(f) ==
    CASE kind = "codex" -> Origins(f) \cup {0}
      [] kind = "opencode" -> {0}
      [] OTHER -> {f}

\* No two logs have an origin in common.
Apart == \A f, g \in Files : f # g => Marked(f) \cap Marked(g) \subseteq {0}

\* Where an id of a file's row is from: the file's log, or one that was moved
\* from there.  Then the rows left behind go before the log is read where it is
\* now, unless it was moved in the middle of a scan.
From(f, p) ==
    \/ p \in Marked(f)
    \/ /\ kind = "codex" /\ f \notin Archived /\ ~Live(f) /\ p = f
       /\ \E g \in Files : p \in Marked(g)
       /\ \A g \in Files \ excused : p \in Marked(g) => pc = "idle" /\ marks[f] # 0
RowsFrom ==
    /\ \A s \in rows : From(s.file, s.row.id[1])
    /\ pc \in {"stat", "store"} => \A i \in DOMAIN got : From(cur, got[i].id[1])

HiddenKept == \A h \in hidden : h[1] \notin excused => MayHide(h)

\* A log in the archive does not change.
Still ==
    \A f \in Archived : /\ marks[f] \in {0, mtime[f]}
                        /\ InHand /\ cur = f => stamp = mtime[f]

\* A file that the scan is not at has no rows before its mark, and with the mark
\* of its time it has its rows.
AtRest(f) ==
    /\ marks[f] = 0 => OfFile(f) = {}
    /\ marks[f] = mtime[f] => Stored(f)

\* The file the scan is at has its rows deleted, read and stored in this order;
\* what is read is right, unless the file has changed since it was looked at.
UnderWay(f) ==
    /\ Live(f) /\ marks[f] # mtime[f]
    /\ pc \in {"read", "stat", "store"} => OfFile(f) = {}
    /\ pc \in {"stat", "store"} /\ stamp = mtime[f] => got = Parse(f, log[f])
    /\ pc = "mark" /\ stamp = mtime[f] => Stored(f)

FilesKept ==
    \A f \in Files \ excused : IF InHand /\ cur = f THEN UnderWay(f) ELSE AtRest(f)

\* A sidecar is saved for what is about to be stored.
SidecarKept ==
    kind = "cursor" => \A f \in Files \ excused :
        /\ Live(f) /\ sidecar[f] = mtime[f] =>
            marks[f] = mtime[f] \/ (cur = f /\ pc \in {"store", "mark"} /\ stamp = mtime[f])
        /\ cur = f /\ pc \in {"read", "stat"} => stamp = mtime[f]

Inv ==
    /\ TypeOK /\ Times /\ Written /\ Apart /\ RowsFrom
    /\ FilesKept /\ HiddenKept /\ SidecarKept /\ Still

=============================================================================
