-------------------------------- MODULE Quota --------------------------------
(* The history of the subscription windows.  A live answer says which part of *)
(* a window is used; a background task counts the tokens of that window,      *)
(* derives the cap, and stores a row unless a recent one says the same.  A    *)
(* scan stores what the usage-limits files say in the same table.  The        *)
(* dashboard smooths the caps it finds there.                                 *)
(* A tick is five minutes; what is used is in half percents, a confidence in  *)
(* parts of 300.                                                              *)
EXTENDS Naturals, Sequences, FiniteSetsExt

CONSTANTS
    Tasks,      \* background tasks that record an answer
    Sweeps,     \* scans, at the step that reads the usage-limits files
    Answers,    \* what the providers may say: per provider its windows, or None
    Files,      \* usage-limits files
    Limits,     \* what a file may hold: used and resets per window, or None
    Length,     \* how long each window is, in ticks
    Kinds,      \* providers and models whose turns a scan may store
    Tokens,     \* the tokens of a turn
    MaxClock, MaxTurns, MaxSays, \* bounds
    Trailing,   \* rows that are smoothed over (24)
    MinHistory, \* rows needed before a shift is told (6)
    None

VARIABLES
    clock,
    turns,    \* the stored turns: time, provider and model
    history,  \* rate_window_history, in the order of its ids
    task,     \* per task: the specs it has still to record
    content,  \* what each file holds
    sweep,    \* per scan: its time, the files to read and what is left of one
    noted,    \* observations that were recorded or passed over (history)
    says      \* how often files were written and answers came (bound)

vars == <<clock, turns, history, task, content, sweep, noted, says>>

Windows == DOMAIN Length
Readings == [used : Nat, resets : Nat \cup {None}]

QuotaAssumption ==
    /\ Tokens \in Nat \ {0} /\ MaxTurns \in Nat /\ MaxClock \in Nat
    /\ Trailing \in Nat /\ MinHistory \in Nat
    /\ None \notin Nat /\ \A f \in Files : f # "oauth"
    /\ {"five_hour", "seven_day", "seven_day_opus", "seven_day_sonnet",
        "codex_primary", "codex_secondary"} \subseteq Windows
    /\ \A answer \in Answers :
        /\ answer.claude # None =>
            {answer.claude.primary, answer.claude.secondary, answer.claude.tertiary}
                \subseteq Readings \cup {None}
        /\ answer.codex # None =>
            {answer.codex.primary, answer.codex.secondary} \subseteq Readings \cup {None}
    /\ \A limits \in Limits :
        {limits.five_hour, limits.seven_day} \subseteq Readings \cup {None}

AbsDiff(a, b) == IF a > b THEN a - b ELSE b - a

---------------------------------------------------------------------------
(* What a window comes to *)

Spec1(provider, window, reading, pattern) ==
    IF reading = None THEN <<>>
    ELSE <<[provider |-> provider, window |-> window, used |-> reading.used,
            resets |-> reading.resets, pattern |-> pattern]>>

\* Which of the two models the third window of Claude is about is not told: a
\* row is recorded for each.
Specs(answer) ==
    (IF answer.claude = None THEN <<>>
     ELSE Spec1("claude", "five_hour", answer.claude.primary, "any")
          \o Spec1("claude", "seven_day", answer.claude.secondary, "any")
          \o Spec1("claude", "seven_day_opus", answer.claude.tertiary, "opus")
          \o Spec1("claude", "seven_day_sonnet", answer.claude.tertiary, "sonnet"))
    \o (IF answer.codex = None THEN <<>>
        ELSE Spec1("codex", "codex_primary", answer.codex.primary, "any")
             \o Spec1("codex", "codex_secondary", answer.codex.secondary, "any"))

\* The tokens between the start of the window and its reset, or of the last
\* window length when no reset is known.
Observed(spec) ==
    LET ends == IF spec.resets = None THEN clock + 1 ELSE spec.resets
        from == IF spec.resets = None THEN clock ELSE spec.resets
    IN Tokens * Cardinality({i \in DOMAIN turns :
            /\ turns[i].provider = spec.provider /\ spec.pattern \in {"any", turns[i].model}
            /\ turns[i].at + Length[spec.window] >= from /\ turns[i].at < ends})

Estimate(used, observed) ==
    IF used < 10 \/ observed = 0 THEN None
    ELSE LET part == IF used > 200 THEN 200 ELSE used
         IN [cap |-> (400 * observed + part) \div (2 * part),
             confidence |-> IF part >= 199 THEN 150
                            ELSE Max({48, Min({300, 5 * part})})]

---------------------------------------------------------------------------
(* Smoothing *)

\* The newest rows of a window that have a cap, by their places in the table.
Caps(window) ==
    LET known == {i \in DOMAIN history : history[i].window = window /\ history[i].cap # None}
    IN {i \in known : Cardinality({j \in known : i <= j}) <= Trailing}

\* A row is weighed by its confidence, what came before it by 0.85 of what it was.
Weigh(sum, row) ==
    [num |-> 17 * sum.num + sum.unit * row.confidence * row.cap,
     den |-> 17 * sum.den + sum.unit * row.confidence,
     unit |-> 20 * sum.unit]

\* The weighted rows, from the oldest to the newest.
Ema(rows) ==
    LET sum[i \in 0 .. Len(history)] ==
            IF i = 0 THEN [num |-> 0, den |-> 0, unit |-> 1]
            ELSE IF i \in rows THEN Weigh(sum[i - 1], history[i])
            ELSE sum[i - 1]
    IN sum[Len(history)]

Confident(rows) == Cardinality({i \in rows : history[i].confidence >= 90})

Smooth(now, rows) ==
    LET past == Ema(rows)
        all == Weigh(past, now)
        tells == Confident(rows) >= MinHistory /\ now.confidence >= 90
    IN [cap |-> (2 * all.num + all.den) \div (2 * all.den),
        samples |-> Cardinality(rows) + 1,
        shift |-> CASE tells /\ 5 * now.cap * past.den > 6 * past.num -> "increase"
                    [] tells /\ 5 * now.cap * past.den < 4 * past.num -> "decrease"
                    [] OTHER -> "none"]

\* What the dashboard shows of a window beside what the provider publishes.
Shown(spec) ==
    LET now == Estimate(spec.used, Observed(spec)) IN
    IF now = None THEN None ELSE Smooth(now, Caps(spec.window))

---------------------------------------------------------------------------
(* Recording *)

Init ==
    /\ clock = 0 /\ turns = <<>> /\ history = <<>> /\ noted = {} /\ says = 0
    /\ task = [t \in Tasks |-> [pc |-> "idle", specs |-> <<>>, row |-> None]]
    /\ content = [f \in Files |-> None]
    /\ sweep = [s \in Sweeps |-> [at |-> 0, files |-> {}, left |-> <<>>]]

Tick ==
    /\ clock < MaxClock /\ clock' = clock + 1
    /\ UNCHANGED <<turns, history, task, content, sweep, noted, says>>

StoreTurn(kind) ==
    /\ Len(turns) < MaxTurns
    /\ turns' = Append(turns, [at |-> clock, provider |-> kind.provider,
                              model |-> kind.model])
    /\ UNCHANGED <<clock, history, task, content, sweep, noted, says>>

\* A live answer goes out and leaves a task behind.
Respond(t) ==
    /\ task[t].pc = "idle" /\ says < MaxSays /\ says' = says + 1
    /\ \E answer \in Answers :
        /\ Specs(answer) # <<>>
        /\ task' = [task EXCEPT ![t] = [pc |-> "look", specs |-> Specs(answer), row |-> None]]
    /\ UNCHANGED <<clock, turns, history, content, sweep, noted>>

Row(at, window, used, resets, source, estimate) ==
    [at |-> at, window |-> window, used |-> used, resets |-> resets, source |-> source,
     cap |-> IF estimate = None THEN None ELSE estimate.cap,
     confidence |-> IF estimate = None THEN None ELSE estimate.confidence]

\* Mutated form: a row of any age counts as recent.
LastEver(window) ==
    LET of == {i \in DOMAIN history : history[i].window = window}
    IN {i \in of : \A j \in of : history[j].at <= history[i].at}

\* The rows that may be the newest of the last five minutes.
LastRecent(window) ==
    LET of == {i \in DOMAIN history : history[i].window = window /\ history[i].at + 1 >= clock}
    IN {i \in of : \A j \in of : history[j].at <= history[i].at}

Done(t, spec) ==
    task' = [task EXCEPT ![t] =
        LET rest == Tail(@.specs) IN
        [pc |-> IF rest = <<>> THEN "idle" ELSE "look", specs |-> rest, row |-> None]]

Note(spec, at) == noted' = noted \cup {[window |-> spec.window, used |-> spec.used, at |-> at]}

\* Nothing keeps another task out between the look and the insert.
Look(t) ==
    /\ task[t].pc = "look"
    /\ LET spec == Head(task[t].specs)
           last == LastRecent(spec.window)
           clear == [task EXCEPT ![t].pc = "insert",
                        ![t].row = Row(clock, spec.window, spec.used, spec.resets, "oauth",
                                       Estimate(spec.used, Observed(spec)))]
       IN IF last = {} THEN task' = clear /\ UNCHANGED noted
          ELSE \E i \in last :
                IF AbsDiff(history[i].used, spec.used) <= 1 THEN Done(t, spec) /\ Note(spec, clock)
                ELSE task' = clear /\ UNCHANGED noted
    /\ UNCHANGED <<clock, turns, history, content, sweep, says>>

Insert(t) ==
    /\ task[t].pc = "insert"
    /\ history' = Append(history, [task[t].row EXCEPT !.at = clock])
    /\ Done(t, Head(task[t].specs)) /\ Note(Head(task[t].specs), clock)
    /\ UNCHANGED <<clock, turns, content, sweep, says>>

\* A statement that fails costs one row, a database that cannot be opened all.
Fail(t) ==
    /\ task[t].pc # "idle"
    /\ \/ Done(t, Head(task[t].specs))
       \/ task' = [task EXCEPT ![t] = [pc |-> "idle", specs |-> <<>>, row |-> None]]
    /\ UNCHANGED <<clock, turns, history, content, sweep, noted, says>>

---------------------------------------------------------------------------
(* The usage-limits files *)

WriteLimits(f, limits) ==
    /\ says < MaxSays /\ says' = says + 1
    /\ content' = [content EXCEPT ![f] = limits]
    /\ UNCHANGED <<clock, turns, history, task, sweep, noted>>

\* A file that cannot be read or parsed holds nothing.
Entry(f, window) ==
    IF content[f] = None \/ content[f][window] = None THEN <<>>
    ELSE <<[file |-> f, window |-> window, used |-> content[f][window].used,
            resets |-> content[f][window].resets]>>

StartSweep(s) ==
    /\ sweep[s].files = {} /\ sweep[s].left = <<>>
    /\ \E f \in Files : content[f] # None
    /\ sweep' = [sweep EXCEPT ![s].at = clock, ![s].files = Files]
    /\ UNCHANGED <<clock, turns, history, task, content, noted, says>>

\* A file is read when the one before it is stored.
ReadLimits(s) ==
    /\ sweep[s].left = <<>>
    /\ \E f \in sweep[s].files :
        sweep' = [sweep EXCEPT ![s].files = @ \ {f},
                               ![s].left = Entry(f, "five_hour") \o Entry(f, "seven_day")]
    /\ UNCHANGED <<clock, turns, history, task, content, noted, says>>

\* A file's window is stored when its last row differs.
StoreLimit(s) ==
    /\ sweep[s].left # <<>>
    /\ LET entry == Head(sweep[s].left)
           mine == {i \in DOMAIN history : /\ history[i].window = entry.window
                                           /\ history[i].source = entry.file}
           same == \E i \in mine :
                    /\ \A j \in mine : j <= i
                    /\ history[i].used = entry.used /\ history[i].resets = entry.resets
       IN history' = IF same THEN history
                     ELSE Append(history, Row(sweep[s].at, entry.window, entry.used, entry.resets,
                                              entry.file, None))
    /\ sweep' = [sweep EXCEPT ![s].left = Tail(@)]
    /\ UNCHANGED <<clock, turns, task, content, noted, says>>

\* A statement that fails costs the rest of the file.
FailLimit(s) ==
    /\ sweep[s].left # <<>>
    /\ sweep' = [sweep EXCEPT ![s].left = <<>>]
    /\ UNCHANGED <<clock, turns, history, task, content, noted, says>>

Next ==
    \/ Tick
    \/ \E kind \in Kinds : StoreTurn(kind)
    \/ \E t \in Tasks : Respond(t) \/ Look(t) \/ Insert(t) \/ Fail(t)
    \/ \E f \in Files, limits \in Limits : WriteLimits(f, limits)
    \/ \E s \in Sweeps : StartSweep(s) \/ ReadLimits(s) \/ StoreLimit(s) \/ FailLimit(s)

Spec == Init /\ [][Next]_vars

---------------------------------------------------------------------------
(* Properties *)

TypeOK ==
    /\ clock \in 0 .. MaxClock /\ Len(turns) <= MaxTurns
    /\ \A i \in DOMAIN history :
        history[i].window \in Windows /\ (history[i].cap = None <=> history[i].confidence = None)
    /\ \A t \in Tasks : task[t].pc \in {"idle", "look", "insert"}
                        /\ (task[t].pc = "idle" <=> task[t].specs = <<>>)

\* The table is sparse, never blind: whatever tasks and scans overlapped, of
\* each observation that was recorded or passed over there is a row that says
\* the same to half a percent and is not more than five minutes older.
HistoryTracks ==
    \A n \in noted : \E i \in DOMAIN history :
        /\ history[i].window = n.window /\ AbsDiff(history[i].used, n.used) <= 1
        /\ history[i].at + 1 >= n.at

\* The smoothed cap lies among the caps it was made from, and a shift is told
\* in the direction in which the smoothed cap trails the new one.
SmoothedSound ==
    \A answer \in Answers : \A i \in DOMAIN Specs(answer) :
        LET spec == Specs(answer)[i]
            now == Estimate(spec.used, Observed(spec))
            shown == Shown(spec)
            caps == {now.cap} \cup {history[j].cap : j \in Caps(spec.window)}
        IN now # None =>
            /\ shown.cap \in Min(caps) .. Max(caps)
            /\ shown.shift = "increase" => shown.cap < now.cap
            /\ shown.shift = "decrease" => shown.cap > now.cap

QuotaTrue == HistoryTracks /\ SmoothedSound

---------------------------------------------------------------------------
(* The inductive invariant *)

WindowSpec == [provider : {"claude", "codex"}, window : Windows, used : Nat,
               resets : Nat \cup {None}, pattern : {"any", "opus", "sonnet"}]
FileEntry == [file : Files, window : Windows, used : Nat, resets : Nat \cup {None}]
Rows == [at : Nat, window : Windows, used : Nat, resets : Nat \cup {None},
         source : Files \cup {"oauth"}, cap : Nat \cup {None}, confidence : Nat \cup {None}]

Types ==
    /\ clock \in 0 .. MaxClock
    /\ turns \in Seq([at : Nat, provider : {k.provider : k \in Kinds},
                      model : {k.model : k \in Kinds}])
    /\ Len(turns) <= MaxTurns
    /\ history \in Seq(Rows)
    /\ task \in [Tasks -> [pc : {"idle", "look", "insert"}, specs : Seq(WindowSpec),
                           row : Rows \cup {None}]]
    /\ content \in [Files -> Limits \cup {None}]
    /\ sweep \in [Sweeps -> [at : Nat, files : SUBSET Files, left : Seq(FileEntry)]]
    /\ noted \subseteq [window : Windows, used : Nat, at : Nat]

\* A cap was made from at least a turn and at most from all, with a confidence
\* the estimator can give.
SoundCap(cap, confidence) ==
    /\ cap \in Tokens .. 400 * (Tokens * MaxTurns) + 200
    /\ confidence \in 48 .. 300
SoundRow(row) ==
    \/ row.cap = None /\ row.confidence = None
    \/ SoundCap(row.cap, row.confidence)

\* What a task is about to insert is about the window it looked at.
Prepared ==
    \A t \in Tasks :
        /\ task[t].pc = "idle" <=> task[t].specs = <<>>
        /\ task[t].pc = "insert" =>
            /\ task[t].row \in Rows /\ SoundRow(task[t].row)
            /\ task[t].row.window = Head(task[t].specs).window
            /\ task[t].row.used = Head(task[t].specs).used

Inv ==
    /\ Types /\ Prepared /\ HistoryTracks
    /\ \A i \in DOMAIN history : SoundRow(history[i])

=============================================================================
