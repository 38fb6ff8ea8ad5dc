------------------------------- MODULE Monitor -------------------------------
(* The usage monitor: a scheduled command runs Claude's `/usage`, and stores  *)
(* a run and then its factors, a statement each and no transaction around     *)
(* them.  The dashboard shows the newest run and the newest that succeeded.   *)
(* Captures may overlap, and each may die between two statements.             *)
EXTENDS Naturals, Sequences, SequencesExt, FiniteSetsExt

CONSTANTS
    Captures,  \* captures that may run at a time
    Outputs,   \* what the command may print
    Says,      \* what a line of it may say
    MaxRuns,   \* bound on the runs stored
    None

Lines == [kind : {"factor", "text", "blank"}, says : Says]

\* What an instance must satisfy.
MonitorAssumption == Outputs \subseteq Seq(Lines) /\ MaxRuns \in Nat

VARIABLES
    runs,     \* claude_usage_runs, in the order of their ids
    factors,  \* claude_usage_factors, of each run in the order of their ids
    capture,  \* per capture: where it is and what it has still to store
    meant,    \* per run: the factors its command printed (history)
    whole     \* the runs whose capture ended well (history)

vars == <<runs, factors, capture, meant, whole>>

---------------------------------------------------------------------------
(* Parsing *)

\* A factor's advice is the text under it, up to the next factor or to a blank
\* line that follows text; lines that belong to no factor are passed over.
ReadLine(parsed, line) ==
    LET found == parsed.found IN
    CASE line.kind = "factor" ->
            [found |-> Append(found, [label |-> line.says, advice |-> <<>>]), open |-> TRUE]
      [] line.kind = "text" /\ parsed.open ->
            [parsed EXCEPT !.found[Len(found)].advice = Append(@, line.says)]
      [] line.kind = "blank" /\ parsed.open ->
            [parsed EXCEPT !.open = Last(found).advice = <<>>]
      [] OTHER -> parsed

ParseUsage(lines) ==
    LET parsed[n \in 0..Len(lines)] ==
            IF n = 0 THEN [found |-> <<>>, open |-> FALSE]
            ELSE ReadLine(parsed[n - 1], lines[n])
    IN parsed[Len(lines)].found

\* What is stored of a command that exits well, exits badly, or does not start.
Persisted(exits, lines) ==
    LET found == IF exits THEN ParseUsage(lines) ELSE <<>>
    IN [status |-> CASE ~exits -> "failed" [] found = <<>> -> "unparsed" [] OTHER -> "success",
        factors |-> found]

---------------------------------------------------------------------------

Idle == [pc |-> "idle", status |-> None, factors |-> <<>>, run |-> 0]

Init ==
    /\ runs = <<>> /\ meant = <<>> /\ whole = {}
    /\ factors = [run \in 1..MaxRuns |-> <<>>]
    /\ capture = [c \in Captures |-> Idle]

\* The command is run to its end; it has no timeout.
Run(c) ==
    /\ capture[c].pc = "idle"
    /\ \E exits \in BOOLEAN, lines \in Outputs :
        LET result == Persisted(exits, lines) IN
        capture' = [capture EXCEPT ![c] = [pc |-> "run", status |-> result.status,
                                           factors |-> result.factors, run |-> 0]]
    /\ UNCHANGED <<runs, factors, meant, whole>>

\* Mutated form: the run a factor belongs to is looked up when it is stored.
NewestRun(c) == Len(runs)

RunOf(c) == capture[c].run

InsertRun(c) ==
    /\ capture[c].pc = "run" /\ Len(runs) < MaxRuns
    /\ runs' = Append(runs, capture[c].status)
    /\ meant' = Append(meant, capture[c].factors)
    /\ IF capture[c].status = "success"
       THEN capture' = [capture EXCEPT ![c].pc = "factors", ![c].run = Len(runs) + 1]
            /\ UNCHANGED whole
       ELSE capture' = [capture EXCEPT ![c] = Idle] /\ whole' = whole \cup {Len(runs) + 1}
    /\ UNCHANGED factors

InsertFactor(c) ==
    /\ capture[c].pc = "factors"
    /\ LET rest == Tail(capture[c].factors) IN
       /\ factors' = [factors EXCEPT ![RunOf(c)] = Append(@, Head(capture[c].factors))]
       /\ IF rest # <<>> THEN capture' = [capture EXCEPT ![c].factors = rest] /\ UNCHANGED whole
          ELSE capture' = [capture EXCEPT ![c] = Idle] /\ whole' = whole \cup {capture[c].run}
    /\ UNCHANGED <<runs, meant>>

\* A statement fails, or the process dies: what is stored stays.
Die(c) ==
    /\ capture[c].pc # "idle"
    /\ capture' = [capture EXCEPT ![c] = Idle]
    /\ UNCHANGED <<runs, factors, meant, whole>>

Next == \E c \in Captures : Run(c) \/ InsertRun(c) \/ InsertFactor(c) \/ Die(c)

Spec == Init /\ [][Next]_vars

---------------------------------------------------------------------------
(* What the dashboard reads *)

FactorsOf(run) == factors[run]

LatestRun(statuses) ==
    LET ids == {i \in DOMAIN runs : runs[i] \in statuses}
    IN IF ids = {} THEN None ELSE Max(ids)

Response ==
    LET good == LatestRun({"success"}) IN
    [available |-> good # None, last |-> LatestRun({"success", "unparsed", "failed"}),
     snapshot |-> IF good = None THEN None ELSE [run |-> good, factors |-> FactorsOf(good)]]

---------------------------------------------------------------------------
(* Properties *)

TypeOK ==
    /\ Len(runs) <= MaxRuns /\ Len(meant) = Len(runs) /\ whole \subseteq DOMAIN runs
    /\ \A c \in Captures : capture[c].pc \in {"idle", "run", "factors"}

\* The snapshot on the dashboard is one that its command printed: whatever
\* captures overlapped or died, its factors are the first ones of its own run,
\* in order, and all of them once its capture has ended.
SnapshotOwn ==
    Response.available =>
        LET snapshot == Response.snapshot IN
        /\ IsPrefix(snapshot.factors, meant[snapshot.run])
        /\ snapshot.run \in whole => snapshot.factors = meant[snapshot.run]

---------------------------------------------------------------------------
(* What the proofs need: an invariant of the steps. *)

Factors == [label : Says, advice : Seq(Says)]
Statuses == {"success", "unparsed", "failed"}

Types ==
    /\ runs \in Seq(Statuses) /\ meant \in Seq(Seq(Factors))
    /\ Len(runs) <= MaxRuns /\ Len(meant) = Len(runs) /\ whole \subseteq 1..Len(runs)
    /\ factors \in [1..MaxRuns -> Seq(Factors)]
    /\ capture \in [Captures -> [pc : {"idle", "run", "factors"}, status : Statuses \cup {None},
                                 factors : Seq(Factors), run : 0..MaxRuns]]

\* Only a success has factors, and it has some.
Printed ==
    \A c \in Captures : capture[c].pc = "run" =>
        /\ capture[c].status \in Statuses
        /\ capture[c].status = "success" <=> capture[c].factors # <<>>

\* A capture that stores factors has still to store what its run lacks.
Underway ==
    \A c \in Captures : capture[c].pc = "factors" =>
        /\ capture[c].run \in 1..Len(runs) /\ capture[c].run \notin whole
        /\ capture[c].factors # <<>>
        /\ factors[capture[c].run] \o capture[c].factors = meant[capture[c].run]

RunsApart ==
    \A c, d \in Captures :
        c # d /\ capture[c].pc = "factors" /\ capture[d].pc = "factors" =>
            capture[c].run # capture[d].run

Stored ==
    \A run \in 1..MaxRuns :
        /\ run > Len(runs) => factors[run] = <<>>
        /\ run <= Len(runs) => \E rest \in Seq(Factors) : factors[run] \o rest = meant[run]
        /\ run \in whole => factors[run] = meant[run]

Inv == Types /\ Printed /\ Underway /\ RunsApart /\ Stored

=============================================================================
