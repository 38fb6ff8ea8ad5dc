-------------------------------- MODULE Waste --------------------------------
(* The optimize report: five detectors look, one after the other and with no  *)
(* transaction around them, for waste in the stored tool events and in what   *)
(* is configured, while scans store more.                                     *)
EXTENDS Naturals, Sequences, FiniteSets, SequencesExt, FiniteSetsExt, Functions

CONSTANTS
    Sessions,     \* sessions, as numbers in the order of their ids
    Calls,        \* what a turn may call: tool and argument ("" when not kept)
    Trivial,      \* per command that is trivial, its canonical prefix
    Servers,      \* MCP servers that may be configured; a call is to one of them
    Agents,       \* agents that may be defined
    MinReads,     \* reads from which a file is told (3)
    MaxRereads,   \* rereads that are told (20)
    MinNoise,     \* calls from which a trivial command is told (5)
    MediumBloat,  \* tokens times sessions from which CLAUDE.md is no low finding
    HighBloat,
    MaxEvents     \* bound

\* What an instance must satisfy.
WasteBounds == {MinReads, MaxRereads, MinNoise, MaxEvents} \subseteq Nat \ {0}

VARIABLES
    events,     \* tool_events: session, kind and value, in the order they came
    sessions,   \* the sessions stored
    invoked,    \* mcp_server of tool_invocations
    observed,   \* agent_id of turns
    configured, \* the servers and agents configured, the tokens of CLAUDE.md
    run,        \* the report under way
    report,     \* the last report
    read        \* session and file of each stored call of Read (history)

stored == <<events, sessions, invoked, observed, read>>
vars == <<stored, configured, run, report>>

---------------------------------------------------------------------------
(* What the detectors find *)

Finding(of, severity, session, about, count) ==
    [of |-> of, severity |-> severity, session |-> session, about |-> about, count |-> count]

Kind(tool) ==
    CASE tool \in {"Edit", "Write", "Read"} -> "file" [] tool = "Bash" -> "bash"
      [] tool \in Servers -> "mcp" [] OTHER -> "other"

Severity(count, low, medium) ==
    IF count > medium THEN "high" ELSE IF count > low THEN "medium" ELSE "low"

Bloat ==
    LET product == configured.tokens * Cardinality(sessions) IN
    IF product = 0 THEN {}
    ELSE {Finding("claude_md_bloat", Severity(product + 1, MediumBloat, HighBloat),
                  0, "CLAUDE.md", product)}

Unused == {Finding("unused_mcp", "low", 0, s, 0) : s \in configured.servers \ invoked}
Ghosts == {Finding("ghost_agent", "low", 0, a, 0) : a \in configured.agents \ observed}

Count(kind, s, v) ==
    Cardinality({i \in DOMAIN events : events[i].kind = kind /\ events[i].session = s
                                       /\ events[i].value = v})
Values(kind) == {[session |-> e.session, value |-> e.value] :
                    e \in {f \in ToSet(events) : f.kind = kind}}

\* Every event of a file counts, whatever was done with the file.
Rereads ==
    LET often == {g \in Values("file") : Count("file", g.session, g.value) >= MinReads}
        n(g) == Count("file", g.session, g.value)
    IN {{Finding("reread_files", Severity(n(g), 5, 15), g.session, g.value, n(g)) : g \in top} :
            top \in {t \in SUBSET often :
                        /\ Cardinality(t) = Min({Cardinality(often), MaxRereads})
                        /\ \A g \in t, h \in often \ t : n(g) >= n(h)}}

\* Mutated form: only a command that is itself repeated counts for its prefix.
OftenOnly ==
    {g \in Values("bash") : g.value \in DOMAIN Trivial /\ Count("bash", g.session, g.value) > 1}

\* The rows, a session and a command each, that go into the buckets.
NoisyRows == {g \in Values("bash") : g.value \in DOMAIN Trivial}

\* The same command with other arguments falls into one bucket.
Bucket(s, prefix) ==
    LET own == {g \in NoisyRows : g.session = s /\ Trivial[g.value] = prefix}
    IN SumFunctionOnSet([g \in own |-> Count("bash", g.session, g.value)], own)

Noise ==
    {Finding("bash_noise", Severity(Bucket(b[1], b[2]), 10, 30), b[1], b[2], Bucket(b[1], b[2])) :
        b \in {c \in Sessions \X Range(Trivial) : Bucket(c[1], c[2]) >= MinNoise}}

Grade(findings) ==
    LET any(s) == \E f \in findings : f.severity = s IN
    IF findings = {} THEN "A" ELSE IF any("high") THEN "F" ELSE IF any("medium") THEN "D"
    ELSE IF Cardinality(findings) <= 2 THEN "B" ELSE "C"

---------------------------------------------------------------------------

NotRunning == [at |-> 0, found |-> {}, invoked |-> {}, observed |-> {}]

Init ==
    /\ events = <<>> /\ sessions = {} /\ invoked = {} /\ observed = {} /\ read = <<>>
    /\ configured \in [servers : SUBSET Servers, agents : SUBSET Agents, tokens : {0, 3}]
    /\ run = NotRunning /\ report = [grade |-> "none", found |-> {}, invoked |-> {}, observed |-> {}]

\* The value of an event is the argument, or the name of the tool where the
\* provider's parser keeps none.
StoreTurn(s, call, agent) ==
    /\ Len(events) < MaxEvents
    /\ events' = Append(events, [session |-> s, kind |-> Kind(call.tool),
                                 value |-> IF call.arg = "" THEN call.tool ELSE call.arg])
    /\ read' = IF call.tool = "Read" THEN Append(read, <<s, call.arg>>) ELSE read
    /\ sessions' = sessions \cup {s}
    /\ invoked' = invoked \cup ({call.tool} \cap Servers)
    /\ observed' = observed \cup agent
    /\ UNCHANGED <<configured, run, report>>

StartOptimize ==
    /\ run.at = 0
    /\ run' = [at |-> 1, found |-> {}, invoked |-> invoked, observed |-> observed]
    /\ UNCHANGED <<stored, configured, report>>

\* A detector that fails is left out of the report.
Detect ==
    /\ run.at \in 1 .. 5
    /\ \E found \in {{}} \cup (CASE run.at = 1 -> {Bloat} [] run.at = 2 -> {Unused}
                                [] run.at = 3 -> {Ghosts} [] run.at = 4 -> Rereads
                                [] OTHER -> {Noise}) :
        run' = [run EXCEPT !.at = @ + 1, !.found = @ \cup found]
    /\ UNCHANGED <<stored, configured, report>>

EndOptimize ==
    /\ run.at = 6 /\ run' = NotRunning
    /\ report' = [grade |-> Grade(run.found), found |-> run.found,
                  invoked |-> run.invoked, observed |-> run.observed]
    /\ UNCHANGED <<stored, configured>>

Next ==
    \/ \E s \in Sessions, call \in Calls, agent \in {{}} \cup {{a} : a \in Agents} :
        StoreTurn(s, call, agent)
    \/ StartOptimize \/ Detect \/ EndOptimize

Spec == Init /\ [][Next]_vars

---------------------------------------------------------------------------
(* Properties *)

TypeOK ==
    /\ Len(events) <= MaxEvents /\ run.at \in 0 .. 6
    /\ report.grade \in {"none", "A", "B", "C", "D", "F"}

\* A trivial command is told of a session exactly when the session's events
\* hold it often enough, all its arguments together, and with their number.
NoiseExact ==
    \A s \in Sessions, prefix \in Range(Trivial) :
        LET all == Cardinality({i \in DOMAIN events :
                        /\ events[i].kind = "bash" /\ events[i].session = s
                        /\ events[i].value \in DOMAIN Trivial
                        /\ Trivial[events[i].value] = prefix})
            told == {f \in Noise : f.session = s /\ f.about = prefix}
        IN IF all < MinNoise THEN told = {} ELSE {f.count : f \in told} = {all}

\* However scans fall between the detectors, a report blames no server and no
\* agent that was in use before it began, and its grade is not better than one
\* of its findings allows.
BlamesUnused(r) ==
    \A f \in r.found : /\ f.of = "unused_mcp" => f.about \notin r.invoked
                       /\ f.of = "ghost_agent" => f.about \notin r.observed
ReportFair ==
    /\ BlamesUnused(report)
    /\ \A f \in report.found :
        report.grade # "A" /\ (f.severity = "high" => report.grade = "F")

WasteTrue == NoiseExact /\ ReportFair

\* What the module says of rereads: files that were read that often.
RereadsAreReads ==
    \A f \in report.found : f.of = "reread_files" =>
        Len(SelectSeq(read, LAMBDA r : r = <<f.session, f.about>>)) >= MinReads

---------------------------------------------------------------------------
(* What the steps preserve *)

Events == [session : Sessions, kind : {"file", "bash", "mcp", "other"},
           value : {c.tool : c \in Calls} \cup {c.arg : c \in Calls}]
Inv ==
    /\ events \in Seq(Events) /\ TypeOK
    /\ run \in [at : 0 .. 6, found : {run.found}, invoked : SUBSET invoked,
                observed : SUBSET observed]
    /\ BlamesUnused(run) /\ ReportFair

=============================================================================
