------------------------------- MODULE Ledger -------------------------------
(***************************************************************************)
(* The usage database as its readers see it.  A report (the dashboard, the *)
(* command-line and MCP summaries, a provider's page, the heatmap, the     *)
(* export) is read by one statement after the other, without a transaction *)
(* around them, while scans insert and delete turns file by file, add up   *)
(* the session rows in a statement of their own, and while a new price     *)
(* catalog is applied turn by turn.                                        *)
(*                                                                         *)
(* Time is counted in quarters of a day, from a Monday, within one year.   *)
(* The token columns are one number and so are the costs.  No group is     *)
(* larger than its LIMIT.                                                  *)
(***************************************************************************)
EXTENDS Integers, Sequences, FiniteSets, FiniteSetsExt, Functions

CONSTANTS Turns,       \* the row ids of the turns the files may hold
          Files,       \* each file: the sets of turns it may come to hold
          Row,         \* the columns of a turn that never change
          Home,        \* the columns of a session that the reports show
          Server,      \* the MCP server of each tool, None for the others
          Rate,        \* <<model, tariff>> to [low, high, threshold]
          MaxTariff,   \* bound: price catalogs
          MaxWrites,   \* bound: scans and repricings
          Queries,     \* the arguments of a report
          None

NoTime == -1
Of(f) == UNION Files[f]
Providers == {Home[s].provider : s \in DOMAIN Home}
Session(t) == Row[t].session
Provider(t) == Home[Session(t)].provider

\* What an instance must satisfy.
Rates == [low : Nat, high : Nat, threshold : Nat]
LedgerAssumption ==
    /\ UNION {Of(f) : f \in DOMAIN Files} = Turns
    /\ \A f, g \in DOMAIN Files : f # g => Of(f) \cap Of(g) = {}
    /\ Turns \subseteq Nat /\ IsFiniteSet(Turns)
    /\ \A t \in Turns : /\ Session(t) \in DOMAIN Home /\ Row[t].tokens \in Nat
                        /\ Row[t].ts \in Int /\ Row[t].ts >= NoTime
                        /\ \A c \in 1..MaxTariff : Rate[<<Row[t].model, c>>] \in Rates
    /\ MaxTariff \in Nat \ {0} /\ MaxWrites \in Nat
    /\ \A q \in Queries : q.offset \in Int
    /\ None \notin [file : DOMAIN Files, turns : SUBSET Turns]

VARIABLES turns,     \* the rows of table turns
          cost,      \* ... and their price
          sessions,  \* the rows of table sessions: the totals they store
          tariff,    \* the catalog that prices a turn
          scan,      \* the step of the scanner
          batch,     \* ... and the file it is storing
          pricing,   \* a new catalog is being applied
          reprice,   \* ... and these turns still wait for it
          writes,    \* how many writes there were
          report,    \* the report being read, None between two
          query,     \* ... its arguments
          answer,    \* ... and its sections, as far as they were read
          quiet      \* nothing was written since it began

db == <<turns, cost, sessions, tariff>>
reader == <<report, query, answer, quiet>>
writers == <<scan, batch, pricing, reprice, writes>>
vars == <<db, writers, reader>>

\* Tokens beyond the threshold have a rate of their own.
Price(model, catalog, n) ==
    LET r == Rate[<<model, catalog>>]
    IN IF r.threshold > 0 /\ n > r.threshold
       THEN r.threshold * r.low + (n - r.threshold) * r.high
       ELSE n * r.low

PriceOf(t) == Price(Row[t].model, tariff, Row[t].tokens)
Sum(S) == [turns  |-> Cardinality(S),
           tokens |-> SumFunctionOnSet([t \in S |-> Row[t].tokens], S),
           cost   |-> SumFunctionOnSet(cost, S)]
Plus(a, b) == [k \in DOMAIN a |-> a[k] + b[k]]
Group(S, key) == [k \in {key[t] : t \in S} |-> Sum({t \in S : key[t] = k})]
Count(S, key) == [k \in {key[t] : t \in S} |-> Cardinality({t \in S : key[t] = k})]

SessionsOf(S) == {Session(t) : t \in S}
Stored == DOMAIN sessions
Joined == {t \in turns : Session(t) \in Stored}

-----------------------------------------------------------------------------
(* Days, weeks and hours of the client.                                      *)

Clamp(offset) == IF offset < -56 THEN -56 ELSE IF offset > 56 THEN 56 ELSE offset
Stamped(t) == Row[t].ts # NoTime
Day(t, offset) == IF Stamped(t) THEN (Row[t].ts + Clamp(offset)) \div 4 ELSE NoTime
\* datetime() of an empty time stamp is NULL, and a row without a day is dropped.
Dated(offset) == IF Clamp(offset) = 0 THEN turns ELSE {t \in turns : Stamped(t)}
WeekStart(sow) == IF sow \in 0..6 THEN sow ELSE 1
Week(t, offset, sow) == (Day(t, offset) + ((8 - WeekStart(sow)) % 7)) \div 7
Hour(t, offset) == (Row[t].ts + Clamp(offset)) % 4
Weekday(t, offset) == (Day(t, offset) + 1) % 7
\* A date string is compared with a time stamp or with its first ten characters.
Since(p, day) == {t \in turns : Provider(t) = p /\ Stamped(t) /\ Day(t, 0) >= day}

PeriodStart(period, today) ==
    CASE period = "today" -> today
      [] period = "week"  -> today - 6
      [] period = "month" -> today - 29
      [] period = "year"  -> today - 364
      [] OTHER            -> None
InPeriod(S, q) ==
    IF PeriodStart(q.period, q.today) = None THEN S
    ELSE {t \in S : Stamped(t)
                    /\ Day(t, q.offset) \in PeriodStart(q.period, q.today)..q.today}

-----------------------------------------------------------------------------
(* The statements.                                                           *)

ByProvider(S) == Group(S, [t \in S |-> Provider(t)])
ByModel(S) == Group(S, [t \in S |-> <<Provider(t), Row[t].model>>])
ByConfidence(S) == Group(S, [t \in S |-> Row[t].confidence])
ByBilling(S) == Group(S, [t \in S |-> Row[t].billing])
Lowest(S) == IF \E t \in S : Row[t].confidence = "low" THEN "low"
             ELSE IF \E t \in S : Row[t].confidence = "medium" THEN "medium" ELSE "high"
Billing(S) == LET b == {Row[t].billing : t \in S}
              IN IF Cardinality(b) = 1 THEN CHOOSE m \in b : TRUE ELSE "mixed"
ModelRows(S) == [k \in DOMAIN ByModel(S) |->
    LET T == {t \in S : <<Provider(t), Row[t].model>> = k}
    IN [total |-> ByModel(S)[k], confidence |-> Lowest(T), billing |-> Billing(T)]]

Daily(offset) == Group(Dated(offset),
                       [t \in turns |-> <<Day(t, offset), Provider(t), Row[t].model>>])
Weekly(offset, sow) == Group({t \in turns : Stamped(t)},
                             [t \in turns |-> <<Week(t, offset, sow), Row[t].model>>])
Hourly == Group({t \in turns : Stamped(t)}, [t \in turns |-> <<Provider(t), Hour(t, 0)>>])
Subagents == LET sub == {t \in turns : Row[t].agent # None}
             IN [parent |-> Sum(turns \ sub), sub |-> Sum(sub),
                 agents |-> Cardinality({Row[t].agent : t \in sub})]
SessionRows == [s \in Stored |->
    [total |-> sessions[s],
     agents |-> Cardinality({Row[t].agent : t \in {u \in turns :
                                Session(u) = s /\ Row[u].agent # None}})]]
Entrypoints == [k \in {<<Home[s].provider, Home[s].entry>> : s \in Stored} |->
    Sum({t \in Joined : <<Provider(t), Home[Session(t)].entry>> = k})]
Tiers == Count({t \in turns : Row[t].tier # None},
               [t \in turns |-> <<Provider(t), Row[t].tier>>])
Calls == {c \in [turn : turns, tool : DOMAIN Server] : c.tool \in Row[c.turn].tools}
Tools(C) == Count(C, [c \in C |-> <<Provider(c.turn), c.tool>>])
Servers(C) == Count({c \in C : Server[c.tool] # None},
                    [c \in C |-> <<Provider(c.turn), Server[c.tool]>>])
Branches == Group({t \in Joined : Home[Session(t)].branch # None},
                  [t \in turns |-> <<Provider(t), Home[Session(t)].branch>>])

Versions(S) == Group(S, [t \in S |-> <<Provider(t), Row[t].version>>])

Projects(S) == Group(S \cap Joined,
                     [t \in S |-> <<Day(t, 0), Provider(t), Home[Session(t)].project>>])
\* Each model is priced once, for all its tokens.
Efficiency == LET models == {Row[t].model : t \in turns}
                  tokens(m) == Sum({t \in turns : Row[t].model = m}).tokens
              IN SumFunctionOnSet([m \in models |-> Price(m, tariff, tokens(m))], models)

\* An error page: the end of the range is a date, so its own day is left out.
ErrorRows(q) == {c \in Calls : /\ c.tool \in Row[c.turn].failed
                               /\ Provider(c.turn) = q.provider
                               /\ Day(c.turn, q.offset) \in q.since..(q.today - 1)}

Summary(p, day) == Sum(Since(p, day))
SummaryTz(p, day, offset) ==
    Sum({t \in turns : Provider(t) = p /\ Stamped(t) /\ Day(t, offset) >= day})
\* Parameters are bound by position: day of SELECT, provider, day of WHERE, start.
HistoryArgs(p, day, offset) ==
    IF Clamp(offset) = 0 THEN <<"", p, "", day>> ELSE <<p, "shift", "shift", day>>
HistoryTz(p, day, offset) ==
    LET args == HistoryArgs(p, day, offset)
    IN Group({t \in turns : Provider(t) = args[2] /\ Stamped(t)
                            /\ Day(t, IF args[3] = "shift" THEN offset ELSE 0) >= args[4]},
             [t \in turns |-> Day(t, IF args[1] = "shift" THEN offset ELSE 0)])
Savings(p, day) == Count(Since(p, day), [t \in turns |-> Row[t].model])
RecentSessions(p) == [s \in {u \in Stored : Home[u].provider = p} |->
                          Sum({t \in turns : Session(t) = s})]
ProviderAgents(p, day) ==
    LET sub == {t \in Since(p, day) : Row[t].agent # None}
    IN [total |-> Sum(sub), agents |-> Cardinality({Row[t].agent : t \in sub})]

Heatmap(q) == LET S == InPeriod({t \in turns : Stamped(t)}, q)
              IN [c \in (0..6) \X (0..3) |->
                     Sum({t \in S : <<Weekday(t, q.offset), Hour(t, q.offset)>> = c})]

Average(q) == LET S == InPeriod({t \in turns : Stamped(t) /\ cost[t] > 0}, q)
              IN [cost |-> Sum(S).cost, days |-> Cardinality({Day(t, q.offset) : t \in S})]

Exported(q) == Group(InPeriod(turns, [q EXCEPT !.offset = 0]),
                     [t \in turns |-> <<Day(t, 0), Provider(t), Row[t].model,
                                        IF Session(t) \in Stored
                                        THEN Home[Session(t)].project ELSE None>>])
Today(q) == {t \in turns : Day(t, 0) = q.today}
LocalByDay(q) == Group({t \in turns : Stamped(t) /\ Row[t].ts >= 4 * q.since},
                       [t \in turns |-> Day(t, 0)])

-----------------------------------------------------------------------------
(* The reports: the statements of each, in order.  A handler of the server   *)
(* opens the database with init_db, which adds up the session rows first.    *)

InitDb == <<"addup", "prune">>
DashboardReport == InitDb \o
    <<"models", "providers", "confidence", "billing", "daily", "sessions", "subagents",
      "entrypoints", "tiers", "tools", "mcp", "hourly", "branches", "versions", "projects",
      "efficiency", "weekly", "codex">>
ProviderReport == InitDb \o
    <<"since today", "since", "history", "savings", "provider models", "provider daily",
      "provider projects", "provider tools", "provider mcp", "provider hours", "recent",
      "provider agents", "provider versions">>
HeatmapReport == InitDb \o <<"heatmap", "average">>
ErrorsReport == InitDb \o <<"errors">>
CostsReport == InitDb \o <<"local costs">>
StatsCommand == <<"count", "totals", "by model", "providers", "confidence", "billing">>
TodayCommand == <<"today models", "today providers", "today confidence", "today billing">>
WeeklyCommand == <<"weeks">>
ExportCommand == <<"rows">>
McpToday == <<"today models", "today providers">>
McpStats == <<"count", "totals", "by model">>
McpSessions == <<"count", "stored rows">>

Reports == [dashboard |-> DashboardReport, provider |-> ProviderReport,
            heatmap |-> HeatmapReport, errors |-> ErrorsReport, costs |-> CostsReport,
            stats |-> StatsCommand, today |-> TodayCommand, weekly |-> WeeklyCommand,
            export |-> ExportCommand, mcp_today |-> McpToday, mcp_stats |-> McpStats,
            mcp_sessions |-> McpSessions]

Section(name, q) ==
    CASE name = "models" -> {Row[t].model : t \in turns}
      [] name = "providers" -> ByProvider(turns)
      [] name = "confidence" -> ByConfidence(turns)
      [] name = "billing" -> ByBilling(turns)
      [] name = "daily" -> Daily(q.offset)
      [] name = "sessions" -> SessionRows
      [] name = "subagents" -> Subagents
      [] name = "entrypoints" -> Entrypoints
      [] name = "tiers" -> Tiers
      [] name = "tools" -> Tools(Calls)
      [] name = "mcp" -> Servers(Calls)
      [] name = "hourly" -> Hourly
      [] name = "branches" -> Branches
      [] name = "versions" -> Versions(turns)
      [] name = "projects" -> Projects(turns)
      [] name = "efficiency" -> Efficiency
      [] name = "weekly" -> Weekly(q.offset, q.sow)
      [] name = "codex" -> Summary("codex", q.since)
      [] name = "since today" -> SummaryTz(q.provider, q.today, q.offset)
      [] name = "since" -> SummaryTz(q.provider, q.since, q.offset)
      [] name = "history" -> HistoryTz(q.provider, q.since, q.offset)
      [] name = "savings" -> Savings(q.provider, q.since)
      [] name = "provider models" -> ByModel(Since(q.provider, q.since))
      [] name = "provider daily" -> Group(Since(q.provider, q.since),
                                          [t \in turns |-> <<Day(t, 0), Row[t].model>>])
      [] name = "provider projects" -> Projects(Since(q.provider, q.since))
      [] name = "provider tools" ->
            Tools({c \in Calls : c.turn \in Since(q.provider, q.since)})
      [] name = "provider mcp" ->
            Servers({c \in Calls : c.turn \in Since(q.provider, q.since)})
      [] name = "provider hours" ->
            Group(Since(q.provider, q.since),
                  [t \in turns |-> <<Weekday(t, q.local), Hour(t, q.local)>>])
      [] name = "recent" -> RecentSessions(q.provider)
      [] name = "provider agents" -> ProviderAgents(q.provider, q.since)
      [] name = "provider versions" -> Versions(Since(q.provider, q.since))
      [] name = "heatmap" -> Heatmap(q)
      [] name = "average" -> Average(q)
      [] name = "errors" -> ErrorRows(q)
      [] name = "local costs" -> LocalByDay(q)
      [] name = "count" -> Cardinality(Stored)
      [] name = "stored rows" -> sessions
      [] name = "totals" -> Sum(turns)
      [] name = "by model" -> ModelRows(turns)
      [] name = "today models" -> ModelRows(Today(q))
      [] name = "today providers" -> ByProvider(Today(q))
      [] name = "today confidence" -> ByConfidence(Today(q))
      [] name = "today billing" -> ByBilling(Today(q))
      [] name = "weeks" -> Weekly(0, q.sow)
      [] name = "rows" -> Exported(q)

-----------------------------------------------------------------------------

Init ==
    /\ turns = {} /\ sessions = <<>> /\ tariff = 1
    /\ cost = [t \in Turns |-> 0]
    /\ scan = "idle" /\ batch = None /\ pricing = FALSE /\ reprice = {} /\ writes = 0
    /\ report = None /\ query = None /\ answer = <<>> /\ quiet = TRUE

\* Mutated form: the sums are added to the stored totals.
TotalsAdded == [s \in Stored |-> Plus(sessions[s], Sum({t \in turns : Session(t) = s}))]

\* recompute_session_totals is two statements.
Totals == [s \in Stored |-> Sum({t \in turns : Session(t) = s})]

WithTurns == [s \in Stored \cap SessionsOf(turns) |-> sessions[s]]

\* A file is stored again: its session rows first, with the totals of the file.
StoreRows(f, S) ==
    /\ scan \in {"idle", "more"} /\ writes < MaxWrites
    /\ writes' = writes + 1
    /\ scan' = "insert"
    /\ batch' = [file |-> f, turns |-> S]
    /\ sessions' = [s \in Stored \cup SessionsOf(S) |->
           IF s \notin SessionsOf(S) THEN sessions[s]
           ELSE LET T == {t \in S : Session(t) = s}
                IN [Sum(T) EXCEPT !.cost = SumFunctionOnSet([t \in T |-> PriceOf(t)], T)]]
    /\ quiet' = FALSE
    /\ UNCHANGED <<turns, cost, tariff, pricing, reprice, report, query, answer>>

\* ... then its turns; those the file has lost are deleted.
StoreTurns ==
    /\ scan = "insert"
    /\ scan' = "more"
    /\ turns' = (turns \ Of(batch.file)) \cup batch.turns
    /\ cost' = [t \in Turns |-> IF t \in batch.turns
                                THEN PriceOf(t)
                                ELSE cost[t]]
    /\ batch' = None /\ quiet' = FALSE
    /\ UNCHANGED <<sessions, tariff, pricing, reprice, writes, report, query, answer>>

ScanAddsUp ==
    /\ scan = "more"
    /\ scan' = "prune" /\ sessions' = Totals /\ quiet' = FALSE
    /\ UNCHANGED <<turns, cost, tariff, batch, pricing, reprice, writes,
                   report, query, answer>>

ScanPrunes ==
    /\ scan = "prune"
    /\ scan' = "idle" /\ sessions' = WithTurns /\ quiet' = FALSE
    /\ UNCHANGED <<turns, cost, tariff, batch, pricing, reprice, writes,
                   report, query, answer>>

ScanDies ==
    /\ scan # "idle"
    /\ scan' = "idle" /\ batch' = None
    /\ UNCHANGED <<db, pricing, reprice, writes, reader>>

\* A new catalog: the turns are read at once and updated one by one.
BeginReprice ==
    /\ ~pricing /\ tariff < MaxTariff /\ writes < MaxWrites
    /\ writes' = writes + 1
    /\ tariff' = tariff + 1 /\ pricing' = TRUE
    /\ reprice' = turns
    /\ UNCHANGED <<turns, cost, sessions, scan, batch, reader>>

RepriceTurn ==
    /\ pricing /\ reprice # {}
    /\ LET t == Min(reprice)
       IN /\ reprice' = reprice \ {t}
          /\ cost' = IF t \in turns THEN [cost EXCEPT ![t] = PriceOf(t)] ELSE cost
    /\ quiet' = (quiet /\ cost' = cost)
    /\ UNCHANGED <<turns, sessions, tariff, scan, batch, pricing, writes,
                   report, query, answer>>

\* The two statements of the end are one step here: the scanner's are two.
RepriceAddsUp ==
    /\ pricing /\ reprice = {}
    /\ pricing' = FALSE
    /\ sessions' = [s \in Stored \cap SessionsOf(turns) |-> Totals[s]]
    /\ quiet' = FALSE
    /\ UNCHANGED <<turns, cost, tariff, scan, batch, reprice, writes, report, query, answer>>

Ask(r, q) ==
    /\ report = None
    /\ report' = r /\ query' = q /\ answer' = <<>> /\ quiet' = TRUE
    /\ UNCHANGED <<db, writers>>

Names(r) == Reports[r]
Next1 == Names(report)[Len(answer) + 1]

\* The reader's own init_db is part of its report.
ReadSection ==
    /\ report # None /\ Len(answer) < Len(Names(report))
    /\ sessions' = CASE Next1 = "addup" -> Totals
                     [] Next1 = "prune" -> WithTurns
                     [] OTHER -> sessions
    /\ answer' = Append(answer, IF Next1 \in {"addup", "prune"} THEN None
                                ELSE Section(Next1, query))
    /\ UNCHANGED <<turns, cost, tariff, writers, report, query, quiet>>

Complete == report # None /\ Len(answer) = Len(Names(report))

Reply ==
    /\ Complete
    /\ report' = None /\ query' = None /\ answer' = <<>> /\ quiet' = TRUE
    /\ UNCHANGED <<db, writers>>

Next ==
    \/ (\E f \in DOMAIN Files : \E S \in Files[f] : StoreRows(f, S))
    \/ StoreTurns \/ ScanAddsUp \/ ScanPrunes \/ ScanDies
    \/ BeginReprice \/ RepriceTurn \/ RepriceAddsUp
    \/ (\E r \in DOMAIN Reports : \E q \in Queries : Ask(r, q))
    \/ ReadSection \/ Reply

Spec == Init /\ [][Next]_vars


-----------------------------------------------------------------------------
(* What the reports promise.                                                 *)

TypeOK ==
    /\ turns \subseteq Turns /\ cost \in [Turns -> Nat] /\ tariff \in 1..MaxTariff
    /\ Stored \subseteq DOMAIN Home
    /\ scan \in {"idle", "insert", "more", "prune"}
    /\ (scan = "insert") = (batch # None)
    /\ reprice \subseteq Turns /\ pricing \in BOOLEAN
    /\ writes \in 0..MaxWrites
    /\ report \in DOMAIN Reports \cup {None}

At(name) == answer[CHOOSE i \in DOMAIN Names(report) : Names(report)[i] = name]
AddUp(rows) ==
    LET of == DOMAIN rows
    IN [turns  |-> SumFunctionOnSet([k \in of |-> rows[k].turns], of),
        tokens |-> SumFunctionOnSet([k \in of |-> rows[k].tokens], of),
        cost   |-> SumFunctionOnSet([k \in of |-> rows[k].cost], of)]
SumsTo(rows, total) == AddUp(rows) = total

\* The breakdowns of one answer account for the same turns, tokens and cost:
\* each turn once, whatever the column it is grouped by, the time zone and the
\* week start, and also where a statement joins the session rows or reads the
\* totals they store; a turn without a time stamp is missing only where rows
\* are dated.  It may fail only when something was written while the answer was
\* read, or when a turn has lost its session row.  (get_dashboard_data)
DashboardAddsUp ==
    (Complete /\ report = "dashboard" /\ quiet /\ Joined = turns) =>
        LET all == AddUp(At("providers"))
            dated == Sum({t \in turns : Stamped(t)})
        IN /\ SumsTo(At("confidence"), all) /\ SumsTo(At("billing"), all)
           /\ SumsTo(At("versions"), all) /\ SumsTo(At("entrypoints"), all)
           /\ SumsTo(At("projects"), all)
           /\ SumsTo([s \in DOMAIN At("sessions") |-> At("sessions")[s].total], all)
           /\ Plus(At("subagents").parent, At("subagents").sub) = all
           /\ SumsTo(At("weekly"), dated) /\ SumsTo(At("hourly"), dated)
           /\ SumsTo(At("daily"), IF Clamp(query.offset) = 0 THEN all ELSE dated)

\* The commands agree in the same way: a day's four breakdowns with each other,
\* the all-time ones with the totals, and the weeks and the exported rows with
\* all the turns they date.  (cmd_today, cmd_stats, cmd_weekly, run_export)
CommandsAddUp ==
    (Complete /\ quiet) =>
        LET Has(name) == \E i \in DOMAIN Names(report) : Names(report)[i] = name
            models(name) == [k \in DOMAIN At(name) |-> At(name)[k].total]
            day == Sum(Today(query))
        IN /\ Has("today models") => SumsTo(models("today models"), day)
           /\ Has("today providers") => SumsTo(At("today providers"), day)
           /\ Has("today billing") => /\ SumsTo(At("today confidence"), day)
                                     /\ SumsTo(At("today billing"), day)
           /\ Has("totals") => SumsTo(models("by model"), At("totals"))
           /\ report = "stats" => \A name \in {"providers", "confidence", "billing"} :
                                    SumsTo(At(name), At("totals"))
           /\ Has("heatmap") => AddUp(At("heatmap")).cost = At("average").cost
           /\ Has("rows") =>
                SumsTo(At("rows"), Sum(InPeriod(turns, [query EXCEPT !.offset = 0])))

\* A provider's page, read while nothing is written, counts every turn since the
\* start of its range once in each of its breakdowns, those that join the
\* session rows included.  (provider_cost_summary)
ProviderAddsUp ==
    (Complete /\ report = "provider" /\ quiet /\ Joined = turns) =>
        LET all == Sum(Since(query.provider, query.since))
        IN /\ SumsTo(At("provider models"), all) /\ SumsTo(At("provider daily"), all)
           /\ SumsTo(At("provider projects"), all) /\ SumsTo(At("provider hours"), all)
           /\ SumsTo(At("provider versions"), all)
           /\ (query.offset = 0 => At("since") = all)

\* The days of a provider's history add up to the total shown above it, in the
\* client's time zone too.  (tz.rs: "a bound parameter `?` that the caller must
\* bind to the value returned by offset_sql_param")
HistoryAddsUp ==
    (Complete /\ report = "provider" /\ quiet) => SumsTo(At("history"), At("since"))

-----------------------------------------------------------------------------
(* What the steps preserve.                                                  *)

\* A scan stores what its file may hold.
Storing == batch # None => batch.file \in DOMAIN Files /\ batch.turns \in Files[batch.file]
\* While nothing is written, what was read is what a reader would read now (but
\* for the savings, which a new catalog changes), and from the reader's own
\* init_db on the sessions store the totals of their turns.
AsStored ==
    /\ \A i \in DOMAIN answer :
           \/ Names(report)[i] \in {"addup", "prune", "efficiency"}
           \/ answer[i] = Section(Names(report)[i], query)
    /\ answer # <<>> /\ Names(report)[1] = "addup" =>
           \A s \in Stored : sessions[s] = Sum({t \in turns : Session(t) = s})
Inv ==
    /\ TypeOK /\ Storing
    /\ Stored \subseteq SessionsOf(Turns)
    /\ Len(answer) \in Nat /\ answer = [i \in 1..Len(answer) |-> answer[i]]
    /\ report # None => query \in Queries /\ Len(answer) <= Len(Names(report))
    /\ report # None /\ quiet => AsStored

=============================================================================
