--------------------------------- MODULE Rows ---------------------------------
(* What is stored and what is computed from it: the logs of the other agents,   *)
(* the reports, the billing blocks, the prices, the official metadata and the   *)
(* waste report.                                                                *)
(* They share no state, so one run explores each alone, `part` saying which:    *)
(* the parts take the variables v1, v2, ... in the order they declare theirs.   *)
EXTENDS Integers

CONSTANTS
    Turns, Files, RowOf, Home, Server, Rate, MaxTariff, MaxWrites,   \* Ledger
    Queries,
    HourTicks, Window, Default, Longest, Unit, Sizes, Limits, Lengths,  \* Blocks
    Used, BlockTurns, MaxTime,
    LogFiles, ArchivedLogs, LogKinds, LogLines, MaxLog,               \* Sources
    BuiltIn, Families, Standard, Newest, Slugs, Offers, Overrides,  \* Prices
    Listings, Models, Amounts, PriceRuns, PricedTurns,
    OfficialSources, Pages, ListedGpt, ListedTools, AllowedParts,  \* Official
    CodexModels, MaxNotes, OfficialRuns,
    WasteSessions, ToolCalls, Trivial, McpServers, Agents, MinReads,      \* Waste
    MaxRereads, MinNoise, MediumBloat, HighBloat, MaxEvents,
    None

VARIABLES part, v1, v2, v3, v4, v5, v6, v7, v8, v9, v10, v11, v12, v13

L == INSTANCE Ledger WITH
        Row <- RowOf,
        turns <- v1, cost <- v2, sessions <- v3,
        tariff <- v4, scan <- v5, batch <- v6, pricing <- v7, reprice <- v8,
        writes <- v9, report <- v10, query <- v11, answer <- v12, quiet <- v13
B == INSTANCE Blocks WITH
        Hour <- HourTicks, Sessions <- Lengths, MaxTurns <- BlockTurns, now <- v1, turns <- v2,
        session <- v3, limit <- v4
S == INSTANCE Sources WITH
        Files <- LogFiles, Archived <- ArchivedLogs, Kinds <- LogKinds, Alphabet <- LogLines,
        kind <- v1, log <- v2, mtime <- v3, clock <- v4,
        rows <- v5, marks <- v6, sidecar <- v7, pc <- v8, cur <- v9,
        stamp <- v10, got <- v11, excused <- v12, hidden <- v13
P == INSTANCE Prices WITH
        MaxRuns <- PriceRuns, MaxTurns <- PricedTurns, overrides <- v1,
        cache <- v2, map <- v3, runs <- v4, stored <- v5, turns <- v6,
        sync <- v7, summary <- v8
O == INSTANCE Official WITH
        Sources <- OfficialSources, MaxRuns <- OfficialRuns, runs <- v1,
        stored <- v2, sync <- v3, summary <- v4
W == INSTANCE Waste WITH
        Sessions <- WasteSessions, Calls <- ToolCalls, Servers <- McpServers,
        events <- v1, sessions <- v2, invoked <- v3,
        observed <- v4, configured <- v5, run <- v6, report <- v7, read <- v8

ASSUME Instances == L!LedgerAssumption /\ B!BlocksAssumption /\
                 S!SourcesAssumption /\ P!PricesAssumption /\
                 O!OfficialAssumption /\ W!WasteBounds

vars == <<part, v1, v2, v3, v4, v5, v6, v7, v8, v9, v10, v11, v12, v13>>

\* The variables a part does not use stay None.
Init ==
    \/ part = "ledger" /\ L!Init
    \/ part = "blocks" /\ B!Init /\ v5 = None /\ v6 = None /\ v7 = None /\
       v8 = None /\ v9 = None /\ v10 = None /\ v11 = None /\ v12 = None /\
       v13 = None
    \/ part = "sources" /\ S!Init
    \/ part = "prices" /\ P!Init /\ v9 = None /\ v10 = None /\ v11 = None
       /\ v12 = None /\ v13 = None
    \/ part = "official" /\ O!Init /\ v5 = None /\ v6 = None /\ v7 = None
       /\ v8 = None /\ v9 = None /\ v10 = None /\ v11 = None /\ v12 = None
       /\ v13 = None
    \/ part = "waste" /\ W!Init /\ v9 = None /\ v10 = None /\ v11 = None
       /\ v12 = None /\ v13 = None

Ledger ==
    /\ part = "ledger" /\ L!Next
    /\ UNCHANGED <<part>>
Blocks ==
    /\ part = "blocks" /\ B!Next
    /\ UNCHANGED <<part, v5, v6, v7, v8, v9, v10, v11, v12, v13>>
Sources ==
    /\ part = "sources" /\ S!Next
    /\ UNCHANGED <<part>>
Prices ==
    /\ part = "prices" /\ P!Next
    /\ UNCHANGED <<part, v9, v10, v11, v12, v13>>
Official ==
    /\ part = "official" /\ O!Next
    /\ UNCHANGED <<part, v5, v6, v7, v8, v9, v10, v11, v12, v13>>
Waste ==
    /\ part = "waste" /\ W!Next
    /\ UNCHANGED <<part, v9, v10, v11, v12, v13>>
Next == Ledger \/ Blocks \/ Sources \/ Prices \/ Official \/ Waste

Spec == Init /\ [][Next]_vars

\* The reports alone, for the run that looks at a provider's history.
LedgerSpec == Init /\ part = "ledger" /\ [][Ledger]_vars

\* The sections of a report read while nothing is written count each turn once,
\* so that they add up to one total (get_dashboard_data, the commands,
\* provider_cost_summary).
LedgerAddsUp ==
    part = "ledger" => /\ L!TypeOK
                       /\ L!DashboardAddsUp /\ L!CommandsAddUp /\ L!ProviderAddsUp

\* The days of a provider's history add up to the total shown above it, in the
\* client's time zone too.  (tz.rs: "a bound parameter `?` that the caller must
\* bind to the value returned by offset_sql_param")
HistoryAddsUp == part = "ledger" => L!HistoryAddsUp

\* The blocks partition the turns and their rows tile the time; where the user
\* paused, the status line shows the block that every other view shows; and the
\* limits suggested, the forecast and the views follow from the same numbers
\* (identify_blocks, quota_suggestions, depletion_forecast).
BlocksSound ==
    part = "blocks" => B!TypeOK /\ B!BlocksExact /\ B!PausedAgrees /\ B!AdviceSound

\* When every log carries the mark of its mtime, the turns of each are stored,
\* read as its format means (the parsers of the other providers).
SourcesStored == part = "sources" => S!TypeOK /\ S!SourcesStored /\ S!ParsedRight

\* After a sync that found a change, the turns it met are all priced from its
\* catalogue, and a turn that no sync has priced has the price of what fits its
\* name best (pricing.rs, pricing_sync.rs).
RepricedWhole == part = "prices" => P!TypeOK /\ P!RepricedWhole /\ P!PricedRight

\* A page that cannot be read leaves the prices it gave before (pricing_sync.rs).
FailureKeepsPrices == [][part = "prices" => P!KeepsPrices]_vars

\* What a sync reports of each source is what it stored in this very sync
\* (sync_official_sources).
SyncReported == part = "official" => O!TypeOK /\ O!SyncReported

\* Trivial commands are told exactly, and a report blames nothing that was in use
\* before it began (optimizer).
WasteTrue == part = "waste" => W!TypeOK /\ W!WasteTrue

=============================================================================
