------------------------------ MODULE Official ------------------------------
(* The official-metadata side of a pricing sync: every source is read in      *)
(* turn, what it says becomes records of a run, run and records are inserted  *)
(* one statement at a time, and the sync ends with a count of what it did.    *)
(* A page is what its pattern matches find, in order.                         *)
EXTENDS Naturals, Sequences, FiniteSets, FiniteSetsExt, Functions

CONSTANTS
    Sources,     \* the sources in order: records of slug, kind and provider
    Pages,       \* what each may answer, by slug
    ListedGpt,   \* the models looked for on OpenAI's page, [model, long] in order
    ListedTools, \* the tools looked for there, in order
    AllowedParts,\* components of Claude's status page that are kept
    CodexModels, \* models the usage reconciliation counts
    MaxNotes,    \* sections of a release page that are read (20)
    MaxRuns

Incidents == "_incidents"
IsSeq(s) == Len(s) \in Nat /\ s = [i \in 1 .. Len(s) |-> s[i]]

\* What an instance must satisfy: what a page lists comes in some order.
InOrder(kind, page) ==
    CASE kind = "pricing" -> IsSeq(page.lines)
      [] kind = "catalog" -> IsSeq(page.named)
      [] kind = "notes" -> IsSeq(page.sections)
      [] kind = "status_summary" -> IsSeq(page.incidents)
      [] kind = "rates" -> IsSeq(page.rates)
      [] kind = "usage_reconciliation" -> TRUE
OfficialAssumption ==
    /\ IsSeq(Sources) /\ IsSeq(ListedGpt) /\ MaxNotes \in Nat /\ MaxRuns \in Nat
    /\ \A i \in DOMAIN Sources :
        LET source == Sources[i] IN
        /\ source.slug # Incidents
        /\ source.kind \in {"pricing", "catalog", "notes", "status_summary", "rates",
                            "usage_reconciliation"}
        /\ source.kind = "pricing" => IsSeq(ListedTools[source.provider])
        /\ \A page \in Pages[source.slug] : page.up => InOrder(source.kind, page.body)

VARIABLES
    runs,      \* official_sync_runs: slug, kind and status
    stored,    \* official_metadata_records: run, type, key and model, in order
    sync,      \* the sync under way
    summary    \* what the last sync that ended reported

vars == <<runs, stored, sync, summary>>

Record(type, key, model) == [type |-> type, key |-> key, model |-> model]

\* The elements of s at these places, in order.
Keep(s, places) ==
    [i \in 1 .. Cardinality(places) |->
        s[CHOOSE p \in places : Cardinality({q \in places : q <= p}) = i]]
Firsts(s) == Keep(s, {i \in DOMAIN s : \A j \in 1 .. i - 1 : s[j] # s[i]})

---------------------------------------------------------------------------
(* Pricing pages: lines of a model, whether it is marked and its numbers *)

\* OpenAI's page is searched for each model it is known to list; a model with
\* a price for long prompts needs a second triple of numbers.
Captured(lines, listed) ==
    {i \in DOMAIN lines : /\ lines[i].model = listed.model
                          /\ Len(lines[i].numbers) >= (IF listed.long THEN 6 ELSE 3)}

OpenAiRows(lines) ==
    LET found == Keep(ListedGpt, {i \in DOMAIN ListedGpt : Captured(lines, ListedGpt[i]) # {}})
    IN [i \in DOMAIN found |->
            LET n == lines[Min(Captured(lines, found[i]))].numbers IN
            [model |-> found[i].model, in |-> n[1], write |-> n[1], read |-> n[2], out |-> n[3],
             above |-> IF found[i].long THEN n[4] ELSE 0]]

\* Anthropic's pages are read from top to bottom, each with columns of its own.
AnthropicRows(lines, slug) ==
    LET docs == slug = "anthropic_api_docs"
        fits == Keep(lines, {i \in DOMAIN lines :
                                Len(lines[i].numbers) = (IF docs THEN 5 ELSE 4)})
    IN [i \in DOMAIN fits |->
            LET n == fits[i].numbers IN
            [model |-> fits[i].model, in |-> n[1], write |-> IF docs THEN n[2] ELSE n[3],
             read |-> n[4], out |-> IF docs THEN n[5] ELSE n[2], above |-> 0]]

ParseSource(source, page) ==
    IF source.provider = "openai" THEN OpenAiRows(page.lines)
    ELSE AnthropicRows(page.lines, source.slug)

\* What is said of a model beside its price.
ModelMetadata(source, page, row) ==
    LET anthropic == source.provider = "anthropic" IN
    [stage |-> IF anthropic /\ <<"deprecated", row.model>> \in page.marks
               THEN "deprecated" ELSE "generally_available",
     caching |-> row.read > 0 \/ row.write > 0,
     ttl |-> IF anthropic THEN 300 ELSE 0,
     asInput |-> row.write = row.in,
     tokenizer |-> anthropic /\ <<"tokenizer", row.model>> \in page.marks,
     modes |-> IF anthropic THEN {m \in {"batch", "us_only"} : <<m, "all">> \in page.marks}
               ELSE {m \in {"batch", "priority"} : <<m, row.model>> \in page.marks}]

ToolPricing(source, page) ==
    LET listed == ListedTools[source.provider]
    IN Keep(listed, {i \in DOMAIN listed : listed[i] \in page.tools})

\* Two records of every row.
PricingRecords(source, page) ==
    LET rows == ParseSource(source, page)
        tools == ToolPricing(source, page)
    IN [i \in 1 .. 2 * Len(rows) |->
            LET row == rows[(i + 1) \div 2] IN
            IF i % 2 = 1 THEN Record("pricing_model", row.model, row)
            ELSE Record("model_metadata", row.model, ModelMetadata(source, page, row))]
       \o [i \in DOMAIN tools |-> Record("tool_pricing", <<source.provider, tools[i]>>, "")]

---------------------------------------------------------------------------
(* Catalogues and release notes *)

\* Every model the page names, once.
CatalogRecords(page) ==
    [i \in DOMAIN Firsts(page.named) |-> Record("catalog_model", Firsts(page.named)[i],
                                                Firsts(page.named)[i])]

\* The first of these that the body has a word of.
Kinds == <<"deprecation", "pricing", "context_window", "tooling", "reliability", "launch",
           "capability">>
NoteKind(words) ==
    LET said == {i \in DOMAIN Kinds : Kinds[i] \in words}
    IN IF said = {} THEN "update" ELSE Kinds[Min(said)]

AffectedModels(note) == Firsts(note.gpts \o note.claudes)

\* The sections between dates that say something.
SplitSections(page) ==
    Keep(page.sections, {i \in DOMAIN page.sections : page.sections[i].said})

ReleaseNotes(page) ==
    LET notes == SplitSections(page)
    IN [i \in {j \in DOMAIN notes : j <= MaxNotes} |-> notes[i]]

NoteRecords(page) ==
    [i \in DOMAIN ReleaseNotes(page) |->
        LET n == ReleaseNotes(page)[i]
            m == AffectedModels(n) IN
        Record("release_note", <<n.date, n.title>>,
               [of |-> IF m = <<>> THEN "" ELSE Head(m), kind |-> NoteKind(n.words)])]

\* A summary is cut at a number of bytes; inside a character that panics.
CutsACharacter(page) == \E i \in DOMAIN ReleaseNotes(page) : ReleaseNotes(page)[i].splits

---------------------------------------------------------------------------
(* Status pages, exchange rates, usage *)

Indicators == {"none", "minor", "major", "critical", "maintenance"}
Unread == [indicator |-> "none", parts |-> {}, incidents |-> <<>>]

\* A body that is no status page stands for one on which all is well.
ProviderStatus(source, page) ==
    IF ~page.parsed THEN Unread
    ELSE [indicator |-> IF page.indicator \in Indicators THEN page.indicator ELSE "unknown",
          parts |-> IF source.provider = "anthropic" THEN page.parts \cap AllowedParts ELSE {},
          incidents |-> Keep(page.incidents, {i \in DOMAIN page.incidents :
                                                  ~page.incidents[i].resolved})]

StatusSnapshot(source, page) ==
    LET s == ProviderStatus(source, page)
    IN Record("status_snapshot", source.provider, [indicator |-> s.indicator, parts |-> s.parts])

IncidentRecords(source, page) ==
    LET live == ProviderStatus(source, page).incidents
    IN [i \in DOMAIN live |-> Record("status_incident", live[i].name, "")]

\* The service's answer has no time in it, and the shape it is read with needs one.
RateRecords(page) ==
    IF ~page.timed THEN <<>>
    ELSE [i \in DOMAIN page.rates |-> Record("exchange_rate", page.rates[i], "")]

\* The pages of the usage report, as far as they name a next one.
UsageRead(pages) ==
    LET last == {i \in DOMAIN pages : ~pages[i].more \/ ~pages[i].next}
    IN SubSeq(pages, 1, IF last = {} THEN Len(pages) ELSE Min(last))

Reconciled(page) ==
    IF page.broken THEN [available |-> FALSE, tokens |-> 0]
    ELSE LET read == UsageRead(page.pages)
             codex == {i \in DOMAIN read : read[i].model \in CodexModels}
         IN [available |-> TRUE,
             tokens |-> SumFunctionOnSet([i \in codex |-> read[i].tokens], codex)]

---------------------------------------------------------------------------
(* One sync *)

\* What a source comes to: the runs to insert, each with its records.
Run(slug, kind, status, records) ==
    [slug |-> slug, kind |-> kind, status |-> status, records |-> records]
Parsed(slug, kind, records) ==
    Run(slug, kind, IF records = <<>> THEN "parse_error" ELSE "success", records)

PricingRuns(source, page) ==
    <<[Parsed(source.slug, "pricing", PricingRecords(source, page)) EXCEPT
        !.status = IF ParseSource(source, page) = <<>> THEN "parse_error" ELSE "success"]>>

\* OpenAI's status takes two answers; Claude's one has the incidents in it.
StatusRuns(source, page) ==
    IF source.provider = "openai"
    THEN <<Run(source.slug, "status_summary", "success", <<StatusSnapshot(source, page)>>),
           Run(Incidents, "status_incidents", "success", IncidentRecords(source, page))>>
    ELSE <<Run(source.slug, "status_summary", "success",
               <<StatusSnapshot(source, page)>> \o IncidentRecords(source, page))>>

UsageRuns(source, page) ==
    IF ~page.key THEN <<Run(source.slug, "usage_reconciliation", "skipped", <<>>)>>
    ELSE <<Run(source.slug, "usage_reconciliation",
               IF Reconciled(page).available THEN "success" ELSE "fetch_error",
               <<Record("usage_reconciliation", "days", Reconciled(page))>>)>>

Records(done) ==
    SumFunctionOnSet([i \in DOMAIN done |-> Len(done[i].records)], DOMAIN done)
Successes(done) == {i \in DOMAIN done : done[i].status = "success"}

\* Mutated form: the two runs of a status source are reported as one.
CountedOnce(source, page, done) ==
    [runs |-> 1, records |-> Records(done), ok |-> Cardinality(Successes(done))]

\* What the sync adds to its counts for a source.
Counted(source, page, done) ==
    [runs |-> Len(done), records |-> Records(done), ok |-> Cardinality(Successes(done))]

SourceRuns(source, page) ==
    IF ~page.up THEN <<Run(source.slug, source.kind, "fetch_error", <<>>)>>
    ELSE CASE source.kind = "pricing" -> PricingRuns(source, page.body)
           [] source.kind = "catalog" -> <<Parsed(source.slug, "catalog", CatalogRecords(page.body))>>
           [] source.kind = "notes" -> <<Parsed(source.slug, "notes", NoteRecords(page.body))>>
           [] source.kind = "status_summary" -> StatusRuns(source, page.body)
           [] source.kind = "rates" -> <<Parsed(source.slug, "rates", RateRecords(page.body))>>
           [] source.kind = "usage_reconciliation" -> UsageRuns(source, page.body)

Zero == [runs |-> 0, records |-> 0, ok |-> 0]
Sum(a, b) == [runs |-> a.runs + b.runs, records |-> a.records + b.records, ok |-> a.ok + b.ok]
Idle == [pc |-> "idle", at |-> 0, from |-> 0, todo |-> <<>>, run |-> 0, rec |-> 0,
         count |-> Zero]
NoSummary == [over |-> FALSE, from |-> 0, count |-> Zero]

Init == runs = <<>> /\ stored = <<>> /\ sync = Idle /\ summary = NoSummary

Start ==
    /\ sync.pc = "idle" /\ Len(runs) < MaxRuns
    /\ sync' = [Idle EXCEPT !.pc = "fetch", !.at = 1, !.from = Len(runs)]
    /\ summary' = NoSummary
    /\ UNCHANGED <<runs, stored>>

Fetch ==
    /\ sync.pc = "fetch" /\ sync.at <= Len(Sources)
    /\ LET source == Sources[sync.at] IN
        \E page \in Pages[source.slug] :
            LET done == SourceRuns(source, page)
                fatal == source.kind = "notes" /\ page.up /\ CutsACharacter(page.body) IN
            sync' = IF fatal THEN Idle
                    ELSE [sync EXCEPT !.pc = "run", !.todo = done,
                            !.count = Sum(@, Counted(source, page, done))]
    /\ UNCHANGED <<runs, stored, summary>>

InsertRun ==
    /\ sync.pc = "run" /\ sync.run < Len(sync.todo)
    /\ LET r == sync.todo[sync.run + 1] IN
        runs' = Append(runs, [slug |-> r.slug, kind |-> r.kind, status |-> r.status])
    /\ sync' = [sync EXCEPT !.pc = "records", !.run = @ + 1]
    /\ UNCHANGED <<stored, summary>>

\* The run the records are of.
InHand == sync.todo[sync.run]

InsertRecord ==
    /\ sync.pc = "records" /\ sync.rec < Len(InHand.records)
    /\ stored' = Append(stored, [run |-> Len(runs), rec |-> InHand.records[sync.rec + 1]])
    /\ sync' = [sync EXCEPT !.rec = @ + 1]
    /\ UNCHANGED <<runs, summary>>

RunDone ==
    /\ sync.pc = "records" /\ sync.rec = Len(InHand.records)
    /\ sync' = [sync EXCEPT !.pc = "run", !.rec = 0]
    /\ UNCHANGED <<runs, stored, summary>>

NextSource ==
    /\ sync.pc = "run" /\ sync.run = Len(sync.todo)
    /\ sync' = [sync EXCEPT !.pc = "fetch", !.at = @ + 1, !.todo = <<>>, !.run = 0]
    /\ UNCHANGED <<runs, stored, summary>>

Finish ==
    /\ sync.pc = "fetch" /\ sync.at > Len(Sources)
    /\ summary' = [over |-> TRUE, from |-> sync.from, count |-> sync.count]
    /\ sync' = Idle
    /\ UNCHANGED <<runs, stored>>

\* The process dies, or a statement fails.
Crash ==
    /\ sync.pc # "idle"
    /\ sync' = Idle
    /\ UNCHANGED <<runs, stored, summary>>

Next == Start \/ Fetch \/ InsertRun \/ InsertRecord \/ RunDone \/ NextSource \/ Finish \/ Crash

Spec == Init /\ [][Next]_vars

---------------------------------------------------------------------------
(* The dashboard's report *)

RecordsOf(i) == {m \in DOMAIN stored : stored[m].run = i}

LatestRuns ==
    {i \in DOMAIN runs : \A j \in DOMAIN runs : runs[j].slug = runs[i].slug => j <= i}

\* Of each slug its last run, and how many records of it there are.
OfficialSync ==
    {[slug |-> runs[i].slug, status |-> runs[i].status, run |-> i,
      records |-> Cardinality(RecordsOf(i))] : i \in LatestRuns}

---------------------------------------------------------------------------
(* Properties *)

TypeOK ==
    /\ \A i \in DOMAIN stored : stored[i].run \in DOMAIN runs
    /\ sync.pc \in {"idle", "fetch", "run", "records"}
    /\ sync.at \in 0 .. Len(Sources) + 1
    /\ summary.over \in BOOLEAN

\* A sync that reaches its end has reported what it wrote: as many runs, as
\* many records and as many successes as its own rows show.
SummaryTrue ==
    summary.over =>
        LET own == summary.from + 1 .. Len(runs) IN
        /\ summary.count.runs = Cardinality(own)
        /\ summary.count.records = Cardinality({i \in DOMAIN stored : stored[i].run \in own})
        /\ summary.count.ok = Cardinality({i \in own : runs[i].status = "success"})

\* And the dashboard then shows this sync for every source: none of an earlier
\* one that died or failed shines through, and a success has records.  Incidents
\* that could not be read are the exception: they keep the last answer.
ReportOfThisSync ==
    summary.over =>
        \A s \in OfficialSync : s.slug # Incidents =>
            /\ s.run > summary.from
            /\ s.status = "success" => s.records > 0
            /\ s.status = "skipped" => s.records = 0

SyncReported == SummaryTrue /\ ReportOfThisSync

---------------------------------------------------------------------------
(* What the steps preserve *)

\* The runs this sync has inserted, the records it has, those it still has to
\* insert for its source, and whether run i waits for its first record.
Own == sync.from + 1 .. Len(runs)
Inserted == {m \in DOMAIN stored : stored[m].run > sync.from}
Waiting == {i \in DOMAIN sync.todo : i > sync.run}
LengthOf(done) == [i \in DOMAIN done |-> Len(done[i].records)]
Rest == IF sync.pc = "records" THEN Len(InHand.records) - sync.rec ELSE 0
Begun(i) == sync.pc = "records" /\ sync.rec = 0 /\ i = Len(runs)

\* What is counted is what was inserted and what waits.
CountsTrue ==
    /\ sync.count.runs = Cardinality(Own) + Cardinality(Waiting)
    /\ sync.count.records = Cardinality(Inserted)
                            + SumFunctionOnSet(LengthOf(sync.todo), Waiting) + Rest
    /\ sync.count.ok = Cardinality({i \in Own : runs[i].status = "success"})
                       + Cardinality(Successes(sync.todo) \cap Waiting)

\* Each source that is done, and the one under way, has a run of this sync.
SourcesRun ==
    \A k \in DOMAIN Sources :
        k < sync.at \/ (k = sync.at /\ sync.run > 0) =>
            \E i \in Own : runs[i].slug = Sources[k].slug

\* A success has records, what was skipped has none.
HasRecords(slug, status, n) ==
    /\ status = "success" /\ slug # Incidents => n > 0
    /\ status = "skipped" => n = 0
RunsRecorded ==
    \A i \in Own :
        /\ runs[i].status = "success" /\ runs[i].slug # Incidents /\ ~Begun(i) =>
               \E m \in DOMAIN stored : stored[m].run = i
        /\ runs[i].status = "skipped" => \A m \in DOMAIN stored : stored[m].run # i

RunOf(r, source) ==
    /\ IsSeq(r.records) /\ r.slug \in {source.slug, Incidents}
    /\ HasRecords(r.slug, r.status, Len(r.records))
Todo(todo, source) ==
    /\ IsSeq(todo) /\ Len(todo) > 0 /\ todo[1].slug = source.slug
    /\ \A i \in DOMAIN todo : RunOf(todo[i], source)

UnderWay ==
    /\ sync.at > 0 /\ sync.from \in 0 .. Len(runs) /\ ~summary.over
    /\ sync.pc = "fetch" => sync.todo = <<>> /\ sync.run = 0 /\ sync.rec = 0
    /\ sync.pc # "fetch" => /\ sync.at \in DOMAIN Sources
                            /\ Todo(sync.todo, Sources[sync.at])
                            /\ sync.run \in 0 .. Len(sync.todo)
    /\ sync.pc = "run" => sync.rec = 0
    /\ sync.pc = "records" =>
           /\ sync.run > 0 /\ sync.rec \in 0 .. Len(InHand.records) /\ sync.from < Len(runs)
           /\ runs[Len(runs)] = [slug |-> InHand.slug, kind |-> InHand.kind,
                                 status |-> InHand.status]
    /\ CountsTrue /\ SourcesRun /\ RunsRecorded

Inv ==
    /\ TypeOK /\ SyncReported
    /\ IsSeq(runs) /\ IsSeq(stored)
    /\ \A i \in DOMAIN runs :
           runs[i].slug = Incidents \/ \E k \in DOMAIN Sources : runs[i].slug = Sources[k].slug
    /\ sync = [k \in {"pc", "at", "from", "todo", "run", "rec", "count"} |-> sync[k]]
    /\ sync.pc # "idle" => UnderWay

=============================================================================
