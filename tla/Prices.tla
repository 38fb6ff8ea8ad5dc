------------------------------- MODULE Prices -------------------------------
(* Where the price of a turn comes from.  A scan prices a turn from the       *)
(* table in the program, with the user's overrides before it and LiteLLM's    *)
(* catalogue after it; a pricing sync reads the providers' pages, lays what   *)
(* they say over the table and, when the catalogue changed, prices every turn *)
(* again.  A model's name is the sequence of its words.                       *)
EXTENDS Naturals, Sequences, FiniteSets, SequencesExt, FiniteSetsExt, Functions

CONSTANTS
    BuiltIn,    \* the table in the program: a function from names to prices
    Families,   \* words that name a family, in the order they are looked for
    Standard,   \* the name a family stands for when a turn is scanned
    Newest,     \* those it stands for in a sync, in the order they are tried
    Slugs,      \* the pages read, in the order of their priority
    Offers,     \* what each page may say: a set of sequences of model rows
    Overrides,  \* prices a user's config may set
    Listings,   \* what LiteLLM's catalogue may have both rates of
    Models,     \* the models turns are of
    Amounts,    \* token counts of the turns
    MaxRuns, MaxTurns

\* What an instance must satisfy: names are words, prices beyond the limit of a
\* long prompt are not lower, a family stands for a model of the table, and a page
\* that was read has a row (one without is recorded as an error).
Sound(p) == /\ p \in [in : Nat, out : Nat, limit : Nat, above : Nat]
            /\ p.limit = 0 \/ p.above > 0
PricesAssumption ==
    /\ Models \subseteq Seq(STRING) /\ DOMAIN BuiltIn \subseteq Seq(STRING) \ {<<>>}
    /\ \A c \in {BuiltIn} \cup Overrides \cup Listings : \A n \in DOMAIN c : Sound(c[n])
    /\ \A i \in DOMAIN Families : Standard[Families[i]] \in DOMAIN BuiltIn
    /\ Families \in Seq(STRING) /\ Slugs \in Seq(STRING) \ {<<>>}
    /\ \A s \in Range(Slugs) : <<>> \notin Offers[s]
    /\ Amounts \subseteq [in : Nat, out : Nat] /\ MaxTurns \in Nat

VARIABLES
    overrides,  \* the prices of the user's config
    cache,      \* LiteLLM's catalogue on disk, empty without the file
    map,        \* the part of it this process has installed
    runs,       \* pricing_sync_runs: the slug and the status of each
    stored,     \* pricing_sync_models: rows of a run
    turns,      \* the turns with their estimates
    sync,       \* the sync under way
    summary     \* what the last one that ended reported

vars == <<overrides, cache, map, runs, stored, turns, sync, summary>>

---------------------------------------------------------------------------
(* Prices of one turn *)

Price(in, out, limit, above) == [in |-> in, out |-> out, limit |-> limit, above |-> above]
Found(price, name, confidence) == [price |-> price, name |-> name, confidence |-> confidence]
Unknown == Found(Price(0, 0, 0, 0), <<>>, "low")

Fitting(model, catalog) == {n \in DOMAIN catalog : IsPrefix(n, model)}

\* The first family one of whose words the name contains.
FamilyOf(model) ==
    LET in == {i \in DOMAIN Families : Families[i] \in Range(model)}
    IN IF in = {} THEN "none" ELSE Families[Min(in)]

LongestPrefix(model, catalog) ==
    CHOOSE n \in Fitting(model, catalog) :
        \A o \in Fitting(model, catalog) : Len(o) <= Len(n)

\* An override, an entry of the table, the longest that fits, the standard
\* model of a family, LiteLLM: the first of them that there is.
LookupPricing(model) ==
    CASE model \in DOMAIN overrides -> Found(overrides[model], model, "high")
      [] model \notin DOMAIN overrides /\ Fitting(model, BuiltIn) # {} ->
            LET n == LongestPrefix(model, BuiltIn) IN Found(BuiltIn[n], n, "high")
      [] model \notin DOMAIN overrides /\ Fitting(model, BuiltIn) = {} /\ FamilyOf(model) # "none" ->
            LET n == Standard[FamilyOf(model)] IN Found(BuiltIn[n], n, "medium")
      [] OTHER -> IF model \in DOMAIN map THEN Found(map[model], model, "low") ELSE Unknown

\* For a sync the catalogue is all there is: neither an override nor LiteLLM is
\* asked.  The entry that fits is whichever the hash table yields first, and a
\* family has its own list of models here.
LookupCatalog(model, catalog) ==
    IF model \in DOMAIN catalog THEN {Found(catalog[model], model, "high")}
    ELSE IF Fitting(model, catalog) # {}
    THEN {Found(catalog[n], n, "high") : n \in Fitting(model, catalog)}
    ELSE LET tried == IF FamilyOf(model) = "none" THEN <<>>
                      ELSE SelectSeq(Newest[FamilyOf(model)],
                                     LAMBDA n : n \in DOMAIN catalog)
         IN IF tried = <<>> THEN {Unknown}
            ELSE {Found(catalog[Head(tried)], Head(tried), "medium")}

\* The part of an amount that falls under the limit when both exceed it.
Below(amount, total, limit) == (amount * limit) \div total

Part(amount, total, rate, price) ==
    IF price.limit = 0 \/ total <= price.limit THEN amount * rate
    ELSE Below(amount, total, price.limit) * rate
            + (amount - Below(amount, total, price.limit)) * rate * price.above

CalcCost(price, use) ==
    LET total == use.in + use.out
    IN Part(use.in, total, price.in, price) + Part(use.out, total, price.out, price)

EstimateCost(found, use, version) ==
    [cost |-> CalcCost(found.price, use), version |-> version, name |-> found.name,
     confidence |-> found.confidence]

---------------------------------------------------------------------------
(* The catalogue of a sync *)

\* The last good run of each page; a run that failed leaves it in force.
LatestRun(slug) ==
    LET good == {i \in DOMAIN runs : runs[i] = [slug |-> slug, status |-> "success"]}
    IN IF good = {} THEN 0 ELSE Max(good)

\* Mutated form: the last run of a page, whatever became of it.
LatestOfAny ==
    {m \in stored : \A i \in DOMAIN runs : runs[i].slug = m.slug => i <= m.run}

Latest == {m \in stored : m.run = LatestRun(m.slug)}

\* Over the table in the program, the page of the higher priority last; what a
\* row leaves open about long prompts stays as it was.
Overlay(catalog, row) ==
    LET old == IF row.name \in DOMAIN catalog THEN catalog[row.name] ELSE row.price
        new == IF row.price.limit # 0 THEN row.price
               ELSE [row.price EXCEPT !.limit = old.limit, !.above = old.above]
    IN [n \in DOMAIN catalog \cup {row.name} |-> IF n = row.name THEN new ELSE catalog[n]]

CatalogOf(rows) ==
    FoldLeft(LAMBDA c, slug : FoldSet(LAMBDA m, d : Overlay(d, m), c,
                                      {m \in rows : m.slug = slug}),
             BuiltIn, Slugs)
EffectiveCatalog == CatalogOf(Latest)

\* Of each page in force, its run.
CatalogVersion == {<<m.slug, m.run>> : m \in Latest}

DiffCatalogs(old, new) ==
    {n \in DOMAIN old \cup DOMAIN new :
        \/ n \notin DOMAIN old \/ n \notin DOMAIN new
        \/ old[n] # new[n]}

---------------------------------------------------------------------------
(* Startup and scans *)

Idle == [pc |-> "idle", at |-> 0, catalog |-> BuiltIn, rows |-> <<>>, seen |-> 0]
NoSummary == [changed |-> {}, repriced |-> 0, version |-> {}, runs |-> 0]

Init ==
    /\ overrides \in Overrides
    /\ cache = <<>> /\ map = <<>>
    /\ runs = <<>> /\ stored = {} /\ turns = <<>> /\ sync = Idle /\ summary = NoSummary

\* A stale or missing cache is fetched in the background: the file changes, the
\* process keeps what it has.  Syncs do not look at it: it changes before them.
Refresh ==
    /\ runs = <<>>
    /\ cache' \in Listings \ {cache}
    /\ UNCHANGED <<overrides, map, runs, stored, turns, sync, summary>>

\* The next process installs what it finds.
Startup ==
    /\ sync.pc = "idle" /\ map # cache
    /\ map' = cache
    /\ UNCHANGED <<overrides, cache, runs, stored, turns, sync, summary>>

\* A scan stores a turn, priced by the table.
ScanTurn ==
    /\ Len(turns) < MaxTurns
    /\ \E m \in Models, use \in Amounts :
        turns' = Append(turns, [model |-> m, use |-> use,
                                est |-> EstimateCost(LookupPricing(m), use, {})])
    /\ UNCHANGED <<overrides, cache, map, runs, stored, sync, summary>>

---------------------------------------------------------------------------
(* pricing sync *)

StartSync ==
    /\ sync.pc = "idle" /\ Len(runs) < MaxRuns
    /\ sync' = [Idle EXCEPT !.pc = "fetch", !.at = 1, !.catalog = EffectiveCatalog]
    /\ UNCHANGED <<overrides, cache, map, runs, stored, turns, summary>>

NextPage == IF sync.at < Len(Slugs)
            THEN [sync EXCEPT !.pc = "fetch", !.at = @ + 1]
            ELSE [sync EXCEPT !.pc = "diff"]

\* A page that is not there or shows no prices is recorded as that.
FetchFails ==
    /\ sync.pc = "fetch"
    /\ runs' = Append(runs, [slug |-> Slugs[sync.at], status |-> "error"])
    /\ sync' = NextPage
    /\ UNCHANGED <<overrides, cache, map, stored, turns, summary>>

FetchPage ==
    /\ sync.pc = "fetch"
    /\ \E rows \in Offers[Slugs[sync.at]] :
        sync' = [sync EXCEPT !.pc = "models", !.rows = rows]
    /\ runs' = Append(runs, [slug |-> Slugs[sync.at], status |-> "success"])
    /\ UNCHANGED <<overrides, cache, map, stored, turns, summary>>

\* Each row is a statement of its own.
InsertModel ==
    /\ sync.pc = "models" /\ sync.rows # <<>>
    /\ stored' = stored \cup {[run |-> Len(runs), slug |-> Slugs[sync.at],
                               name |-> Head(sync.rows).name,
                               price |-> Head(sync.rows).price]}
    /\ sync' = [sync EXCEPT !.rows = Tail(@)]
    /\ UNCHANGED <<overrides, cache, map, runs, turns, summary>>

ModelsDone ==
    /\ sync.pc = "models" /\ sync.rows = <<>>
    /\ sync' = NextPage
    /\ UNCHANGED <<overrides, cache, map, runs, stored, turns, summary>>

\* The catalogue before the pages were read and after: no difference, no
\* repricing, whatever the turns carry.
Diff ==
    /\ sync.pc = "diff"
    /\ LET new == EffectiveCatalog
           changed == DiffCatalogs(sync.catalog, new) IN
        IF changed = {}
        THEN /\ sync' = Idle
             /\ summary' = [NoSummary EXCEPT !.runs = Len(runs)]
        ELSE /\ sync' = [sync EXCEPT !.pc = "reprice", !.at = 1, !.seen = Len(turns),
                                     !.catalog = new]
             /\ summary' = [changed |-> changed, repriced |-> 0,
                            version |-> CatalogVersion, runs |-> Len(runs)]
    /\ UNCHANGED <<overrides, cache, map, runs, stored, turns>>

\* Mutated form: a turn whose cost stays is left alone.
RepriceCosts ==
    /\ sync.pc = "reprice" /\ sync.at <= sync.seen
    /\ \E found \in LookupCatalog(turns[sync.at].model, sync.catalog) :
        LET est == EstimateCost(found, turns[sync.at].use, summary.version) IN
        turns' = IF est.cost # turns[sync.at].est.cost
                 THEN [turns EXCEPT ![sync.at].est = est] ELSE turns
    /\ sync' = [sync EXCEPT !.at = @ + 1]
    /\ UNCHANGED <<overrides, cache, map, runs, stored, summary>>

\* The rows it read, one by one; one that differs in anything is written.
RepriceTurn ==
    /\ sync.pc = "reprice" /\ sync.at <= sync.seen
    /\ \E found \in LookupCatalog(turns[sync.at].model, sync.catalog) :
        LET est == EstimateCost(found, turns[sync.at].use, summary.version) IN
        /\ turns' = [turns EXCEPT ![sync.at].est = est]
        /\ summary' = IF est # turns[sync.at].est
                      THEN [summary EXCEPT !.repriced = @ + 1] ELSE summary
    /\ sync' = [sync EXCEPT !.at = @ + 1]
    /\ UNCHANGED <<overrides, cache, map, runs, stored>>

RepriceDone ==
    /\ sync.pc = "reprice" /\ sync.at > sync.seen
    /\ sync' = [Idle EXCEPT !.seen = sync.seen]
    /\ UNCHANGED <<overrides, cache, map, runs, stored, turns, summary>>

\* The process dies.  What its statements wrote stays.
Crash ==
    /\ sync.pc # "idle"
    /\ sync' = Idle /\ summary' = NoSummary
    /\ UNCHANGED <<overrides, cache, map, runs, stored, turns>>

Next ==
    \/ Refresh \/ Startup \/ ScanTurn \/ StartSync \/ FetchFails \/ FetchPage \/ InsertModel
    \/ ModelsDone \/ Diff \/ RepriceTurn \/ RepriceDone \/ Crash

Spec == Init /\ [][Next]_vars

---------------------------------------------------------------------------
(* Properties *)

TypeOK ==
    /\ \A i \in DOMAIN runs : runs[i].slug \in Range(Slugs)
    /\ \A m \in stored : m.run \in DOMAIN runs /\ runs[m.run].status = "success"
    /\ sync.pc \in {"idle", "fetch", "models", "diff", "reprice"}
    /\ sync.seen \in Nat /\ Len(turns) <= MaxTurns

\* A page that is down or shows nothing never takes a price away: the rows in
\* force are those of the last good run of each page until another one begins,
\* through any number of failed syncs, crashes and scans.
KeepsPrices ==
    \/ stored' # stored
    \/ \E i \in DOMAIN runs' \ DOMAIN runs : runs'[i].status = "success"
    \/ Latest' = Latest
FailureKeepsPrices == [][KeepsPrices]_<<runs, stored>>

\* Once a sync that found a change is over, every turn that was there when it
\* began to reprice carries that sync's catalogue: its version, and the price
\* that the catalogue gives for its name, not necessarily the one of the best
\* name (see BestAlways).  Scans may add turns all the while.
Repriced(i) ==
    /\ turns[i].est.version = summary.version
    /\ \E f \in LookupCatalog(turns[i].model, EffectiveCatalog) :
        turns[i].est = EstimateCost(f, turns[i].use, summary.version)

RepricedWhole ==
    sync.pc = "idle" /\ summary.version # {} /\ summary.runs = Len(runs) =>
        \A i \in 1 .. sync.seen : Repriced(i)

\* A scanned turn is priced by what fits its name best: the user's word first,
\* then the most specific entry of the table; a model of a family the program
\* knows never gets LiteLLM's rates.
PricedBest(m, use, e) ==
    /\ m \in DOMAIN overrides => e.cost = CalcCost(overrides[m], use)
    /\ m \notin DOMAIN overrides =>
        \A n \in DOMAIN BuiltIn : IsPrefix(n, m) => e.name # <<>> /\ IsPrefix(n, e.name)
    /\ FamilyOf(m) # "none" /\ m \notin DOMAIN overrides => e.confidence # "low"
ScannedRight ==
    \A i \in DOMAIN turns : turns[i].est.version = {} =>
        PricedBest(turns[i].model, turns[i].use, turns[i].est)

\* What the order of the tiers promises of every turn, and what holds only until
\* the first sync that finds a change.
BestAlways ==
    \A i \in DOMAIN turns : PricedBest(turns[i].model, turns[i].use, turns[i].est)

\* One more token never makes a turn cheaper, also across the limit of a long
\* prompt.
CostGrows ==
    \A i \in DOMAIN turns :
        LET u == turns[i].use
            p == LookupPricing(turns[i].model).price IN
        /\ CalcCost(p, u) <= CalcCost(p, [u EXCEPT !.in = @ + 1])
        /\ CalcCost(p, u) <= CalcCost(p, [u EXCEPT !.out = @ + 1])

PricedRight == ScannedRight /\ CostGrows

---------------------------------------------------------------------------
(* What the steps preserve *)

Types ==
    /\ overrides \in Overrides /\ {cache, map} \subseteq Listings \cup {<<>>}
    /\ runs \in Seq([slug : Range(Slugs), status : {"success", "error"}])
    /\ turns \in Seq(Range(turns)) /\ Len(turns) <= MaxTurns
    /\ \A i \in DOMAIN turns :
          turns[i] \in [model : Models, use : Amounts, est : {turns[i].est}]
    /\ sync \in [pc : {"idle", "fetch", "models", "diff", "reprice"}, at : Nat,
                 catalog : {sync.catalog}, rows : {sync.rows}, seen : Nat]
    /\ summary \in [changed : {summary.changed}, repriced : Nat,
                    version : {summary.version}, runs : Nat]

\* A row belongs to a good run of its page.
OfGoodRuns ==
    \A m \in stored : m.run \in DOMAIN runs
                     /\ runs[m.run] = [slug |-> m.slug, status |-> "success"]

\* While the pages are read: without a row in force there is the table, before
\* and after, so that a difference means a version to price by.
Reading ==
    /\ sync.pc \in {"fetch", "models"} => sync.at \in DOMAIN Slugs
    /\ sync.pc = "models" =>
        runs # <<>> /\ runs[Len(runs)] = [slug |-> Slugs[sync.at], status |-> "success"]
    /\ (sync.pc \in {"fetch", "diff"} \/ (sync.pc = "models" /\ sync.rows = <<>>)) =>
        (Latest = {} => sync.catalog = CatalogOf({}))

\* The turns before the one it is at are priced.
Repricing ==
    /\ sync.pc = "reprice" =>
        /\ sync.catalog = EffectiveCatalog /\ sync.seen <= Len(turns)
        /\ sync.at \in 1 .. sync.seen + 1 /\ summary.version # {}
        /\ \A i \in 1 .. sync.at - 1 : Repriced(i)
    /\ (sync.pc = "idle" /\ summary.version # {} /\ summary.runs = Len(runs)) =>
        sync.seen <= Len(turns) /\ \A i \in 1 .. sync.seen : Repriced(i)

Inv == Types /\ OfGoodRuns /\ Reading /\ Repricing /\ ScannedRight

=============================================================================
