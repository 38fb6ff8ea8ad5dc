------------------------------- MODULE Blocks -------------------------------
(* Billing blocks: the turns of the database cut into windows of one session *)
(* length, and what the block table, the billing-blocks endpoint, the live   *)
(* Claude snapshot and the status line derive from them (src/analytics).     *)
(*                                                                           *)
(* Time is counted in ticks, `Hour` of them to an hour; a turn carries one   *)
(* amount that stands for its tokens and for its cost.  Percentages are      *)
(* whole: the limits of an instance divide 100.                              *)
EXTENDS Integers, Sequences, FiniteSets, SequencesExt, FiniteSetsExt

CONSTANTS
    Hour,       \* ticks in an hour
    Window,     \* ticks the status line looks back (24 h)
    Default,    \* the built-in session length (5 h)
    Longest,    \* the longest session length a setting may ask for (168 h)
    Unit,       \* a multiple of every span, so that a share of a span is whole
    Sizes,      \* the amounts a turn may have
    Limits,     \* the token limits a user may have set; 0 stands for none
    Sessions,   \* the session lengths a user may have set
    Used,       \* the percentages a rate window may be at
    MaxTurns, MaxTime

\* What an instance must satisfy.
BlocksAssumption ==
    /\ Hour \in Nat \ {0} /\ Window \in Nat /\ Unit \in Nat \ {0}
    /\ Default \in Nat /\ Longest \in Nat /\ MaxTurns \in Nat /\ MaxTime \in Nat
    /\ Sizes \subseteq Nat /\ Limits \subseteq Nat /\ Used \subseteq Nat
    /\ Sessions \subseteq Nat \ {0}
    /\ \A limit \in Limits \ {0} : 100 % limit = 0

VARIABLES
    now,        \* the clock
    turns,      \* the stored turns
    session,    \* the session length of this run, in ticks
    limit       \* [blocks].token_limit

vars == <<now, turns, session, limit>>

Never == Window + MaxTime + Longest     \* later than any time (i64::MAX)

---------------------------------------------------------------------------
(* Settings *)

Valid(h) == h > 0 /\ h <= Longest

\* A flag beats the provider's setting, which beats the general one.  `0`
\* stands for a setting that is absent, `-1` for one that is not a length.
ResolvedSession(cli, named, flat) ==
    CASE cli # 0 -> cli
      [] cli = 0 /\ named # 0 -> IF Valid(named) THEN named ELSE Default
      [] cli = 0 /\ named = 0 /\ flat # 0 -> IF Valid(flat) THEN flat ELSE Default
      [] OTHER -> Default

\* The block command holds a copy of the rule, over what the settings resolved
\* to without a flag and without a provider.
CommandSession(cli, named, flat) ==
    IF cli # 0 THEN cli
    ELSE IF named # 0 THEN IF Valid(named) THEN named ELSE Default
    ELSE ResolvedSession(0, 0, flat)

---------------------------------------------------------------------------
(* Blocks *)

FloorToHour(t) == t - (t % Hour)

\* The elements of a finite set in a strict order, a set of pairs.
InOrder(S, before) ==
    LET place(x) == Cardinality({y \in S : <<y, x>> \in before})
    IN [i \in 1 .. Cardinality(S) |-> CHOOSE x \in S : place(x) = i - 1]

\* Those of one moment come in some order.
Earlier(a, b) ==
    \/ a.at < b.at
    \/ a.at = b.at /\ a.size < b.size
    \/ a.at = b.at /\ a.size = b.size /\ a.id < b.id

\* The turns as the database hands them out, oldest first.
LoadTurns(from) ==
    LET read == {t \in turns : t.at >= from}
    IN InOrder(read, {p \in read \X read : Earlier(p[1], p[2])})

Block(start, end, first, last, tokens, entries, gap) ==
    [start |-> start, end |-> end, first |-> first, last |-> last,
     tokens |-> tokens, entries |-> entries, gap |-> gap]

Opened(t, len) == Block(FloorToHour(t.at), FloorToHour(t.at) + len, t.at, t.at,
                        t.size, 1, FALSE)

\* Mutated form: a turn at the very end still belongs to the block.
DueAfterEnd(b, t, len) == t.at > b.end \/ t.at - b.last > len

NewBlockDue(b, t, len) == t.at >= b.end \/ t.at - b.last > len

Grown(b, t) == [b EXCEPT !.tokens = @ + t.size, !.entries = @ + 1, !.last = t.at]

WithTurn(blocks, t, len) ==
    IF blocks = <<>> \/ NewBlockDue(Last(blocks), t, len)
    THEN Append(blocks, Opened(t, len))
    ELSE [blocks EXCEPT ![Len(blocks)] = Grown(@, t)]

IdentifyBlocks(sorted, len) ==
    LET cut[n \in 0 .. Len(sorted)] ==
            IF n = 0 THEN <<>> ELSE WithTurn(cut[n - 1], sorted[n], len)
    IN cut[Len(sorted)]

IsActive(b, len) == ~b.gap /\ b.end > now /\ now - b.last < len

Gap(b, next) == Block(b.end, next.start, b.end, next.start, 0, 0, TRUE)

\* A block and the pause that follows it.
WithGap(blocks, i) ==
    IF i = Len(blocks) \/ blocks[i + 1].start <= blocks[i].end
    THEN <<blocks[i]>>
    ELSE <<blocks[i], Gap(blocks[i], blocks[i + 1])>>

BlocksWithGaps(sorted, len) ==
    LET blocks == IdentifyBlocks(sorted, len)
        rows[n \in 0 .. Len(blocks)] ==
            IF n = 0 THEN <<>> ELSE rows[n - 1] \o WithGap(blocks, n)
    IN rows[Len(blocks)]

ActiveOf(blocks, len) == {b \in Range(blocks) : IsActive(b, len)}
\* Where the completed ones are.
Completed(blocks, len) == {i \in DOMAIN blocks : ~blocks[i].gap /\ ~IsActive(blocks[i], len)}

Total(f) == SumFunctionOnSet(f, DOMAIN f)

---------------------------------------------------------------------------
(* Burn rate and projection *)

HasRate(b) == b.entries >= 2 /\ b.last > b.first

CostPerHour(b) == (b.tokens * Hour) \div (b.last - b.first)

\* Tokens at the end of the block at the present rate, rounded to the nearest.
ProjectedTokens(b, len) ==
    IF ~HasRate(b) \/ ~IsActive(b, len) THEN b.tokens
    ELSE LET span == b.last - b.first
             left == IF b.end > now THEN b.end - now ELSE 0
         IN b.tokens + (2 * b.tokens * left + span) \div (2 * span)

\* The cost rounds twice, down each time.
ProjectedCost(b, len) ==
    IF ~HasRate(b) \/ ~IsActive(b, len) THEN b.tokens
    ELSE b.tokens + (CostPerHour(b) * (IF b.end > now THEN b.end - now ELSE 0)) \div Hour

\* Tokens of the last hour: of each block the share of its span that lies in it.
Overlap(b, len) ==
    LET end == IF IsActive(b, len) THEN now ELSE b.last
        from == IF b.first > now - Hour THEN b.first ELSE now - Hour
        to == IF end < now THEN end ELSE now
    IN [span |-> end - b.first,
        ticks |-> IF ~b.gap /\ end > now - Hour /\ end > b.first /\ to > from
                  THEN to - from ELSE 0]

RollingHour(blocks, len) ==
    LET tokens(b) == LET o == Overlap(b, len) IN
            IF o.ticks = 0 THEN 0 ELSE (b.tokens * o.ticks * Unit) \div o.span
    IN [tokens |-> Total([i \in DOMAIN blocks |-> tokens(blocks[i])]),
        coverage |-> Total([i \in DOMAIN blocks |-> Overlap(blocks[i], len).ticks])]

---------------------------------------------------------------------------
(* Quota *)

Percent(tokens, lim) == (100 * tokens) \div lim

Severity(pct) == IF pct < 50 THEN "ok" ELSE IF pct < 80 THEN "warn" ELSE "danger"

Quota(b, len, lim) ==
    [used |-> b.tokens, projected |-> ProjectedTokens(b, len),
     currentPct |-> Percent(b.tokens, lim),
     projectedPct |-> Percent(ProjectedTokens(b, len), lim),
     remaining |-> lim - b.tokens]

\* Nine tenths of the limit, rounded.
Threshold(lim) == (9 * lim + 5) \div 10

\* The tokens of the blocks at some places, the least first.
Totals(blocks, places) ==
    LET less(i, j) == \/ blocks[i].tokens < blocks[j].tokens
                      \/ blocks[i].tokens = blocks[j].tokens /\ i < j
        ranked == InOrder(places, {p \in places \X places : less(p[1], p[2])})
    IN [i \in 1 .. Len(ranked) |-> blocks[ranked[i]].tokens]

NearestRank(sorted, hundredths) ==
    LET rank == (hundredths * Len(sorted) + 99) \div 100
    IN sorted[IF rank < 1 THEN 1 ELSE IF rank > Len(sorted) THEN Len(sorted) ELSE rank]

\* The blocks near the limit if there are any, else every completed one.
Sample(blocks, len, lim) ==
    LET done == Completed(blocks, len)
        hits == {i \in done : blocks[i].tokens >= Threshold(lim)}
    IN IF lim > 0 /\ hits # {} THEN hits ELSE done

Suggestions(blocks, len, lim) ==
    LET totals == Totals(blocks, Sample(blocks, len, lim))
    IN [p90 |-> NearestRank(totals, 90), p95 |-> NearestRank(totals, 95),
        max |-> Last(totals)]

Envelope(blocks, len) ==
    LET totals == Totals(blocks, Completed(blocks, len))
    IN [average |-> (2 * Total(totals) + Len(totals)) \div (2 * Len(totals)),
        p50 |-> NearestRank(totals, 50), p75 |-> NearestRank(totals, 75),
        p90 |-> NearestRank(totals, 90), p95 |-> NearestRank(totals, 95)]

HistoricalMax(blocks) ==
    Max({b.tokens : b \in {c \in Range(blocks) : ~c.gap}} \cup {0})

---------------------------------------------------------------------------
(* Depletion forecast *)

\* `projected` is -1 where a signal has none.
BlockSignal(b, len, lim) ==
    LET q == Quota(b, len, lim)
    IN [kind |-> 0, used |-> q.currentPct, projected |-> q.projectedPct,
        resets |-> IF b.end > now THEN b.end - now ELSE 0]
WindowSignal(kind, used, resets) ==
    [kind |-> kind, used |-> used, projected |-> -1, resets |-> resets]

Pressure(s) == IF s.projected >= 0 THEN s.projected ELSE s.used

\* Mutated form: the nearest reset comes first, whatever the pressure.
NearestFirst(a, b) ==
    \/ a.resets < b.resets
    \/ a.resets = b.resets /\ Pressure(a) > Pressure(b)
    \/ a.resets = b.resets /\ Pressure(a) = Pressure(b) /\ a.kind < b.kind

\* Most pressure first, then the nearest reset, then blocks before windows.
RanksBefore(a, b) ==
    \/ Pressure(a) > Pressure(b)
    \/ Pressure(a) = Pressure(b) /\ a.resets < b.resets
    \/ Pressure(a) = Pressure(b) /\ a.resets = b.resets /\ a.kind < b.kind

Forecast(signals) ==
    LET ranked == InOrder(signals, {p \in signals \X signals : RanksBefore(p[1], p[2])})
    IN [primary |-> Head(ranked), secondary |-> Tail(ranked),
        severity |-> Severity(Pressure(Head(ranked)))]

\* What the live Claude snapshot forecasts from: the active block, if there is
\* a limit, and the two rate windows.
Signals(blocks, len, lim, primary, secondary) ==
    (IF lim > 0 THEN {BlockSignal(b, len, lim) : b \in ActiveOf(blocks, len)} ELSE {})
    \cup (IF primary >= 0 THEN {WindowSignal(1, primary, 1)} ELSE {})
    \cup (IF secondary >= 0 THEN {WindowSignal(2, secondary, Never)} ELSE {})

---------------------------------------------------------------------------
(* The views *)

\* A row of the billing-blocks endpoint: only the active one is projected and
\* measured against the limit.
ApiRow(b, len, lim) ==
    [block |-> b, active |-> IsActive(b, len),
     projection |-> IF IsActive(b, len)
                    THEN <<ProjectedTokens(b, len), ProjectedCost(b, len)>> ELSE <<>>,
     quota |-> IF IsActive(b, len) /\ lim > 0 THEN <<Quota(b, len, lim)>> ELSE <<>>]

ApiBlocks(len, lim) ==
    LET blocks == BlocksWithGaps(LoadTurns(0), len)
    IN [rows |-> [i \in 1 .. Len(blocks) |-> ApiRow(blocks[i], len, lim)],
        historicalMax |-> HistoricalMax(blocks)]

\* A row of `heimdall blocks`: the limit, also "max", measures every row.
CommandRow(b, len, lim) ==
    [block |-> b, active |-> IsActive(b, len),
     projection |-> IF IsActive(b, len)
                    THEN <<ProjectedTokens(b, len), ProjectedCost(b, len)>> ELSE <<>>,
     quota |-> IF lim > 0 THEN <<Quota(b, len, lim)>> ELSE <<>>]

CommandBlocks(len, lim, gaps, activeOnly) ==
    LET all == IF gaps THEN BlocksWithGaps(LoadTurns(0), len)
               ELSE IdentifyBlocks(LoadTurns(0), len)
        kept == {i \in DOMAIN all : activeOnly => IsActive(all[i], len)}
        resolved == IF lim = "max" THEN HistoricalMax(all) ELSE limit
    IN [i \in kept |-> CommandRow(all[i], len, resolved)]

\* The status line reads the turns of its window only.
StatuslineBlock(len) ==
    ActiveOf(IdentifyBlocks(LoadTurns(IF now > Window THEN now - Window ELSE 0), len), len)

---------------------------------------------------------------------------
(* The turns come in, some of them late: a log is read after the fact. *)

Init ==
    /\ now = 0
    /\ turns = {}
    /\ session \in Sessions
    /\ limit \in Limits

Tick == now < MaxTime /\ now' = now + 1 /\ UNCHANGED <<turns, session, limit>>

Store(at, size) ==
    /\ Cardinality(turns) < MaxTurns
    /\ LET same == {t \in turns : t.at = at /\ t.size = size}
       IN turns' = turns \cup {[at |-> at, size |-> size, id |-> 1 + Cardinality(same)]}
    /\ UNCHANGED <<now, session, limit>>

StoreNow == \E size \in Sizes : Store(now, size)
StoreLate == \E size \in Sizes, late \in {Hour} : now >= late /\ Store(now - late, size)

Next == Tick \/ StoreNow \/ StoreLate

Spec == Init /\ [][Next]_vars

---------------------------------------------------------------------------
(* Properties *)

TypeOK ==
    /\ now \in 0 .. MaxTime /\ session \in Sessions /\ limit \in Limits
    /\ turns \subseteq [at : 0 .. MaxTime, size : Sizes, id : 1 .. MaxTurns]

TokensOf(some) == SumFunctionOnSet([t \in some |-> t.size], some)
InBlock(b, t) == b.first <= t.at /\ t.at <= b.last

\* A turn opens a block if no opener lies close enough before it: the openers
\* are the one set of times that says so of itself.
IsOpeners(opens, times) ==
    \A t \in times :
        t \in opens <=> \A o \in opens : o >= t \/ t >= FloorToHour(o) + session

\* The blocks are the turns, cut at the right places: each turn counts in one
\* block that covers it, nothing is counted twice or dropped, a block starts
\* at its opener's hour and blocks of whole hours do not overlap.
BlocksPartition ==
    LET blocks == IdentifyBlocks(LoadTurns(0), session)
        opens == {b.first : b \in Range(blocks)}
    IN /\ IsOpeners(opens, {t.at : t \in turns})
       /\ \A t \in turns : Cardinality({i \in DOMAIN blocks : InBlock(blocks[i], t)}) = 1
       /\ \A b \in Range(blocks) :
            LET mine == {t \in turns : InBlock(b, t)}
            IN /\ b.tokens = TokensOf(mine)
               /\ b.entries = Cardinality(mine)
               /\ b.start <= b.first /\ b.last < b.end
       /\ session % Hour = 0 =>
            \A i \in 1 .. Len(blocks) - 1 : blocks[i].end <= blocks[i + 1].start

\* With the pauses the table has no hole: row after row, each starts where the
\* last one ended (or earlier, for a session of broken hours), and the pauses
\* add nothing to the totals.
RowsTile ==
    LET rows == BlocksWithGaps(LoadTurns(0), session)
    IN /\ \A i \in 1 .. Len(rows) - 1 :
            /\ rows[i + 1].start <= rows[i].end
            /\ rows[i].start < rows[i].end
            /\ ~(rows[i].gap /\ rows[i + 1].gap)
       /\ Total([i \in DOMAIN rows |-> rows[i].tokens]) = TokensOf(turns)

\* At most one block is under way and it is the last; the last hour is never
\* covered for more than an hour nor credited with more than was used; and the
\* end of the block is projected at no less than what is used already.
OneActive ==
    LET blocks == IdentifyBlocks(LoadTurns(0), session)
        rolling == RollingHour(blocks, session)
    IN /\ \A b \in ActiveOf(blocks, session) : b = Last(blocks)
       /\ rolling.coverage <= Hour
       /\ rolling.tokens <= Unit * TokensOf(turns)
       /\ \A b \in Range(blocks) :
            /\ ProjectedTokens(b, session) >= b.tokens
            /\ ProjectedCost(b, session) <= ProjectedTokens(b, session)
            /\ ~IsActive(b, session) => ProjectedTokens(b, session) = b.tokens

\* The status line reads one day of turns.  If the user paused for a session
\* length within it, the block it shows is the one every other view shows.
PausedAgrees ==
    LET from == IF now > Window THEN now - Window ELSE 0
        seen == {t \in turns : t.at >= from}
        paused == \E t \in seen : \A u \in turns : u.at >= t.at \/ t.at - u.at >= session
    IN paused => StatuslineBlock(session)
                   = ActiveOf(IdentifyBlocks(LoadTurns(0), session), session)

\* The limits a user is offered are amounts that were used, in order, and no
\* more than one in ten (in twenty) of the blocks sampled is above them.
SuggestionsRank ==
    LET blocks == IdentifyBlocks(LoadTurns(0), session)
        sample == Sample(blocks, session, limit)
        s == Suggestions(blocks, session, limit)
        above(x) == Cardinality({i \in sample : blocks[i].tokens > x})
    IN sample # {} =>
        /\ {s.p90, s.p95, s.max} \subseteq {blocks[i].tokens : i \in sample}
        /\ s.p90 <= s.p95 /\ s.p95 <= s.max
        /\ 10 * above(s.p90) <= Cardinality(sample)
        /\ 20 * above(s.p95) <= Cardinality(sample)
        /\ above(s.max) = 0
        /\ Envelope(blocks, session).p50 <= Envelope(blocks, session).p95

\* No signal of a forecast is worse than the one it is headed by: neither is
\* its own severity, whatever the two windows are at.
ForecastIsWorst ==
    LET blocks == IdentifyBlocks(LoadTurns(0), session)
    IN \A primary, secondary \in Used \cup {-1} :
        LET signals == Signals(blocks, session, limit, primary, secondary)
            f == Forecast(signals)
        IN signals # {} =>
            /\ Cardinality(signals) = 1 + Len(f.secondary)
            /\ \A s \in signals : Pressure(s) <= Pressure(f.primary)
            /\ \A s \in signals :
                Severity(Pressure(s)) = "danger" => f.severity = "danger"
            /\ \A s \in signals : s.used >= 80 => f.severity = "danger"

\* The endpoint, the command and the live snapshot measure the same block by
\* the same numbers, and no row is above the highest there ever was.
ViewsAgree ==
    LET api == ApiBlocks(session, limit)
        table == CommandBlocks(session, "set", TRUE, FALSE)
        only == CommandBlocks(session, "max", FALSE, TRUE)
    IN /\ [i \in DOMAIN api.rows |-> api.rows[i].block]
            = [i \in DOMAIN table |-> table[i].block]
       /\ \A i \in DOMAIN api.rows :
            api.rows[i].active => api.rows[i].quota = table[i].quota
       /\ {row.block : row \in Range(only)}
            = {row.block : row \in {r \in Range(api.rows) : r.active}}
       /\ \A row \in Range(only) : \A q \in Range(row.quota) : q.currentPct <= 100

\* The copy of the session rule in the command gives what the rule gives.
SessionsAgree ==
    \A cli \in {0} \cup Sessions, named, flat \in {-1, 0, Longest + 1} \cup Sessions :
        CommandSession(cli, named, flat) = ResolvedSession(cli, named, flat)

\* The blocks are the turns (see the three parts).
BlocksExact == BlocksPartition /\ RowsTile /\ OneActive

\* What the views make of the blocks is sound (see the four parts).
AdviceSound == SuggestionsRank /\ ForecastIsWorst /\ ViewsAgree /\ SessionsAgree

\* What the steps keep: what was stored is past.
Inv ==
    /\ TypeOK /\ IsFiniteSet(turns)
    /\ \A t \in turns : t.at <= now

=============================================================================
