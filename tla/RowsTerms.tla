------------------------------ MODULE RowsTerms ------------------------------
(* The terms in which RowsProofs speaks of the parts of Rows: orders and lists, *)
(* what a parser has read after some of its lines, a cut of the turns into blocks. *)
(*                                                                            *)
(* The variables, as Rows hands them to the parts:                            *)
(*   L, the reports: v1 turns, v2 cost, v3 sessions, v4 tariff, v5 scan,      *)
(*      v6 batch, v7 pricing, v8 reprice, v9 writes, v10 report, v11 query,   *)
(*      v12 answer, v13 quiet;                                                *)
(*   B, the blocks: v1 now, v2 turns, v3 session, v4 limit;                    *)
(*   P, the prices: v1 overrides, v2 cache, v3 map, v4 runs, v5 stored,       *)
(*      v6 turns, v7 sync, v8 summary;                                        *)
(*   O, the official metadata: v1 runs, v2 stored, v3 sync, v4 summary;       *)
(*   S, the logs of the other providers: v1 kind, v2 log, v3 mtime, v4 clock, *)
(*      v5 rows, v6 marks, v7 sidecar, v8 pc, v9 cur, v10 stamp, v11 got,     *)
(*      v12 excused, v13 hidden;                                              *)
(*   W, the waste report: v1 events, v2 sessions, v3 invoked, v4 observed,    *)
(*      v5 configured, v6 run, v7 report, v8 read.                            *)
EXTENDS Rows, Functions, FiniteSets, Sequences

-----------------------------------------------------------------------------
(* Sums over finite sets *)

Pick(s) == CHOOSE x \in s : TRUE

\* The function by which a sum is computed, for the parts of S.
Summing(g, f, X) ==
    g = [s \in SUBSET X |-> IF s = {} THEN 0 ELSE f[Pick(s)] + g[s \ {Pick(s)}]]

-----------------------------------------------------------------------------
(* The prices *)

Statuses == [slug : P!Range(Slugs), status : {"success", "error"}]

-----------------------------------------------------------------------------
(* The logs of the other providers *)

Ids == Nat \X Int

CodexWhats == {"meta", "context", "started", "count", "call", "end"}

\* The places up to k of the usages that Pi's parser counts.
PiUsed(lines, k) == {i \in 1..k : ~(lines[i].id = S!NoId \/ lines[i].tokens = 0)}

\* Of each response the last usage up to k.
PiRead(lines, k, seen) ==
    /\ DOMAIN seen = {lines[i].id : i \in PiUsed(lines, k)}
    /\ \A d \in DOMAIN seen :
        /\ seen[d].id = d
        /\ \E i \in PiUsed(lines, k) :
            /\ lines[i].id = d /\ lines[i].tokens = seen[d].tokens
            /\ \A j \in PiUsed(lines, k) : lines[j].id = d => j <= i

\* The places up to k of the events that Amp's parser looks at.
AmpEvents(lines, k) == {i \in 1..k : ~(lines[i].what # "event" \/ lines[i].id = S!NoId)}

\* Of each id the first event up to k.
AmpRead(lines, k, seen) ==
    /\ DOMAIN seen = {lines[i].id : i \in AmpEvents(lines, k)}
    /\ \A d \in DOMAIN seen :
        /\ seen[d].id = d
        /\ \E i \in AmpEvents(lines, k) :
            /\ lines[i].id = d /\ lines[i].tokens = seen[d].tokens
            /\ \A j \in AmpEvents(lines, k) : lines[j].id = d => i <= j

\* The turn that is open after k lines.
Opened(lines, k) == {j \in 1..k : S!Opens(lines, j)}

Current(lines, k) ==
    IF Opened(lines, k) = {} THEN S!NoId ELSE lines[S!Max(Opened(lines, k))].id

\* The places up to k of the counts, and what is read when a turn has the last of its
\* counts.
CountsTill(lines, k) == {i \in 1..k : lines[i].what = "count"}

CountsRead(lines, k, turns) ==
    /\ DOMAIN turns = {S!TurnAt(lines, i) : i \in CountsTill(lines, k)}
    /\ \A d \in DOMAIN turns :
        /\ turns[d].id = d
        /\ \E i \in CountsTill(lines, k) :
            /\ S!TurnAt(lines, i) = d /\ lines[i].tokens = turns[d].tokens
            /\ \A j \in CountsTill(lines, k) : S!TurnAt(lines, j) = d => j <= i

Codex(n, session, current, model, contexts, tools, failed, turns) ==
    [n |-> n, session |-> session, current |-> current, model |-> model,
     contexts |-> contexts, tools |-> tools, failed |-> failed, turns |-> turns]

CodexRead(lines, k, s) ==
    /\ \E session, model, contexts, tools, failed, turns :
        s = Codex(k, session, Current(lines, k), model, contexts, tools, failed, turns)
    /\ CountsRead(lines, k, s.turns)

\* What is hidden of a file stays.
SameHidden(f) == \A x : <<f, x>> \in v13' <=> <<f, x>> \in v13

-----------------------------------------------------------------------------
(* Lists in order *)

\* R is a strict order of X in which any two elements compare.
Orders(R, X) ==
    /\ \A x \in X : <<x, x>> \notin R
    /\ \A x, y, z \in X : <<x, y>> \in R /\ <<y, z>> \in R => <<x, z>> \in R
    /\ \A x, y \in X : x # y => <<x, y>> \in R \/ <<y, x>> \in R

\* s lists X in the order R.
Lists(s, X, R) ==
    /\ s \in [1..Cardinality(X) -> X]
    /\ \A x \in X : \E i \in 1..Cardinality(X) : s[i] = x
    /\ \A i, j \in 1..Cardinality(X) : i < j => <<s[i], s[j]>> \in R

-----------------------------------------------------------------------------
(* The blocks *)

\* A finite set of turns.
TurnSet(Y) == IsFiniteSet(Y) /\ \A y \in Y : y.at \in Nat /\ y.size \in Nat

Pieces == [start : Nat, end : Nat, first : Nat, last : Nat, tokens : Nat, entries : Nat,
           gap : {FALSE}]

Within(b, Y) == {y \in Y : B!InBlock(b, y)}

\* b is a block of the turns Y.
BlockOf(b, Y, len) ==
    /\ b.start = B!FloorToHour(b.first) /\ b.end = b.start + len
    /\ b.first <= b.last /\ b.last < b.end
    /\ \E y \in Y : y.at = b.first
    /\ \E y \in Y : y.at = b.last
    /\ b.tokens = B!TokensOf(Within(b, Y)) /\ b.entries = Cardinality(Within(b, Y))

\* bs are the blocks of the turns Y.
CutOf(bs, Y, len) ==
    /\ bs \in Seq(Pieces)
    /\ \A i \in 1..Len(bs) : BlockOf(bs[i], Y, len)
    /\ \A i, j \in 1..Len(bs) : i < j => bs[i].end <= bs[j].first
    /\ \A y \in Y : \E i \in 1..Len(bs) : B!InBlock(bs[i], y)

\* A list of turns, each once, the oldest first.
Dated(s, X) ==
    /\ TurnSet(X) /\ s \in [1..Cardinality(X) -> X]
    /\ \A x \in X : \E i \in 1..Cardinality(X) : s[i] = x
    /\ \A i, j \in 1..Cardinality(X) : i < j => s[i].at <= s[j].at /\ s[i] # s[j]

\* The turns from a moment on, in the order they are read.
Since(from) == {t \in v2 : t.at >= from}

\* No session length is shorter than an hour.  (One that is may end before its
\* first turn: its start is the full hour.)
LongEnough == \A len \in Lengths : HourTicks <= len

\* What a cut says of its blocks, in numbers.
Neat(bs, Y, len) ==
    /\ Len(bs) \in Nat /\ bs \in Seq(Pieces) /\ DOMAIN bs = 1..Len(bs)
    /\ \A i \in 1..Len(bs) :
         /\ bs[i] \in Pieces
         /\ bs[i].first \in Nat /\ bs[i].last \in Nat /\ bs[i].start \in Nat
         /\ bs[i].end \in Nat /\ bs[i].tokens \in Nat /\ bs[i].entries \in Nat
         /\ bs[i].gap = FALSE
         /\ bs[i].first <= bs[i].last /\ bs[i].last < bs[i].end
         /\ bs[i].start <= bs[i].first /\ bs[i].end = bs[i].start + len
         /\ bs[i].start = B!FloorToHour(bs[i].first)
    /\ \A i, j \in 1..Len(bs) : i < j => bs[i].end <= bs[j].first
    /\ \A y \in Y : \A i, j \in 1..Len(bs) :
         B!InBlock(bs[i], y) /\ B!InBlock(bs[j], y) => i = j

\* The turns of the first n blocks.
Covered(bs, Y, n) == {y \in Y : \E i \in 1..n : B!InBlock(bs[i], y)}

\* A time, brought into the last hour.
Lately(t) == IF t < v1 - HourTicks THEN v1 - HourTicks ELSE IF t > v1 THEN v1 ELSE t

\* Up to when a block was used.
UsedTill(b, len) == IF B!IsActive(b, len) THEN v1 ELSE b.last

TableRows == [start : Nat, end : Nat, first : Nat, last : Nat, tokens : Nat, entries : Nat,
              gap : BOOLEAN]

Tiled(rs) ==
    /\ rs \in Seq(TableRows)
    /\ \A i \in 1..Len(rs) : rs[i].start < rs[i].end
    /\ \A i \in 1..(Len(rs) - 1) :
         rs[i + 1].start <= rs[i].end /\ ~(rs[i].gap /\ rs[i + 1].gap)

RowTokens(rs) == SumFunctionOnSet([i \in DOMAIN rs |-> rs[i].tokens], DOMAIN rs)

NoPauses(rs) == {rs[i] : i \in {j \in DOMAIN rs : ~rs[j].gap}}

\* The table of n blocks.
TableOf(rs, bs, Y, n) ==
    /\ Tiled(rs) /\ (Len(rs) = 0 <=> n = 0)
    /\ n # 0 /\ n # Len(bs) => bs[n + 1].start <= rs[Len(rs)].end
    /\ RowTokens(rs) = B!TokensOf(Covered(bs, Y, n))
    /\ NoPauses(rs) = {bs[i] : i \in 1..n}

\* Where the blocks of a cut open.
OpensOf(bs) == {bs[i].first : i \in 1..Len(bs)}

\* The place of a percentile among n.
PlaceOf(n, h) == LET rank == (h * n + 99) \div 100
                 IN IF rank < 1 THEN 1 ELSE IF rank > n THEN n ELSE rank

\* A signal of a forecast.
SignalOK(s) ==
    /\ s.used \in Nat /\ s.resets \in Int /\ s.kind \in Nat
    /\ s.projected = -1 \/ (s.projected \in Nat /\ s.used <= s.projected)

=============================================================================
