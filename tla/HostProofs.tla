------------------------------ MODULE HostProofs ------------------------------
(* Proofs about Host, for any conversations, writers, cache files and exports.  *)
(* In the capture store v1 is taken, v2 current, v3 history, v4 tmp, v5 dumped,   *)
(* v6 work, v7 report and v8 saved.                                             *)
EXTENDS Host, FiniteSetsExt, SequenceTheorems, WellFoundedInduction, TLAPS

-----------------------------------------------------------------------------
(* Numbers and sequences *)

\* Every set of numbers has a least one: what an induction rests on.
LEMMA LeastNumber ==
    ASSUME NEW S, S \subseteq Nat, S # {}
    PROVE  \E m \in S : \A n \in S : m <= n
<1> DEFINE R == OpToRel(<, Nat)
<1>1. IsWellFoundedOn(R, Nat)
  BY NatLessThanWellFounded
<1>2. PICK m \in S : \A n \in S : <<n, m>> \notin R
  BY <1>1, WFMin
<1>3. \A n \in S : ~(n < m)
  BY <1>2 DEF OpToRel
<1> QED  BY <1>3

LEMMA BoundedMax ==
    ASSUME NEW n \in Nat, NEW S, S \subseteq 1..n, S # {}
    PROVE  Max(S) \in S
<1> DEFINE Gaps == {n - m : m \in S}
<1>1. Gaps \subseteq Nat /\ Gaps # {}
  <2>1. \A m \in S : n - m \in Nat
    OBVIOUS
  <2> QED  BY <2>1
<1> HIDE DEF Gaps
<1>2. PICK g \in Gaps : \A h \in Gaps : g <= h
  BY <1>1, LeastNumber
<1>3. PICK m \in S : g = n - m
  BY <1>2 DEF Gaps
<1>4. \A k \in S : m >= k
  <2>1. \A k \in S : n - k \in Gaps
    BY DEF Gaps
  <2>2. \A k \in S : n - m <= n - k
    BY <1>2, <1>3, <2>1
  <2> QED  BY <2>2
<1> QED  BY <1>4 DEF Max

LEMMA ConcatIsLonger ==
    ASSUME NEW S, NEW s \in Seq(S), NEW t \in Seq(S)
    PROVE  Len(s) <= Len(s \o t) /\ SubSeq(s, 1, Len(s)) = SubSeq(s \o t, 1, Len(s))
<1>1. Len(s) \in Nat /\ Len(t) \in Nat /\ Len(s \o t) = Len(s) + Len(t)
      /\ s \o t \in Seq(S)
  BY LenProperties, ConcatProperties
<1>2. CASE s = <<>>
  <2>1. Len(s) = 0
    BY <1>2, EmptySeq
  <2>2. SubSeq(s, 1, 0) = <<>> /\ SubSeq(s \o t, 1, 0) = <<>>
    BY SubSeqEmpty
  <2> QED  BY <1>1, <2>1, <2>2
<1>3. CASE s # <<>>
  <2>1. 1 \in 1..Len(s) /\ Len(s) \in 1..Len(s)
    BY <1>1, <1>3, EmptySeq
  <2> QED  BY <1>1, <2>1, SubSeqOfConcat1, SubSeqFull
<1> QED  BY <1>2, <1>3

LEMMA AppendTwo ==
    ASSUME NEW S, NEW s \in Seq(S), NEW a \in S, NEW b \in S
    PROVE  s \o <<a, b>> = Append(Append(s, a), b)
<1>1. /\ Append(s, a) \in Seq(S) /\ Append(s, a) = s \o <<a>>
      /\ Append(Append(s, a), b) = Append(s, a) \o <<b>>
  BY AppendIsConcat, AppendProperties
<1>2. (s \o <<a>>) \o <<b>> = s \o (<<a>> \o <<b>>)
  <2>1. <<a>> \in Seq(S) /\ <<b>> \in Seq(S)
    OBVIOUS
  <2> QED  BY <2>1, ConcatAssociative
<1>3. <<a>> \o <<b>> = <<a, b>>
  <2>1. <<a>> \in Seq(S) /\ <<b>> \in Seq(S) /\ Len(<<a>>) = 1 /\ Len(<<b>>) = 1
    OBVIOUS
  <2>2. /\ <<a>> \o <<b>> \in Seq(S) /\ Len(<<a>> \o <<b>>) = 2
        /\ (<<a>> \o <<b>>)[1] = a /\ (<<a>> \o <<b>>)[2] = b
    BY <2>1, ConcatProperties
  <2>3. <<a, b>> \in Seq(S) /\ Len(<<a, b>>) = 2 /\ <<a, b>>[1] = a /\ <<a, b>>[2] = b
    OBVIOUS
  <2>4. \A i \in 1..2 : (<<a>> \o <<b>>)[i] = <<a, b>>[i]
    BY <2>2, <2>3
  <2> QED  BY <2>2, <2>3, <2>4, SeqEqual
<1> QED  BY <1>1, <1>2, <1>3

\* A function on 0..n whose values are computed each from the one before: there is
\* one, and by LeastNumber it has whatever its first value and each step keep.
Iterates(g, n, S, base, step) ==
    /\ g \in [0..n -> S] /\ g[0] = base
    /\ \A k \in 1..n : g[k] = step[<<g[k - 1], k>>]

LEMMA Iteration ==
    ASSUME NEW n \in Nat, NEW S, NEW base \in S, NEW step,
           \A p \in S : \A k \in 1..n : step[<<p, k>>] \in S
    PROVE  \E g : Iterates(g, n, S, base, step)
<1> DEFINE Made(k) == \E g : Iterates(g, k, S, base, step)
           Missed == {k \in 0..n : ~Made(k)}
<1> SUFFICES Missed = {}
  OBVIOUS
<1> SUFFICES ASSUME Missed # {} PROVE FALSE
  OBVIOUS
<1>1. PICK m \in Missed : \A k \in Missed : m <= k
  <2>1. Missed \subseteq Nat
    OBVIOUS
  <2> HIDE DEF Missed
  <2> QED  BY <2>1, LeastNumber
<1>2. CASE m = 0
  <2> DEFINE h == [i \in 0..0 |-> base]
  <2>1. h \in [0..0 -> S] /\ h[0] = base
    OBVIOUS
  <2>2. \A i \in 1..0 : h[i] = step[<<h[i - 1], i>>]
    OBVIOUS
  <2> HIDE DEF h
  <2>3. Made(0)
    BY <2>1, <2>2 DEF Iterates
  <2> QED  BY <1>1, <1>2, <2>3
<1>3. CASE m # 0
  <2>1. m \in 1..n /\ m - 1 \in 0..n /\ Made(m - 1)
    <3>1. m \in 1..n /\ m - 1 \in 0..n /\ ~(m <= m - 1)
      BY <1>1, <1>3
    <3> HIDE DEF Made
    <3> QED  BY <1>1, <3>1
  <2>a. PICK g : Iterates(g, m - 1, S, base, step)
    BY <2>1
  <2>2. /\ g \in [0..(m - 1) -> S] /\ g[0] = base
        /\ \A i \in 1..(m - 1) : g[i] = step[<<g[i - 1], i>>]
    BY <2>a DEF Iterates
  <2> DEFINE h == [i \in 0..m |-> IF i = m THEN step[<<g[m - 1], m>>] ELSE g[i]]
  <2>3. g[m - 1] \in S /\ step[<<g[m - 1], m>>] \in S
    BY <2>1, <2>2
  <2>4. h \in [0..m -> S] /\ h[0] = base
    BY <2>1, <2>2, <2>3
  <2>5. ASSUME NEW i \in 1..m PROVE h[i] = step[<<h[i - 1], i>>]
    <3>1. i \in 0..m /\ i - 1 \in 0..m /\ i - 1 # m /\ h[i - 1] = g[i - 1]
      BY <2>1
    <3>2. CASE i = m
      BY <3>1, <3>2
    <3>3. CASE i # m
      <4>1. i \in 1..(m - 1)
        BY <2>1, <3>3
      <4> QED  BY <2>2, <3>1, <3>3, <4>1
    <3> QED  BY <3>2, <3>3
  <2> HIDE DEF h
  <2>6. Made(m)
    BY <2>4, <2>5 DEF Iterates
  <2> QED  BY <1>1, <2>6
<1> QED  BY <1>2, <1>3

\* What the first value has, and the k-th if the one before it has, the last has:
\* S[k] is what is known of the k-th.
LEMMA KeptAlong ==
    ASSUME NEW n \in Nat, NEW S, NEW f, f[0] \in S[0],
           \A k \in 1..n : f[k - 1] \in S[k - 1] => f[k] \in S[k]
    PROVE  f[n] \in S[n]
<1> DEFINE Bad == {k \in 0..n : f[k] \notin S[k]}
<1> SUFFICES ASSUME Bad # {} PROVE FALSE
  OBVIOUS
<1>1. PICK m \in Bad : \A k \in Bad : m <= k
  <2>1. Bad \subseteq Nat
    OBVIOUS
  <2> HIDE DEF Bad
  <2> QED  BY <2>1, LeastNumber
<1>2. m # 0
  BY <1>1
<1>3. m \in 1..n /\ m - 1 \in 0..n /\ f[m - 1] \in S[m - 1]
  BY <1>1, <1>2
<1> QED  BY <1>1, <1>3

LEMMA KeptByIteration ==
    ASSUME NEW n \in Nat, NEW S, NEW f, f[0] \in S,
           \A k \in 1..n : f[k - 1] \in S => f[k] \in S
    PROVE  f[n] \in S
<1> DEFINE T == [k \in 0..n |-> S]
<1>1. \A k \in 0..n : T[k] = S
  OBVIOUS
<1>2. \A k \in 1..n : k \in 0..n /\ k - 1 \in 0..n
  OBVIOUS
<1> HIDE DEF T
<1>3. f[0] \in T[0] /\ \A k \in 1..n : f[k - 1] \in T[k - 1] => f[k] \in T[k]
  BY <1>1, <1>2
<1> QED  BY <1>1, <1>3, KeptAlong

-----------------------------------------------------------------------------
(* Imports *)

LEMMA ImportsInit == I!Init => I!Inv
<1> SUFFICES ASSUME I!Init PROVE I!Inv
  OBVIOUS
<1>1. /\ folder = [z \in Zips |-> "absent"] /\ sent = 0 /\ channel = <<>> /\ exports = <<>>
      /\ watcher = I!Receiving /\ broken = {} /\ MaxEvents \in Nat
  BY Instances DEF I!ImportsAssumption, I!Init
<1>2. I!TypeOK
  <2>1. folder \in [Zips -> {"absent", "partial", "whole"}] /\ broken \in SUBSET Zips
    BY <1>1
  <2>2. sent \in 0..MaxEvents /\ channel \in Seq(Zips) /\ exports \in Seq(I!Import)
    BY <1>1, EmptySeq
  <2>3. watcher \in [pc : I!Steps, zip : Zips \cup {None}, todo : SUBSET I!AllConvs]
    BY <1>1 DEF I!Receiving, I!Steps
  <2> QED  BY <2>1, <2>2, <2>3 DEF I!TypeOK
<1>3. I!UnderWay /\ I!ListedWhole
  BY <1>1, EmptySeq DEF I!UnderWay, I!ListedWhole, I!Receiving, I!Steps
<1> QED  BY <1>2, <1>3 DEF I!Inv

\* What the ZIP of an import that has copied it is.
Stored(e) == e.original = "whole" \/ (e.original = "partial" /\ e.away)

\* A step that changes the directory of the import under way keeps the types and
\* what is known of the others.
LEMMA LastChanges ==
    ASSUME I!TypeOK, I!ListedWhole, exports # <<>>, NEW e \in I!Import,
           exports' = [exports EXCEPT ![Len(exports)] = e],
           e.meta = "whole" => Stored(e) /\ e.convs \cup e.warned = Holds[e.zip]
    PROVE  /\ exports' \in Seq(I!Import) /\ I!ListedWhole'
           /\ exports' # <<>> /\ exports'[Len(exports')] = e
<1>1. exports \in Seq(I!Import) /\ Len(exports) \in 1..Len(exports)
  BY DEF I!TypeOK
<1>2. /\ exports' \in Seq(I!Import) /\ Len(exports') = Len(exports)
      /\ \A j \in 1..Len(exports) :
           exports'[j] = IF j = Len(exports) THEN e ELSE exports[j]
  BY <1>1, ExceptSeq
<1>3. DOMAIN exports = 1..Len(exports) /\ DOMAIN exports' = 1..Len(exports)
  BY <1>1, <1>2
<1>4. I!ListedWhole'
  BY <1>2, <1>3 DEF I!ListedWhole, Stored
<1> QED  BY <1>1, <1>2, <1>4

\* The import under way, its directory included.
LEMMA ImportUnderWay ==
    ASSUME I!TypeOK, I!UnderWay, watcher.pc \in {"copy", "parse", "write", "meta"}
    PROVE  \E d \in I!Import :
             /\ exports # <<>> /\ d = exports[Len(exports)]
             /\ watcher.zip \in Zips /\ d.zip = watcher.zip /\ d.meta # "whole"
             /\ d.convs \cup d.warned \cup watcher.todo = Holds[watcher.zip]
             /\ watcher.pc = "copy" => folder[watcher.zip] = "whole" \/ d.away
             /\ watcher.pc # "copy" => Stored(d)
             /\ watcher.pc = "meta" => watcher.todo = {}
<1>1. exports \in Seq(I!Import) /\ exports # <<>> /\ watcher.zip \in Zips
  BY DEF I!TypeOK, I!UnderWay, I!Steps
<1>2. PICK d \in I!Import : d = exports[Len(exports)]
  BY <1>1, ElementOfSeq
<1> QED  BY <1>1, <1>2 DEF I!UnderWay, I!Last, Stored

\* A step of the import under way: its directory changes to e, and it goes on at pc or
\* is over.
LEMMA ImportGoesOn ==
    ASSUME I!TypeOK, I!UnderWay, I!ListedWhole,
           watcher.pc \in {"copy", "parse", "write", "meta"},
           NEW e \in I!Import, NEW todo \in SUBSET watcher.todo,
           NEW pc \in {"copy", "parse", "write", "meta"},
           exports' = [exports EXCEPT ![Len(exports)] = e], e.zip = watcher.zip,
           e.convs \cup e.warned \cup todo = Holds[watcher.zip],
           pc = "copy" => folder'[watcher.zip] = "whole" \/ e.away,
           pc # "copy" => Stored(e), pc = "meta" => todo = {},
           \/ watcher' = [watcher EXCEPT !.pc = pc, !.todo = todo] /\ e.meta # "whole"
           \/ watcher' = I!Receiving /\ todo = {} /\ Stored(e),
           folder' \in [Zips -> {"absent", "partial", "whole"}],
           UNCHANGED <<sent, channel, broken>>
    PROVE  (I!TypeOK /\ I!UnderWay /\ I!ListedWhole)'
<1>1. /\ exports # <<>> /\ watcher.zip \in Zips /\ watcher.todo \in SUBSET I!AllConvs
      /\ watcher \in [pc : I!Steps, zip : Zips \cup {None}, todo : SUBSET I!AllConvs]
  BY ImportUnderWay DEF I!TypeOK
<1>2. e.meta = "whole" => Stored(e) /\ e.convs \cup e.warned = Holds[e.zip]
  <2>1. e.meta = "whole" => Stored(e) /\ todo = {}
    OBVIOUS
  <2> QED  BY <2>1
<1>3. /\ exports' \in Seq(I!Import) /\ I!ListedWhole'
      /\ exports' # <<>> /\ exports'[Len(exports')] = e
  BY <1>1, <1>2, LastChanges
<1>4. CASE watcher' = I!Receiving
  <2>1. I!TypeOK'
    BY <1>1, <1>3, <1>4 DEF I!TypeOK, I!Receiving, I!Steps
  <2>2. I!UnderWay'
    BY <1>4 DEF I!UnderWay, I!Receiving, I!Steps
  <2> QED  BY <1>3, <2>1, <2>2
<1>5. CASE watcher' = [watcher EXCEPT !.pc = pc, !.todo = todo] /\ e.meta # "whole"
  <2>1. /\ watcher' \in [pc : I!Steps, zip : Zips \cup {None}, todo : SUBSET I!AllConvs]
        /\ watcher'.pc = pc /\ watcher'.zip = watcher.zip /\ watcher'.todo = todo
    BY <1>1, <1>5 DEF I!Steps
  <2>2. I!TypeOK'
    BY <1>3, <2>1 DEF I!TypeOK
  <2>3. I!UnderWay'
    BY <1>1, <1>3, <1>5, <2>1 DEF I!UnderWay, I!Last, Stored
  <2> QED  BY <1>3, <2>2, <2>3
<1> QED  BY <1>4, <1>5

\* The last steps of an import.
LEMMA ImportWrites ==
    ASSUME I!TypeOK, I!UnderWay, I!ListedWhole,
           \/ I!CopyOriginal \/ I!CreateMetadata \/ I!WriteMetadata
           \/ \E c \in I!AllConvs : I!WriteConv(c)
    PROVE  (I!TypeOK /\ I!UnderWay /\ I!ListedWhole)'
<1> USE DEF I!At, I!Last
<1>1. watcher.pc \in {"copy", "write", "meta"} /\ UNCHANGED <<folder, sent, channel, broken>>
  BY DEF I!CopyOriginal, I!CreateMetadata, I!WriteMetadata, I!WriteConv
<1>2. PICK d \in I!Import :
        /\ exports # <<>> /\ d = exports[Len(exports)]
        /\ watcher.zip \in Zips /\ d.zip = watcher.zip /\ d.meta # "whole"
        /\ d.convs \cup d.warned \cup watcher.todo = Holds[watcher.zip]
        /\ watcher.pc = "copy" => folder[watcher.zip] = "whole" \/ d.away
        /\ watcher.pc # "copy" => Stored(d)
        /\ watcher.pc = "meta" => watcher.todo = {}
  BY <1>1, ImportUnderWay
<1>3. /\ folder' \in [Zips -> {"absent", "partial", "whole"}] /\ folder' = folder
      /\ watcher.todo \in SUBSET watcher.todo
      /\ \A p \in {"parse", "meta"} :
           [watcher EXCEPT !.pc = p] = [watcher EXCEPT !.pc = p, !.todo = watcher.todo]
  BY <1>1 DEF I!TypeOK
<1>4. exports \in Seq(I!Import) /\ Len(exports) \in 1..Len(exports)
  BY <1>2 DEF I!TypeOK
<1>5. CASE I!CopyOriginal
  <2> DEFINE e == [d EXCEPT !.original = folder[watcher.zip]]
  <2>1. watcher.pc = "copy" /\ folder[watcher.zip] \in {"partial", "whole"}
        /\ watcher' = [watcher EXCEPT !.pc = "parse"]
    BY <1>2, <1>3, <1>5 DEF I!CopyOriginal
  <2>2. e \in I!Import /\ exports' = [exports EXCEPT ![Len(exports)] = e]
    BY <1>2, <1>4, <1>5, <2>1 DEF I!CopyOriginal, I!Import
  <2>3. e.zip = d.zip /\ e.original = folder[watcher.zip] /\ e.meta = d.meta
        /\ e.away = d.away /\ e.convs = d.convs /\ e.warned = d.warned
    BY DEF I!Import
  <2> HIDE DEF e
  <2>4. Stored(e)
    BY <1>2, <2>1, <2>3 DEF Stored
  <2>5. watcher' = [watcher EXCEPT !.pc = "parse", !.todo = watcher.todo]
        /\ watcher.todo \in SUBSET watcher.todo
    BY <1>3, <2>1
  <2>6. e.zip = watcher.zip /\ e.convs \cup e.warned \cup watcher.todo = Holds[watcher.zip]
        /\ e.meta # "whole"
    BY <1>2, <2>3
  <2>7. folder' \in [Zips -> {"absent", "partial", "whole"}] /\ UNCHANGED <<sent, channel, broken>>
    BY <1>1 DEF I!TypeOK
  <2> QED  BY <1>1, <2>2, <2>4, <2>5, <2>6, <2>7, ImportGoesOn
<1>6. ASSUME NEW c \in I!AllConvs, I!WriteConv(c)
      PROVE  (I!TypeOK /\ I!UnderWay /\ I!ListedWhole)'
  <2>1. PICK e \in {[d EXCEPT !.convs = d.convs \cup {c}],
                    [d EXCEPT !.warned = d.warned \cup {c}]} :
          exports' = [exports EXCEPT ![Len(exports)] = e]
    BY <1>2, <1>4, <1>6 DEF I!WriteConv
  <2>2. e \in I!Import /\ e.zip = d.zip /\ e.original = d.original /\ e.meta # "whole"
        /\ e.away = d.away /\ e.convs \cup e.warned = d.convs \cup d.warned \cup {c}
    BY <1>2, <2>1 DEF I!Import
  <2>3. watcher' = [watcher EXCEPT !.pc = "write", !.todo = watcher.todo \ {c}]
        /\ watcher.pc = "write" /\ c \in watcher.todo
    <3>1. watcher' = [watcher EXCEPT !.todo = watcher.todo \ {c}]
          /\ watcher.pc = "write" /\ c \in watcher.todo
      BY <1>6 DEF I!WriteConv
    <3> QED  BY <1>3, <3>1
  <2>4. e.convs \cup e.warned \cup (watcher.todo \ {c}) = Holds[watcher.zip]
    BY <1>2, <2>2, <2>3
  <2>5. watcher.todo \ {c} \in SUBSET watcher.todo /\ Stored(e)
    BY <1>2, <2>2, <2>3 DEF Stored
  <2> QED  BY <1>1, <1>2, <1>3, <2>1, <2>2, <2>3, <2>4, <2>5, ImportGoesOn
<1>7. CASE I!CreateMetadata
  <2> DEFINE e == [d EXCEPT !.meta = "torn"]
  <2>1. e \in I!Import /\ exports' = [exports EXCEPT ![Len(exports)] = e]
    BY <1>2, <1>4, <1>7 DEF I!CreateMetadata, I!Import
  <2>2. watcher' = [watcher EXCEPT !.pc = "meta"] /\ watcher.todo = {} /\ watcher.pc = "write"
    BY <1>7 DEF I!CreateMetadata
  <2>3. e.zip = d.zip /\ e.original = d.original /\ e.meta = "torn"
        /\ e.away = d.away /\ e.convs = d.convs /\ e.warned = d.warned
    BY DEF I!Import
  <2> HIDE DEF e
  <2>4. Stored(e)
    BY <1>2, <2>2, <2>3 DEF Stored
  <2>5. watcher' = [watcher EXCEPT !.pc = "meta", !.todo = watcher.todo]
    BY <1>3, <2>2
  <2> QED  BY <1>1, <1>2, <1>3, <2>1, <2>2, <2>3, <2>4, <2>5, ImportGoesOn
<1>8. CASE I!WriteMetadata
  <2> DEFINE e == [d EXCEPT !.meta = "whole"]
  <2>1. e \in I!Import /\ exports' = [exports EXCEPT ![Len(exports)] = e]
    BY <1>2, <1>4, <1>8 DEF I!WriteMetadata, I!Import
  <2>2. watcher' = I!Receiving /\ watcher.pc = "meta" /\ watcher.todo = {}
    BY <1>2, <1>8 DEF I!WriteMetadata
  <2>3. e.zip = d.zip /\ e.original = d.original
        /\ e.away = d.away /\ e.convs = d.convs /\ e.warned = d.warned
    BY DEF I!Import
  <2> HIDE DEF e
  <2>4. Stored(e)
    BY <1>2, <2>2, <2>3 DEF Stored
  <2> QED  BY <1>1, <1>2, <1>3, <2>1, <2>2, <2>3, <2>4, ImportGoesOn
<1> QED  BY <1>5, <1>6, <1>7, <1>8

\* A ZIP that is taken away after its import opened it.
LEMMA ImportLosesZip ==
    ASSUME I!TypeOK, I!UnderWay, I!ListedWhole, NEW z \in Zips, I!Remove(z)
    PROVE  (I!TypeOK /\ I!UnderWay /\ I!ListedWhole)'
<1> USE DEF I!At, I!Last
<1>1. folder' \in [Zips -> {"absent", "partial", "whole"}] /\ folder' = [folder EXCEPT ![z] = "absent"]
      /\ UNCHANGED <<sent, channel, watcher, broken>>
  BY DEF I!TypeOK, I!Remove
<1>2. CASE watcher.pc = "copy" /\ watcher.zip = z
  <2>1. PICK d \in I!Import :
          /\ exports # <<>> /\ d = exports[Len(exports)]
          /\ watcher.zip \in Zips /\ d.zip = watcher.zip /\ d.meta # "whole"
          /\ d.convs \cup d.warned \cup watcher.todo = Holds[watcher.zip]
    BY <1>2, ImportUnderWay
  <2> DEFINE e == [d EXCEPT !.away = TRUE]
  <2>2. exports \in Seq(I!Import) /\ Len(exports) \in 1..Len(exports)
    BY <2>1 DEF I!TypeOK
  <2>3. e \in I!Import /\ exports' = [exports EXCEPT ![Len(exports)] = e]
    BY <1>2, <2>1, <2>2 DEF I!Remove, I!Import
  <2>4. e.zip = d.zip /\ e.away /\ e.convs = d.convs /\ e.warned = d.warned
        /\ e.meta = d.meta
    BY DEF I!Import
  <2>5. watcher' = [watcher EXCEPT !.pc = "copy", !.todo = watcher.todo]
        /\ watcher.todo \in SUBSET watcher.todo
    BY <1>1, <1>2 DEF I!TypeOK
  <2> HIDE DEF e
  <2>6. e.zip = watcher.zip /\ e.convs \cup e.warned \cup watcher.todo = Holds[watcher.zip]
        /\ e.meta # "whole"
    BY <2>1, <2>4
  <2> QED  BY <1>1, <1>2, <2>3, <2>4, <2>5, <2>6, ImportGoesOn
<1>3. CASE ~(watcher.pc = "copy" /\ watcher.zip = z)
  <2>1. exports' = exports
    BY <1>3 DEF I!Remove
  <2>2. I!TypeOK' /\ I!ListedWhole'
    BY <1>1, <2>1 DEF I!TypeOK, I!ListedWhole
  <2>3. I!UnderWay'
    BY <1>1, <1>3, <2>1 DEF I!TypeOK, I!UnderWay
  <2> QED  BY <2>2, <2>3
<1> QED  BY <1>2, <1>3

\* The steps that leave the directories as they are.
LEMMA ImportWaits ==
    ASSUME I!TypeOK, I!UnderWay, I!ListedWhole,
           \/ \E z \in Zips : I!Download(z)
           \/ I!Receive \/ I!Settle \/ I!Unreadable \/ I!CopyFails \/ I!Parse
           \/ I!IoFails \/ I!Interrupt
    PROVE  (I!TypeOK /\ I!UnderWay /\ I!ListedWhole)'
<1> USE DEF I!At, I!Last
<1>0. MaxEvents \in Nat /\ None \notin Zips
  BY Instances DEF I!ImportsAssumption
<1>1. exports' = exports /\ I!ListedWhole'
  BY DEF I!ListedWhole, I!Download, I!Receive, I!Settle, I!Unreadable, I!CopyFails, I!Parse,
         I!IoFails, I!Interrupt
<1>2. ASSUME NEW z \in Zips, I!Download(z)
      PROVE  I!TypeOK' /\ I!UnderWay'
  <2>1. folder' \in [Zips -> {"absent", "partial", "whole"}] /\ UNCHANGED <<watcher, broken>>
        /\ sent' \in 0..MaxEvents
    BY <1>0, <1>2 DEF I!TypeOK, I!Download, I!Notify
  <2>2. channel \in Seq(Zips) /\ Append(channel, z) \in Seq(Zips)
    BY DEF I!TypeOK
  <2>3. channel' \in Seq(Zips)
    BY <1>2, <2>2 DEF I!Download, I!Notify
  <2>4. \A y \in Zips : folder[y] = "whole" => folder'[y] = "whole"
    BY <1>2 DEF I!TypeOK, I!Download
  <2> QED  BY <1>1, <2>1, <2>3, <2>4 DEF I!TypeOK, I!UnderWay, I!Steps
<1>3. CASE I!Receive
  <2>1. Head(channel) \in Zips /\ Tail(channel) \in Seq(Zips)
    BY <1>3 DEF I!TypeOK, I!Receive
  <2> QED  BY <1>1, <1>3, <2>1 DEF I!TypeOK, I!UnderWay, I!Steps, I!Receive
<1>4. CASE I!Settle
  BY <1>1, <1>4 DEF I!TypeOK, I!UnderWay, I!Steps, I!Settle, I!Receiving
<1>5. CASE I!Parse
  BY <1>1, <1>5 DEF I!TypeOK, I!UnderWay, I!Steps, I!Parse, I!Receiving
<1>6. CASE I!Unreadable \/ I!CopyFails \/ I!IoFails
  <2>1. watcher' = I!Receiving /\ UNCHANGED <<folder, sent, channel>>
    BY <1>6 DEF I!Unreadable, I!CopyFails, I!IoFails
  <2>2. broken' \in SUBSET Zips
    BY <1>6 DEF I!TypeOK, I!UnderWay, I!Steps, I!Unreadable, I!CopyFails, I!IoFails
  <2> QED  BY <1>1, <2>1, <2>2 DEF I!TypeOK, I!UnderWay, I!Steps, I!Receiving
<1>7. CASE I!Interrupt
  BY <1>1, <1>7, EmptySeq DEF I!TypeOK, I!UnderWay, I!Steps, I!Interrupt
<1> QED  BY <1>1, <1>2, <1>3, <1>4, <1>5, <1>6, <1>7

LEMMA ImportBegins ==
    ASSUME I!TypeOK, I!UnderWay, I!ListedWhole, I!MakeDir
    PROVE  (I!TypeOK /\ I!UnderWay /\ I!ListedWhole)'
<1> USE DEF I!At, I!Last
<1> DEFINE new == [zip |-> watcher.zip, original |-> "none", away |-> FALSE, convs |-> {},
                   warned |-> {}, meta |-> "none"]
<1>1. /\ watcher.zip \in Zips /\ exports \in Seq(I!Import) /\ folder[watcher.zip] = "whole"
      /\ watcher' = [watcher EXCEPT !.pc = "copy", !.todo = Holds[watcher.zip]]
      /\ exports' = Append(exports, new) /\ UNCHANGED <<folder, sent, channel, broken>>
  BY DEF I!TypeOK, I!UnderWay, I!Steps, I!MakeDir
<1>2. new \in I!Import /\ Holds[watcher.zip] \in SUBSET I!AllConvs
  BY <1>1 DEF I!Import, I!AllConvs
<1>3. /\ watcher' \in [pc : I!Steps, zip : Zips \cup {None}, todo : SUBSET I!AllConvs]
      /\ watcher'.pc = "copy" /\ watcher'.zip = watcher.zip
      /\ watcher'.todo = Holds[watcher.zip]
  BY <1>1, <1>2 DEF I!TypeOK, I!Steps
<1>4. /\ exports' \in Seq(I!Import) /\ exports' # <<>> /\ exports'[Len(exports')] = new
      /\ \A i \in DOMAIN exports' : exports'[i] = new \/ (i \in DOMAIN exports /\ exports'[i] = exports[i])
  <2> HIDE DEF new
  <2> QED  BY <1>1, <1>2
<1>5. I!TypeOK'
  BY <1>1, <1>3, <1>4 DEF I!TypeOK
<1>6. I!UnderWay'
  BY <1>1, <1>3, <1>4 DEF I!UnderWay
<1>7. I!ListedWhole'
  BY <1>4 DEF I!ListedWhole
<1> QED  BY <1>5, <1>6, <1>7

LEMMA ImportsStep == I!Inv /\ [I!Next]_(I!vars) => I!Inv'
<1>1. I!Inv /\ I!Next => I!Inv'
  BY ImportWrites, ImportLosesZip, ImportWaits, ImportBegins DEF I!Inv, I!Next, I!Watch
<1>2. I!Inv /\ UNCHANGED I!vars => I!Inv'
  BY DEF I!Inv, I!TypeOK, I!UnderWay, I!ListedWhole, I!vars, I!Last
<1> QED  BY <1>1, <1>2

-----------------------------------------------------------------------------
(* Captures *)

LEMMA CopiesWhole ==
    /\ C!Torn \notin C!Copies /\ None \notin C!Copies /\ None # C!Torn
    /\ None \notin Convs
    /\ \A k \in C!Copies : k.at \in Stamps
BY Instances DEF C!CapturesAssumption, C!Copies

LEMMA CapturesInit == C!Init => C!Inv
<1> SUFFICES ASSUME C!Init PROVE C!Inv
  OBVIOUS
<1>1. C!TypeOK
  BY Instances DEF C!CapturesAssumption, C!Init, C!TypeOK, C!Idle, C!Work, C!Steps,
                   C!NoCounts
<1>2. C!AllSaved
  BY CopiesWhole DEF C!Init, C!AllSaved
<1>3. /\ C!FiledByStamp /\ C!InHand /\ C!RoomMade /\ C!Prepared /\ C!CurrentWhole
      /\ C!NothingLost /\ C!CountsAddUp
  BY CopiesWhole DEF C!Init, C!FiledByStamp, C!InHand, C!RoomMade, C!Prepared,
       C!CurrentWhole, C!NothingLost, C!CountsAddUp, C!Idle, C!Writing
<1> QED  BY <1>1, <1>2, <1>3 DEF C!Inv

\* What a writer does to its own state, by the step it takes.
LEMMA WriterMoves ==
    ASSUME C!Inv, NEW w \in Writers, C!Write(w) \/ C!Run(w) \/ C!Crash(w)
    PROVE  \E r \in C!Work :
             /\ v6' = [v6 EXCEPT ![w] = r]
             /\ IF r.pc \in C!Writing THEN r.conv \in Convs /\ r.copy \in C!Copies
                ELSE r.conv = None
<1> DEFINE Good(r) == /\ r \in C!Work
                      /\ v6' = [v6 EXCEPT ![w] = r]
                      /\ IF r.pc \in C!Writing THEN r.conv \in Convs /\ r.copy \in C!Copies
                         ELSE r.conv = None
<1> SUFFICES \E r : Good(r)
  OBVIOUS
<1>0. PICK d \in C!Work : d = v6[w]
  BY DEF C!Inv, C!TypeOK
<1>1. /\ IF d.pc \in C!Writing THEN d.conv \in Convs /\ d.copy \in C!Copies
         ELSE d.conv = None
      /\ v6 \in [Writers -> C!Work] /\ v2 \in [Convs -> C!Copies \cup {C!Torn, None}]
  BY <1>0 DEF C!Inv, C!InHand, C!TypeOK
<1>2. CASE C!LookAbsent(w) \/ C!Create(w) \/ C!Fill(w) \/ C!LookOther(w) \/ C!Rotate(w)
  <2>1. PICK s \in {"create", "fill", "rename", "rotate"} : v6' = [v6 EXCEPT ![w].pc = s]
    BY <1>2 DEF C!LookAbsent, C!Create, C!Fill, C!LookOther, C!Rotate, C!Step
  <2>2. d.pc \in C!Writing
    BY <1>0, <1>2 DEF C!LookAbsent, C!Create, C!Fill, C!LookOther, C!Rotate, C!Writing
  <2>3. Good([d EXCEPT !.pc = s])
    BY <1>0, <1>1, <2>1, <2>2 DEF C!Work, C!Steps, C!Writing
  <2> QED  BY <2>3
<1>3. CASE C!LookSame(w) \/ C!Rename(w) \/ C!Fail(w)
  <2>1. v6' = [v6 EXCEPT ![w].pc = "next", ![w].conv = None, ![w].copy = None]
    BY <1>3 DEF C!LookSame, C!Rename, C!Fail, C!Over
  <2>2. Good([d EXCEPT !.pc = "next", !.conv = None, !.copy = None])
    BY <1>0, <1>1, <2>1 DEF C!Work, C!Steps, C!Writing
  <2> QED  BY <2>2
<1>4. ASSUME NEW c \in Convs, NEW k \in C!Copies, C!Post(w, c, k) \/ C!NextConv(w, c, k)
      PROVE  \E r : Good(r)
  <2>1. v6' = [v6 EXCEPT ![w].pc = "look", ![w].conv = c, ![w].copy = k,
                         ![w].convs = d.convs \ {c}]
    BY <1>0, <1>1, <1>4 DEF C!Post, C!NextConv, C!Take
  <2>2. Good([d EXCEPT !.pc = "look", !.conv = c, !.copy = k, !.convs = d.convs \ {c}])
    BY <1>0, <1>1, <2>1 DEF C!Work, C!Steps, C!Writing
  <2> QED  BY <2>2
<1>5. ASSUME NEW c \in Convs, C!Repost(w, c)
      PROVE  \E r : Good(r)
  <2>1. v6' = [v6 EXCEPT ![w].pc = "look", ![w].conv = c, ![w].copy = v2[c]]
        /\ v2[c] \in C!Copies
    BY <1>5 DEF C!Repost
  <2>2. Good([d EXCEPT !.pc = "look", !.conv = c, !.copy = v2[c]])
    BY <1>0, <1>1, <2>1 DEF C!Work, C!Steps, C!Writing
  <2> QED  BY <2>2
<1>6. ASSUME NEW c \in Convs, C!FetchFails(w, c)
      PROVE  \E r : Good(r)
  <2>1. Good([d EXCEPT !.convs = d.convs \ {c}])
    BY <1>0, <1>1, <1>6 DEF C!FetchFails, C!Work, C!Steps, C!Writing
  <2> QED  BY <2>1
<1>7. ASSUME NEW cs \in SUBSET Convs, C!StartScrape(w, cs)
      PROVE  \E r : Good(r)
  <2>1. Good([d EXCEPT !.pc = "next", !.convs = cs])
    BY <1>0, <1>1, <1>7 DEF C!StartScrape, C!Work, C!Steps, C!Writing
  <2> QED  BY <2>1
<1>8. ASSUME NEW kind \in {"plain", "v2", "v3"}, C!StartIngest(w, kind)
      PROVE  \E r : Good(r)
  <2>1. Good([d EXCEPT !.pc = "next", !.files = CacheFiles, !.kind = kind])
    BY <1>0, <1>1, <1>8 DEF C!StartIngest, C!Work, C!Steps, C!Writing
  <2> QED  BY <2>1
<1>9. CASE C!KeyRefused(w)
  <2>1. Good(d)
    BY <1>0, <1>1, <1>9 DEF C!KeyRefused
  <2> QED  BY <2>1
<1>10. CASE C!Done(w) \/ C!Crash(w)
  <2>1. Good(C!Idle)
    BY <1>0, <1>1, <1>10 DEF C!Done, C!Crash, C!Idle, C!Work, C!Steps, C!Writing
  <2> QED  BY <2>1
<1>11. ASSUME NEW f \in CacheFiles,
              C!NextV2File(w, f) \/ C!NextV3File(w, f) \/ C!NextPlainFile(w, f)
       PROVE  \E r : Good(r)
  <2>1. PICK cs \in SUBSET Convs :
          v6' = [v6 EXCEPT ![w].files = d.files \ {f}, ![w].convs = cs]
    BY <1>0, <1>1, <1>11 DEF C!NextV2File, C!NextV3File, C!NextPlainFile,
         C!SealedFile, C!KeepRaw, C!Parses, C!Work
  <2>2. d.pc = "next"
    BY <1>0, <1>11 DEF C!NextV2File, C!NextV3File, C!NextPlainFile, C!SealedFile
  <2>3. Good([d EXCEPT !.files = d.files \ {f}, !.convs = cs])
    BY <1>0, <1>1, <2>1, <2>2 DEF C!Work, C!Steps, C!Writing
  <2> QED  BY <2>3
<1> QED  BY <1>2, <1>3, <1>4, <1>5, <1>6, <1>7, <1>8, <1>9, <1>10, <1>11
            DEF C!Write, C!Run

\* What it does to the disk: five things, by the step it is at.
LEMMA DiskMoves ==
    ASSUME C!Inv, NEW w \in Writers, C!Write(w) \/ C!Run(w) \/ C!Crash(w)
    PROVE  \/ /\ UNCHANGED <<v2, v3, v4, v8>>
              /\ v6'[w].pc \in {"create", "fill", "rename"} =>
                   C!LookAbsent(w)
           \/ C!Rotate(w) \/ C!Create(w) \/ C!Fill(w) \/ C!Rename(w)
<1>1. PICK r \in C!Work : v6' = [v6 EXCEPT ![w] = r]
  BY WriterMoves
<1>2. v6 \in [Writers -> C!Work]
  BY DEF C!Inv, C!TypeOK
<1>3. CASE C!LookAbsent(w)
  BY <1>3 DEF C!LookAbsent, C!tree
<1>4. CASE C!LookSame(w) \/ C!LookOther(w) \/ C!Fail(w)
  BY <1>2, <1>4 DEF C!LookSame, C!LookOther, C!Fail, C!Over, C!Step, C!tree, C!Work
<1>5. CASE C!Crash(w)
  BY <1>2, <1>5 DEF C!Crash, C!Idle, C!tree
<1>6. CASE C!Run(w)
  <2>1. UNCHANGED <<v2, v3, v4, v8>>
    BY <1>6 DEF C!Run, C!Post, C!NextConv, C!Take, C!Repost, C!FetchFails, C!StartScrape,
         C!StartIngest, C!KeyRefused, C!Done, C!NextV2File, C!NextV3File, C!SealedFile,
         C!KeepRaw, C!NextPlainFile, C!tree
  <2>2. v6'[w].pc \in {"look", "next", "idle"}
    <3>1. ASSUME NEW c \in Convs, NEW k \in C!Copies, C!Post(w, c, k) \/ C!NextConv(w, c, k)
          PROVE  v6'[w].pc \in {"look", "next", "idle"}
      BY <1>2, <3>1 DEF C!Post, C!NextConv, C!Take, C!Work
    <3>2. ASSUME NEW c \in Convs, C!Repost(w, c) \/ C!FetchFails(w, c)
          PROVE  v6'[w].pc \in {"look", "next", "idle"}
      BY <1>2, <3>2 DEF C!Repost, C!FetchFails, C!Work
    <3>3. ASSUME NEW cs \in SUBSET Convs, C!StartScrape(w, cs)
          PROVE  v6'[w].pc \in {"look", "next", "idle"}
      BY <1>2, <3>3 DEF C!StartScrape, C!Work
    <3>4. ASSUME NEW kind \in {"plain", "v2", "v3"}, C!StartIngest(w, kind)
          PROVE  v6'[w].pc \in {"look", "next", "idle"}
      BY <1>2, <3>4 DEF C!StartIngest, C!Work
    <3>5. CASE C!KeyRefused(w) \/ C!Done(w)
      BY <1>2, <3>5 DEF C!KeyRefused, C!Done, C!Idle, C!Work
    <3>6. ASSUME NEW f \in CacheFiles,
                 C!NextV2File(w, f) \/ C!NextV3File(w, f) \/ C!NextPlainFile(w, f)
          PROVE  v6'[w].pc \in {"look", "next", "idle"}
      BY <1>2, <3>6 DEF C!NextV2File, C!NextV3File, C!NextPlainFile, C!SealedFile,
           C!KeepRaw, C!Work
    <3> QED  BY <1>6, <3>1, <3>2, <3>3, <3>4, <3>5, <3>6 DEF C!Run
  <2> QED  BY <2>1, <2>2
<1> QED  BY <1>3, <1>4, <1>5, <1>6 DEF C!Write

LEMMA CapturesBounded ==
    ASSUME C!Inv, NEW w \in Writers, C!Write(w) \/ C!Run(w) \/ C!Crash(w)
    PROVE  v1' \in 0..MaxCaptures
<1>1. v1 \in 0..MaxCaptures /\ MaxCaptures \in Nat
  BY Instances DEF C!Inv, C!TypeOK, C!CapturesAssumption
<1>2. v1' = v1 \/ (v1 < MaxCaptures /\ v1' = v1 + 1)
  BY DEF C!Write, C!Run, C!Crash, C!LookAbsent, C!LookSame, C!LookOther, C!Rotate,
       C!Create, C!Fill, C!Rename, C!Fail, C!Post, C!NextConv, C!Take, C!Repost,
       C!FetchFails, C!StartScrape, C!StartIngest, C!KeyRefused, C!Done, C!NextV2File,
       C!NextV3File, C!SealedFile, C!KeepRaw, C!NextPlainFile
<1> QED  BY <1>1, <1>2

LEMMA CapturesTypes ==
    ASSUME C!Inv, NEW w \in Writers, C!Write(w) \/ C!Run(w) \/ C!Crash(w)
    PROVE  C!TypeOK' /\ C!InHand'
<1>1. PICK r \in C!Work :
        /\ v6' = [v6 EXCEPT ![w] = r]
        /\ IF r.pc \in C!Writing THEN r.conv \in Convs /\ r.copy \in C!Copies
           ELSE r.conv = None
  BY WriterMoves
<1>2. C!TypeOK /\ C!InHand
  BY DEF C!Inv
<1>3. v6' \in [Writers -> C!Work] /\ C!InHand'
  BY <1>1, <1>2 DEF C!TypeOK, C!InHand
<1>4. v1' \in 0..MaxCaptures
  BY CapturesBounded
<1>5. /\ v2' \in [Convs -> C!Copies \cup {C!Torn, None}]
      /\ v3' \in [Convs -> [Stamps -> C!Copies \cup {None}]]
      /\ v4' \in [Convs -> C!Copies \cup {C!Torn, None}]
      /\ v8' \in SUBSET (Convs \X C!Copies)
  <2>1. v6[w].pc \in C!Writing => v6[w].conv \in Convs /\ v6[w].copy \in C!Copies
    BY <1>2 DEF C!InHand
  <2>2. CASE UNCHANGED <<v2, v3, v4, v8>>
    BY <1>2, <2>2 DEF C!TypeOK
  <2>3. CASE C!Rotate(w)
    <3> DEFINE c == v6[w].conv
    <3>1. c \in Convs /\ v2[c] \in C!Copies /\ v2[c].at \in Stamps
      BY <2>1, <2>3, CopiesWhole DEF C!Rotate, C!Writing
    <3>2. /\ v3' = [v3 EXCEPT ![c][v2[c].at] = v2[c]]
          /\ v2' = [v2 EXCEPT ![c] = None] /\ UNCHANGED <<v4, v8>>
      BY <2>3 DEF C!Rotate
    <3> HIDE DEF c
    <3> QED  BY <1>2, <3>1, <3>2 DEF C!TypeOK
  <2>4. CASE C!Create(w)
    BY <1>2, <2>1, <2>4 DEF C!TypeOK, C!Create, C!Writing
  <2>5. CASE C!Fill(w)
    BY <1>2, <2>1, <2>5 DEF C!TypeOK, C!Fill, C!Writing
  <2>6. CASE C!Rename(w)
    BY <1>2, <2>1, <2>6 DEF C!TypeOK, C!Rename, C!Writing
  <2> QED  BY <2>2, <2>3, <2>4, <2>5, <2>6, DiskMoves
<1>6. v5' \in SUBSET CacheFiles
  <2>1. v5' = v5 \/ \E f \in CacheFiles : v5' = v5 \cup {f}
    BY DEF C!Write, C!Run, C!Crash, C!LookAbsent, C!LookSame, C!LookOther, C!Rotate,
         C!Create, C!Fill, C!Rename, C!Fail, C!Post, C!NextConv, C!Repost, C!FetchFails,
         C!StartScrape, C!StartIngest, C!KeyRefused, C!Done, C!NextV2File, C!NextV3File,
         C!SealedFile, C!KeepRaw, C!NextPlainFile
  <2> QED  BY <1>2, <2>1 DEF C!TypeOK
<1>7. v7' \in [Writers -> [C!Counts -> Nat]]
  <2>1. /\ C!NoCounts \in [C!Counts -> Nat]
        /\ [C!NoCounts EXCEPT !["parsed"] = 1] \in [C!Counts -> Nat]
        /\ [C!NoCounts EXCEPT !["errors"] = 1] \in [C!Counts -> Nat]
    BY DEF C!NoCounts
  <2>2. v7 \in [Writers -> [C!Counts -> Nat]]
    BY <1>2 DEF C!TypeOK
  <2>3. ASSUME NEW ks, C!Count(w, ks)
        PROVE  v7' \in [Writers -> [C!Counts -> Nat]]
    BY <2>2, <2>3 DEF C!Count
  <2>4. \/ v7' = v7 \/ \E ks : C!Count(w, ks)
        \/ v7' = [v7 EXCEPT ![w] = C!NoCounts]
        \/ v7' = [v7 EXCEPT ![w] = [C!NoCounts EXCEPT !["parsed"] = 1]]
        \/ v7' = [v7 EXCEPT ![w] = [C!NoCounts EXCEPT !["errors"] = 1]]
    BY DEF C!Write, C!Run, C!Crash, C!LookAbsent, C!LookSame, C!LookOther, C!Rotate,
         C!Create, C!Fill, C!Rename, C!Fail, C!Post, C!NextConv, C!Repost, C!FetchFails,
         C!StartScrape, C!StartIngest, C!KeyRefused, C!Done, C!NextV2File, C!NextV3File,
         C!SealedFile, C!KeepRaw, C!NextPlainFile
  <2>5. ASSUME v7' = [v7 EXCEPT ![w] = C!NoCounts]
               \/ v7' = [v7 EXCEPT ![w] = [C!NoCounts EXCEPT !["parsed"] = 1]]
               \/ v7' = [v7 EXCEPT ![w] = [C!NoCounts EXCEPT !["errors"] = 1]]
        PROVE  v7' \in [Writers -> [C!Counts -> Nat]]
    BY <2>1, <2>2, <2>5
  <2> QED  BY <2>2, <2>3, <2>4, <2>5
<1> QED  BY <1>3, <1>4, <1>5, <1>6, <1>7 DEF C!TypeOK

\* While no other writer is at the conversation, its current copy stays away until
\* the whole new one takes the name.
LEMMA CapturesRoom ==
    ASSUME C!Inv, C!Apart, NEW w \in Writers, C!Write(w) \/ C!Run(w) \/ C!Crash(w)
    PROVE  C!RoomMade' /\ C!Prepared' /\ C!CurrentWhole'
<1>1. PICK r \in C!Work :
        /\ v6' = [v6 EXCEPT ![w] = r]
        /\ IF r.pc \in C!Writing THEN r.conv \in Convs /\ r.copy \in C!Copies
           ELSE r.conv = None
  BY WriterMoves
<1>2. /\ v6 \in [Writers -> C!Work] /\ v2 \in [Convs -> C!Copies \cup {C!Torn, None}]
      /\ v4 \in [Convs -> C!Copies \cup {C!Torn, None}]
      /\ C!RoomMade /\ C!Prepared /\ C!CurrentWhole
  BY DEF C!Inv, C!TypeOK
<1>3. v6[w].pc \in C!Writing => v6[w].conv \in Convs /\ v6[w].copy \in C!Copies
  BY DEF C!Inv, C!InHand
<1>4. ASSUME NEW v \in Writers, v # w, v6[v].pc \in {"create", "fill", "rename"}
      PROVE  v6'[v] = v6[v] /\ v6[v].conv \in Convs /\ v6[v].conv # v6[w].conv
  BY <1>1, <1>2, <1>4, CopiesWhole DEF C!Inv, C!InHand, C!Apart, C!Writing
<1>5. ASSUME NEW v \in Writers, v # w PROVE v6'[v] = v6[v]
  BY <1>1, <1>2, <1>5
<1>6. CASE UNCHANGED <<v2, v3, v4, v8>> /\ (v6'[w].pc \in {"create", "fill", "rename"} =>
                                              C!LookAbsent(w))
  <2>1. v6'[w].pc \in {"create", "fill", "rename"} =>
          v6'[w].pc = "create" /\ v2[v6'[w].conv] = None
    BY <1>2, <1>6 DEF C!LookAbsent, C!Step, C!Work
  <2> QED  BY <1>2, <1>5, <1>6, <2>1 DEF C!RoomMade, C!Prepared, C!CurrentWhole
<1>7. CASE C!Rotate(w)
  <2>1. v2' = [v2 EXCEPT ![v6[w].conv] = None] /\ v4' = v4 /\ v6[w].conv \in Convs
        /\ v6' = [v6 EXCEPT ![w].pc = "create"]
    BY <1>3, <1>7 DEF C!Rotate, C!Step, C!Writing
  <2>2. v6'[w].pc = "create" /\ v6'[w].conv = v6[w].conv
    BY <1>2, <2>1 DEF C!Work
  <2>3. C!RoomMade'
    BY <1>2, <1>4, <1>5, <2>1, <2>2 DEF C!RoomMade
  <2>4. C!Prepared' /\ C!CurrentWhole'
    BY <1>2, <1>4, <1>5, <2>1, <2>2, CopiesWhole DEF C!Prepared, C!CurrentWhole
  <2> QED  BY <2>3, <2>4
<1>8. CASE C!Create(w)
  <2>1. v2' = v2 /\ v4' = [v4 EXCEPT ![v6[w].conv] = C!Torn] /\ v6[w].conv \in Convs
        /\ v6' = [v6 EXCEPT ![w].pc = "fill"] /\ v6[w].pc = "create"
    BY <1>3, <1>8 DEF C!Create, C!Step, C!Writing
  <2>2. v6'[w].pc = "fill" /\ v6'[w].conv = v6[w].conv
    BY <1>2, <2>1 DEF C!Work
  <2>3. C!RoomMade' /\ C!CurrentWhole'
    BY <1>2, <1>5, <2>1, <2>2 DEF C!RoomMade, C!CurrentWhole
  <2>4. C!Prepared'
    BY <1>2, <1>4, <1>5, <2>1, <2>2 DEF C!Prepared
  <2> QED  BY <2>3, <2>4
<1>9. CASE C!Fill(w)
  <2>1. v2' = v2 /\ v4' = [v4 EXCEPT ![v6[w].conv] = v6[w].copy] /\ v6[w].conv \in Convs
        /\ v6' = [v6 EXCEPT ![w].pc = "rename"] /\ v6[w].pc = "fill"
    BY <1>3, <1>9 DEF C!Fill, C!Step, C!Writing
  <2>2. v6'[w].pc = "rename" /\ v6'[w].conv = v6[w].conv /\ v6'[w].copy = v6[w].copy
    BY <1>2, <2>1 DEF C!Work
  <2>3. C!RoomMade' /\ C!CurrentWhole'
    BY <1>2, <1>5, <2>1, <2>2 DEF C!RoomMade, C!CurrentWhole
  <2>4. C!Prepared'
    BY <1>2, <1>4, <1>5, <2>1, <2>2 DEF C!Prepared
  <2> QED  BY <2>3, <2>4
<1>10. CASE C!Rename(w)
  <2>1. /\ v2' = [v2 EXCEPT ![v6[w].conv] = v4[v6[w].conv]]
        /\ v4' = [v4 EXCEPT ![v6[w].conv] = None] /\ v6[w].conv \in Convs
        /\ v6' = [v6 EXCEPT ![w].pc = "next", ![w].conv = None, ![w].copy = None]
        /\ v4[v6[w].conv] = v6[w].copy /\ v6[w].copy \in C!Copies
    BY <1>2, <1>3, <1>10 DEF C!Rename, C!Over, C!Writing, C!Prepared
  <2>2. v6'[w].pc = "next"
    BY <1>2, <2>1 DEF C!Work
  <2>3. C!RoomMade' /\ C!Prepared'
    BY <1>2, <1>4, <1>5, <2>1, <2>2 DEF C!RoomMade, C!Prepared
  <2>4. C!CurrentWhole'
    BY <1>2, <2>1, CopiesWhole DEF C!CurrentWhole
  <2> QED  BY <2>3, <2>4
<1> QED  BY <1>6, <1>7, <1>8, <1>9, <1>10, DiskMoves

\* What takes the place of the current copy is recorded as saved, and a replaced
\* copy goes to the name of its own stamp.
LEMMA CapturesFiled ==
    ASSUME C!Inv, NEW w \in Writers, C!Write(w) \/ C!Run(w) \/ C!Crash(w)
    PROVE  C!AllSaved' /\ C!FiledByStamp'
<1>1. /\ v2 \in [Convs -> C!Copies \cup {C!Torn, None}]
      /\ v3 \in [Convs -> [Stamps -> C!Copies \cup {None}]]
      /\ C!AllSaved /\ C!FiledByStamp /\ C!Prepared
  BY DEF C!Inv, C!TypeOK
<1>2. v6[w].pc \in C!Writing => v6[w].conv \in Convs /\ v6[w].copy \in C!Copies
  BY DEF C!Inv, C!InHand
<1>3. CASE UNCHANGED <<v2, v3, v4, v8>> \/ C!Create(w) \/ C!Fill(w)
  BY <1>1, <1>3 DEF C!AllSaved, C!FiledByStamp, C!Create, C!Fill
<1>4. CASE C!Rotate(w)
  <2> DEFINE b == v6[w].conv
  <2>1. b \in Convs /\ v2[b] \in C!Copies /\ v2[b].at \in Stamps
        /\ v3' = [v3 EXCEPT ![b][v2[b].at] = v2[b]]
        /\ v2' = [v2 EXCEPT ![b] = None] /\ v8' = v8
    BY <1>2, <1>4, CopiesWhole DEF C!Rotate, C!Writing
  <2> HIDE DEF b
  <2> QED  BY <1>1, <2>1, CopiesWhole DEF C!AllSaved, C!FiledByStamp
<1>5. CASE C!Rename(w)
  <2>1. /\ v2' = [v2 EXCEPT ![v6[w].conv] = v6[w].copy] /\ v3' = v3
        /\ v8' = v8 \cup {<<v6[w].conv, v6[w].copy>>}
    BY <1>1, <1>5 DEF C!Rename, C!Prepared
  <2> QED  BY <1>1, <2>1 DEF C!AllSaved, C!FiledByStamp
<1> QED  BY <1>3, <1>4, <1>5, DiskMoves

\* A saved copy leaves its place only for the one its stamp names, and loses that
\* only to a copy that was current, and so saved.
LEMMA CapturesKeep ==
    ASSUME C!Inv, NEW w \in Writers, C!Write(w) \/ C!Run(w) \/ C!Crash(w)
    PROVE  C!NothingLost'
<1>1. /\ v2 \in [Convs -> C!Copies \cup {C!Torn, None}]
      /\ v3 \in [Convs -> [Stamps -> C!Copies \cup {None}]]
      /\ v8 \in SUBSET (Convs \X C!Copies)
      /\ C!AllSaved /\ C!Prepared /\ C!RoomMade /\ C!NothingLost
  BY DEF C!Inv, C!TypeOK
<1>2. v6[w].pc \in C!Writing => v6[w].conv \in Convs /\ v6[w].copy \in C!Copies
  BY DEF C!Inv, C!InHand
<1>3. CASE UNCHANGED <<v2, v3, v4, v8>> \/ C!Create(w) \/ C!Fill(w)
  BY <1>1, <1>3 DEF C!NothingLost, C!Supplanted, C!Create, C!Fill
<1>4. CASE C!Rotate(w)
  <2> DEFINE b == v6[w].conv
  <2>1. b \in Convs /\ v2[b] \in C!Copies /\ v2[b].at \in Stamps
        /\ v3' = [v3 EXCEPT ![b][v2[b].at] = v2[b]]
        /\ v2' = [v2 EXCEPT ![b] = None] /\ v8' = v8
    BY <1>2, <1>4, CopiesWhole DEF C!Rotate, C!Writing
  <2>2. <<b, v2[b]>> \in v8
    BY <1>1, <2>1 DEF C!AllSaved
  <2> HIDE DEF b
  <2> SUFFICES ASSUME NEW s \in v8
               PROVE  \/ v2'[s[1]] = s[2] \/ v3'[s[1]][s[2].at] = s[2]
                      \/ C!Supplanted(s[1], s[2])'
    BY <2>1 DEF C!NothingLost
  <2>3. s[1] \in Convs /\ s[2] \in C!Copies /\ s[2].at \in Stamps
    BY <1>1, CopiesWhole
  <2>4. CASE s[1] = b /\ s[2].at = v2[b].at
    <3>1. v3'[s[1]][s[2].at] = v2[b]
      BY <1>1, <2>1, <2>3, <2>4
    <3>2. CASE s[2] = v2[b]
      BY <3>1, <3>2
    <3>3. CASE s[2] # v2[b]
      BY <2>1, <2>2, <2>4, <3>1, <3>3 DEF C!Supplanted
    <3> QED  BY <3>2, <3>3
  <2>5. CASE ~(s[1] = b /\ s[2].at = v2[b].at)
    <3>1. v3'[s[1]][s[2].at] = v3[s[1]][s[2].at]
      BY <1>1, <2>1, <2>3, <2>5
    <3>2. v2[s[1]] = s[2] => v2'[s[1]] = s[2]
      BY <1>1, <2>1, <2>3, <2>5
    <3>3. C!Supplanted(s[1], s[2]) => C!Supplanted(s[1], s[2])'
      BY <2>1, <3>1 DEF C!Supplanted
    <3> QED  BY <1>1, <3>1, <3>2, <3>3 DEF C!NothingLost
  <2> QED  BY <2>4, <2>5
<1>5. CASE C!Rename(w)
  <2>1. /\ v2' = [v2 EXCEPT ![v6[w].conv] = v6[w].copy] /\ v3' = v3
        /\ v6[w].conv \in Convs /\ v2[v6[w].conv] = None
        /\ v8' = v8 \cup {<<v6[w].conv, v6[w].copy>>}
    BY <1>1, <1>2, <1>5 DEF C!Rename, C!Writing, C!Prepared, C!RoomMade
  <2> SUFFICES ASSUME NEW s \in v8'
               PROVE  \/ v2'[s[1]] = s[2] \/ v3'[s[1]][s[2].at] = s[2]
                      \/ C!Supplanted(s[1], s[2])'
    BY DEF C!NothingLost
  <2>2. CASE s \in v8
    <3>1. s[1] \in Convs /\ s[2] \in C!Copies /\ s[2] # None
      BY <1>1, <2>2, CopiesWhole
    <3>2. C!Supplanted(s[1], s[2]) => C!Supplanted(s[1], s[2])'
      BY <2>1 DEF C!Supplanted
    <3> QED  BY <1>1, <2>1, <2>2, <3>1, <3>2 DEF C!NothingLost
  <2>3. CASE s = <<v6[w].conv, v6[w].copy>>
    BY <1>1, <2>1, <2>3
  <2> QED  BY <2>1, <2>2, <2>3
<1> QED  BY <1>3, <1>4, <1>5, DiskMoves

\* The sums a report is checked by, and what counting adds to them.
Tried(r) == r["attempted"] = r["decrypted"] + r["failed_parse"] + r["failed_decrypt"]
Met(r) == r["parsed"] + r["unread"] + r["failed_parse"] + r["failed_decrypt"]
Ended(r) == r["written"] + r["unchanged"] + r["errors"]

LEMMA Counted ==
    ASSUME NEW w \in Writers, v7 \in [Writers -> [C!Counts -> Nat]], NEW ks, C!Count(w, ks)
    PROVE  /\ \A v \in Writers : v # w => v7'[v] = v7[v]
           /\ v7'[w] = [k \in C!Counts |-> IF k \in ks THEN v7[w][k] + 1 ELSE v7[w][k]]
BY DEF C!Count

LEMMA CountedSums ==
    ASSUME NEW w \in Writers, v7 \in [Writers -> [C!Counts -> Nat]], Tried(v7[w])
    PROVE  /\ \A k \in {"unchanged", "written", "errors"} :
                C!Count(w, {k}) => Tried(v7'[w]) /\ Met(v7'[w]) = Met(v7[w])
                                   /\ Ended(v7'[w]) = Ended(v7[w]) + 1
           /\ C!Count(w, {"parsed"}) =>
                Tried(v7'[w]) /\ Met(v7'[w]) = Met(v7[w]) + 1
                /\ Ended(v7'[w]) = Ended(v7[w])
           /\ \A ks \in {{"parsed", "errors"}, {"errors", "unread"},
                         {"attempted", "failed_parse", "errors"},
                         {"attempted", "failed_decrypt", "errors"}} :
                C!Count(w, ks) => Tried(v7'[w]) /\ Met(v7'[w]) = Met(v7[w]) + 1
                                  /\ Ended(v7'[w]) = Ended(v7[w]) + 1
           /\ C!Count(w, {"attempted", "decrypted"}) =>
                Tried(v7'[w]) /\ Met(v7'[w]) = Met(v7[w])
                /\ Ended(v7'[w]) = Ended(v7[w])
<1>1. PICK c \in [C!Counts -> Nat] : c = v7[w]
  OBVIOUS
<1>2. ASSUME NEW ks, C!Count(w, ks)
      PROVE  /\ \A k \in C!Counts : k \in ks => v7'[w][k] = c[k] + 1
             /\ \A k \in C!Counts : k \notin ks => v7'[w][k] = c[k]
  <2>1. v7'[w] = [k \in C!Counts |-> IF k \in ks THEN v7[w][k] + 1 ELSE v7[w][k]]
    BY <1>2, Counted
  <2> QED  BY <1>1, <2>1
<1>a. \A k \in C!Counts : c[k] \in Nat
  BY <1>1
<1>b. Tried(c)
  BY <1>1
<1>3. ASSUME NEW k \in {"unchanged", "written", "errors"}, C!Count(w, {k})
      PROVE  Tried(v7'[w]) /\ Met(v7'[w]) = Met(c) /\ Ended(v7'[w]) = Ended(c) + 1
  BY <1>2, <1>3, <1>a, <1>b DEF Tried, Met, Ended, C!Counts
<1>4. ASSUME C!Count(w, {"parsed"})
      PROVE  Tried(v7'[w]) /\ Met(v7'[w]) = Met(c) + 1 /\ Ended(v7'[w]) = Ended(c)
  BY <1>2, <1>4, <1>a, <1>b DEF Tried, Met, Ended, C!Counts
<1>5. ASSUME NEW ks \in {{"parsed", "errors"}, {"errors", "unread"},
                         {"attempted", "failed_parse", "errors"},
                         {"attempted", "failed_decrypt", "errors"}},
             C!Count(w, ks)
      PROVE  Tried(v7'[w]) /\ Met(v7'[w]) = Met(c) + 1 /\ Ended(v7'[w]) = Ended(c) + 1
  <2>1. CASE ks = {"parsed", "errors"}
    BY <1>2, <1>5, <1>a, <1>b, <2>1 DEF Tried, Met, Ended, C!Counts
  <2>2. CASE ks = {"errors", "unread"}
    BY <1>2, <1>5, <1>a, <1>b, <2>2 DEF Tried, Met, Ended, C!Counts
  <2>3. CASE ks = {"attempted", "failed_parse", "errors"}
    <3>1. /\ v7'[w]["attempted"] = c["attempted"] + 1
          /\ v7'[w]["failed_parse"] = c["failed_parse"] + 1
          /\ v7'[w]["errors"] = c["errors"] + 1
          /\ \A k \in {"decrypted", "failed_decrypt", "parsed", "written", "unchanged",
                       "unread"} : v7'[w][k] = c[k]
      BY <1>2, <1>5, <2>3 DEF C!Counts
    <3> QED  BY <1>a, <1>b, <3>1 DEF Tried, Met, Ended, C!Counts
  <2>4. CASE ks = {"attempted", "failed_decrypt", "errors"}
    BY <1>2, <1>5, <1>a, <1>b, <2>4 DEF Tried, Met, Ended, C!Counts
  <2> QED  BY <2>1, <2>2, <2>3, <2>4
<1>6. ASSUME C!Count(w, {"attempted", "decrypted"})
      PROVE  Tried(v7'[w]) /\ Met(v7'[w]) = Met(c) /\ Ended(v7'[w]) = Ended(c)
  BY <1>2, <1>6, <1>a, <1>b DEF Tried, Met, Ended, C!Counts
<1> QED  BY <1>1, <1>3, <1>4, <1>5, <1>6

\* Each conversation and each file is counted once among what was met and once
\* among what became of it.
LEMMA CapturesCounts ==
    ASSUME C!Inv, NEW w \in Writers, C!Write(w) \/ C!Run(w) \/ C!Crash(w)
    PROVE  C!CountsAddUp'
<1> DEFINE Owed(p) == IF p \in C!Writing THEN 1 ELSE 0
           Sums(p, r) == p # "idle" => Tried(r) /\ Met(r) = Ended(r) + Owed(p)
<1>1. /\ v6 \in [Writers -> C!Work] /\ v6[w] \in C!Work
      /\ v7 \in [Writers -> [C!Counts -> Nat]] /\ v7[w] \in [C!Counts -> Nat]
      /\ v7' \in [Writers -> [C!Counts -> Nat]]
  BY CapturesTypes DEF C!Inv, C!TypeOK
<1>2. \A v \in Writers : Sums(v6[v].pc, v7[v])
  BY DEF C!Inv, C!CountsAddUp, Tried, Met, Ended
<1>3. \A r \in [C!Counts -> Nat] : Met(r) \in Nat /\ Ended(r) \in Nat
  BY DEF Met, Ended, C!Counts
<1>4. \A v \in Writers : v # w => v6'[v].pc = v6[v].pc
  BY <1>1, WriterMoves
<1>5. \A v \in Writers : v # w => v7'[v] = v7[v]
  <2>1. ASSUME NEW ks, C!Count(w, ks) PROVE \A v \in Writers : v # w => v7'[v] = v7[v]
    BY <1>1, <2>1, Counted
  <2>2. \/ v7' = v7 \/ (\E ks : C!Count(w, ks))
        \/ \E r : v7' = [v7 EXCEPT ![w] = r]
    BY DEF C!Write, C!Run, C!Crash, C!LookAbsent, C!LookSame, C!LookOther, C!Rotate,
         C!Create, C!Fill, C!Rename, C!Fail, C!Post, C!NextConv, C!Repost, C!FetchFails,
         C!StartScrape, C!StartIngest, C!KeyRefused, C!Done, C!NextV2File, C!NextV3File,
         C!SealedFile, C!KeepRaw, C!NextPlainFile
  <2> QED  BY <1>1, <2>1, <2>2
<1> SUFFICES Sums(v6'[w].pc, v7'[w])
  <2>1. \A v \in Writers : Sums(v6'[v].pc, v7'[v])
    BY <1>2, <1>4, <1>5
  <2> QED  BY <2>1 DEF C!CountsAddUp, Tried, Met, Ended
<1>6. CASE C!LookAbsent(w) \/ C!LookOther(w) \/ C!Rotate(w) \/ C!Create(w) \/ C!Fill(w)
  <2>1. v7' = v7 /\ v6[w].pc \in C!Writing /\ v6'[w].pc \in C!Writing
    BY <1>1, <1>6 DEF C!LookAbsent, C!LookOther, C!Rotate, C!Create, C!Fill, C!Step,
         C!Writing, C!Work
  <2>2. v6[w].pc # "idle"
    BY <2>1 DEF C!Writing
  <2> QED  BY <1>2, <2>1, <2>2
<1>7. CASE C!LookSame(w) \/ C!Rename(w) \/ C!Fail(w)
  <2>1. \E k \in {"unchanged", "written", "errors"} : C!Count(w, {k})
    BY <1>7 DEF C!LookSame, C!Rename, C!Fail
  <2>2. v6[w].pc \in C!Writing /\ v6'[w].pc = "next"
    BY <1>1, <1>7 DEF C!LookSame, C!Rename, C!Fail, C!Over, C!Writing, C!Work
  <2>3. v6[w].pc # "idle" /\ Owed("next") = 0
    BY <2>2 DEF C!Writing
  <2>4. Tried(v7[w]) /\ Met(v7[w]) = Ended(v7[w]) + 1
    BY <1>2, <2>2, <2>3
  <2>5. Tried(v7'[w]) /\ Met(v7'[w]) = Met(v7[w]) /\ Ended(v7'[w]) = Ended(v7[w]) + 1
    BY <1>1, <2>1, <2>4, CountedSums
  <2> QED  BY <1>1, <1>3, <2>2, <2>3, <2>4, <2>5
<1>8. CASE C!KeyRefused(w) \/ C!Crash(w) \/ C!Done(w)
  <2>1. CASE C!KeyRefused(w)
    BY <1>1, <2>1 DEF C!KeyRefused
  <2>2. CASE C!Crash(w) \/ C!Done(w)
    BY <1>1, <2>2 DEF C!Crash, C!Done, C!Idle
  <2> QED  BY <1>8, <2>1, <2>2
<1>9. ASSUME NEW c \in Convs,
             C!Repost(w, c) \/ \E k \in C!Copies : C!Post(w, c, k)
      PROVE  Sums(v6'[w].pc, v7'[w])
  <2>1. v7'[w] = [C!NoCounts EXCEPT !["parsed"] = 1] /\ v6'[w].pc = "look"
    <3>1. v7' = [v7 EXCEPT ![w] = [C!NoCounts EXCEPT !["parsed"] = 1]]
      BY <1>9 DEF C!Post, C!Repost
    <3>2. PICK k : v6' = [v6 EXCEPT ![w].pc = "look", ![w].conv = c, ![w].copy = k]
                   \/ v6' = [v6 EXCEPT ![w].pc = "look", ![w].conv = c, ![w].copy = k,
                                        ![w].convs = @ \ {c}]
      BY <1>9 DEF C!Post, C!Take, C!Repost
    <3>3. v6'[w].pc = "look"
      BY <1>1, <3>2 DEF C!Work
    <3> QED  BY <1>1, <3>1, <3>3
  <2>2. Tried(v7'[w]) /\ Met(v7'[w]) = 1 /\ Ended(v7'[w]) = 0
    BY <2>1 DEF C!NoCounts, C!Counts, Tried, Met, Ended
  <2> QED  BY <2>1, <2>2 DEF C!Writing
<1>10. ASSUME (\E cs \in SUBSET Convs : C!StartScrape(w, cs))
              \/ \E kind \in {"plain", "v2", "v3"} : C!StartIngest(w, kind)
       PROVE  Sums(v6'[w].pc, v7'[w])
  <2>1. v7'[w] = C!NoCounts /\ v6'[w].pc = "next"
    BY <1>1, <1>10 DEF C!StartScrape, C!StartIngest, C!Work
  <2>2. Tried(v7'[w]) /\ Met(v7'[w]) = 0 /\ Ended(v7'[w]) = 0
    BY <2>1 DEF C!NoCounts, C!Counts, Tried, Met, Ended
  <2> QED  BY <2>1, <2>2 DEF C!Writing
\* From here on the run is at its list.
<1>11. ASSUME v6[w].pc = "next"
       PROVE  Tried(v7[w]) /\ Met(v7[w]) = Ended(v7[w])
  BY <1>1, <1>2, <1>3, <1>11 DEF C!Writing
<1>12. ASSUME NEW c \in Convs, NEW k \in C!Copies, C!NextConv(w, c, k)
       PROVE  Sums(v6'[w].pc, v7'[w])
  <2>1. v6[w].pc = "next" /\ v6'[w].pc = "look" /\ C!Count(w, {"parsed"})
    BY <1>1, <1>12 DEF C!NextConv, C!Take, C!Work
  <2>2. Tried(v7'[w]) /\ Met(v7'[w]) = Met(v7[w]) + 1 /\ Ended(v7'[w]) = Ended(v7[w])
    BY <1>1, <1>11, <2>1, CountedSums
  <2> QED  BY <1>11, <2>1, <2>2 DEF C!Writing
<1>13. ASSUME NEW c \in Convs, C!FetchFails(w, c)
       PROVE  Sums(v6'[w].pc, v7'[w])
  <2>1. v6[w].pc = "next" /\ v6'[w].pc = "next" /\ C!Count(w, {"parsed", "errors"})
    BY <1>1, <1>13 DEF C!FetchFails, C!Work
  <2>2. Tried(v7'[w]) /\ Met(v7'[w]) = Met(v7[w]) + 1 /\ Ended(v7'[w]) = Ended(v7[w]) + 1
    BY <1>1, <1>11, <2>1, CountedSums
  <2> QED  BY <1>1, <1>3, <1>11, <2>1, <2>2 DEF C!Writing
<1>14. ASSUME NEW f \in CacheFiles,
              C!NextV2File(w, f) \/ C!NextV3File(w, f) \/ C!NextPlainFile(w, f)
       PROVE  Sums(v6'[w].pc, v7'[w])
  <2>1. v6[w].pc = "next" /\ v6'[w].pc = "next"
    BY <1>1, <1>14 DEF C!NextV2File, C!NextV3File, C!NextPlainFile, C!SealedFile,
         C!KeepRaw, C!Work
  <2>2. \/ v7' = v7
        \/ C!Count(w, {"attempted", "decrypted"})
        \/ \E ks \in {{"errors", "unread"}, {"attempted", "failed_parse", "errors"},
                      {"attempted", "failed_decrypt", "errors"}} : C!Count(w, ks)
    BY <1>14 DEF C!NextV2File, C!NextV3File, C!NextPlainFile, C!SealedFile, C!KeepRaw
  <2>3. \/ v7' = v7
        \/ Tried(v7'[w]) /\ Met(v7'[w]) = Met(v7[w]) /\ Ended(v7'[w]) = Ended(v7[w])
        \/ Tried(v7'[w]) /\ Met(v7'[w]) = Met(v7[w]) + 1
           /\ Ended(v7'[w]) = Ended(v7[w]) + 1
    BY <1>1, <1>11, <2>1, <2>2, CountedSums
  <2> QED  BY <1>1, <1>3, <1>11, <2>1, <2>3 DEF C!Writing
<1> QED  BY <1>6, <1>7, <1>8, <1>9, <1>10, <1>12, <1>13, <1>14
            DEF C!Write, C!Run

LEMMA CapturesStep == C!Inv /\ C!Apart /\ [C!Next]_(C!vars) => C!Inv'
<1>1. C!Inv /\ C!Apart /\ C!Next => C!Inv'
  <2> SUFFICES ASSUME C!Inv, C!Apart, C!Next PROVE C!Inv'
    OBVIOUS
  <2>1. PICK w \in Writers : C!Write(w) \/ C!Run(w) \/ C!Crash(w)
    BY DEF C!Next
  <2> QED  BY <2>1, CapturesTypes, CapturesRoom, CapturesFiled, CapturesKeep,
              CapturesCounts DEF C!Inv
<1>2. C!Inv /\ UNCHANGED C!vars => C!Inv'
  <2> SUFFICES ASSUME C!Inv, UNCHANGED C!vars PROVE C!Inv'
    OBVIOUS
  <2>1. UNCHANGED <<v1, v2, v3, v4, v5, v6, v7, v8>>
    BY DEF C!vars
  <2>2. C!TypeOK' /\ C!AllSaved' /\ C!FiledByStamp'
    BY <2>1 DEF C!Inv, C!TypeOK, C!AllSaved, C!FiledByStamp
  <2>3. C!InHand' /\ C!RoomMade' /\ C!Prepared' /\ C!CurrentWhole'
    BY <2>1 DEF C!Inv, C!InHand, C!RoomMade, C!Prepared, C!CurrentWhole
  <2>4. C!NothingLost'
    BY <2>1 DEF C!Inv, C!NothingLost, C!Supplanted
  <2>5. C!CountsAddUp'
    BY <2>1 DEF C!Inv, C!CountsAddUp
  <2> QED  BY <2>2, <2>3, <2>4, <2>5 DEF C!Inv
<1> QED  BY <1>1, <1>2

-----------------------------------------------------------------------------
(* The usage monitor: v1 is runs, v2 factors, v3 capture, v4 meant, v5 whole. *)

LEMMA MonitorBounds == Outputs \subseteq Seq(M!Lines) /\ MaxRuns \in Nat
BY Instances DEF M!MonitorAssumption

\* What has been read so far: the factors found, of which the last is open.
ReadSoFar == {p \in [found : Seq(M!Factors), open : BOOLEAN] : p.open => p.found # <<>>}

LEMMA ReadOneLine ==
    ASSUME NEW p \in ReadSoFar, NEW line \in M!Lines
    PROVE  M!ReadLine(p, line) \in ReadSoFar
<1>1. /\ p = [found |-> p.found, open |-> p.open] /\ p.found \in Seq(M!Factors)
      /\ p.open \in BOOLEAN /\ (p.open => p.found # <<>>)
  BY DEF ReadSoFar
<1>2. line.kind \in {"factor", "text", "blank"} /\ line.says \in Says
  BY DEF M!Lines
<1>3. CASE line.kind = "factor"
  <2>1. [label |-> line.says, advice |-> <<>>] \in M!Factors
    BY <1>2, EmptySeq DEF M!Factors
  <2>2. Append(p.found, [label |-> line.says, advice |-> <<>>]) \in Seq(M!Factors)
        /\ Append(p.found, [label |-> line.says, advice |-> <<>>]) # <<>>
    BY <1>1, <2>1, AppendProperties
  <2> QED  BY <1>3, <2>2 DEF M!ReadLine, ReadSoFar
<1>4. CASE line.kind = "text" /\ p.open
  <2> DEFINE n == Len(p.found)
             last == [p.found[n] EXCEPT !.advice = Append(@, line.says)]
  <2>1. n \in 1..Len(p.found) /\ p.found[n] \in M!Factors
    BY <1>1, <1>4, LenProperties, EmptySeq, ElementOfSeq
  <2>2. Append(p.found[n].advice, line.says) \in Seq(Says)
    BY <1>2, <2>1, AppendProperties DEF M!Factors
  <2>3. last \in M!Factors
    BY <2>1, <2>2 DEF M!Factors
  <2> HIDE DEF last
  <2>4. [p.found EXCEPT ![n] = last] \in Seq(M!Factors)
        /\ Len([p.found EXCEPT ![n] = last]) = n
    BY <1>1, <2>1, <2>3, ExceptSeq
  <2>5. [p.found EXCEPT ![n] = last] # <<>>
    BY <2>1, <2>4, EmptySeq
  <2>6. M!ReadLine(p, line) = [found |-> [p.found EXCEPT ![n] = last], open |-> p.open]
    BY <1>1, <1>4 DEF M!ReadLine, last
  <2> QED  BY <1>1, <2>4, <2>5, <2>6 DEF ReadSoFar
<1>5. CASE line.kind # "factor" /\ ~(line.kind = "text" /\ p.open)
  BY <1>1, <1>5 DEF M!ReadLine, ReadSoFar
<1> QED  BY <1>3, <1>4, <1>5

LEMMA ParsedFactors ==
    ASSUME NEW lines \in Seq(M!Lines)
    PROVE  M!ParseUsage(lines) \in Seq(M!Factors)
<1> DEFINE n == Len(lines)
           base == [found |-> <<>>, open |-> FALSE]
           Follows(f) == f = [k \in 0..n |-> IF k = 0 THEN base
                                             ELSE M!ReadLine(f[k - 1], lines[k])]
           step == [x \in ReadSoFar \X (1..n) |-> M!ReadLine(x[1], lines[x[2]])]
<1>1. n \in Nat /\ base \in ReadSoFar
  BY LenProperties, EmptySeq DEF ReadSoFar
<1>2. \A k \in 1..n : lines[k] \in M!Lines
  BY ElementOfSeq
<1>3. \A p \in ReadSoFar : \A k \in 1..n : step[<<p, k>>] = M!ReadLine(p, lines[k])
  OBVIOUS
<1>4. \A p \in ReadSoFar : \A k \in 1..n : step[<<p, k>>] \in ReadSoFar
  BY <1>2, <1>3, ReadOneLine
<1> HIDE DEF base, step, n
<1>a. PICK g : Iterates(g, n, ReadSoFar, base, step)
  BY <1>1, <1>4, Iteration
<1>5. /\ g \in [0..n -> ReadSoFar] /\ g[0] = base
      /\ \A k \in 1..n : g[k] = step[<<g[k - 1], k>>]
  BY <1>a DEF Iterates
<1>6. \A k \in 1..n : g[k] = M!ReadLine(g[k - 1], lines[k])
  <2>1. \A k \in 1..n : k - 1 \in 0..n
    BY <1>1
  <2>2. \A k \in 1..n : g[k - 1] \in ReadSoFar
    BY <1>5, <2>1
  <2> QED  BY <1>3, <1>5, <2>2
<1>7. Follows(g)
  BY <1>1, <1>5, <1>6
<1> DEFINE f == CHOOSE f : Follows(f)
<1>8. Follows(f)
  BY <1>7
<1>9. M!ParseUsage(lines) = f[n].found
  BY DEF M!ParseUsage, base, n
<1> HIDE DEF f
<1>10. f[n] \in ReadSoFar
  <2>1. f[0] \in ReadSoFar
    BY <1>1, <1>8
  <2>2. ASSUME NEW k \in 1..n, f[k - 1] \in ReadSoFar PROVE f[k] \in ReadSoFar
    <3>1. f[k] = M!ReadLine(f[k - 1], lines[k])
      BY <1>1, <1>8
    <3> QED  BY <1>2, <2>2, <3>1, ReadOneLine
  <2> QED  BY <1>1, <2>1, <2>2, KeptByIteration
<1> QED  BY <1>9, <1>10 DEF ReadSoFar

LEMMA PersistedFactors ==
    ASSUME NEW exits \in BOOLEAN, NEW lines \in Outputs
    PROVE  LET result == M!Persisted(exits, lines)
           IN  /\ result.status \in M!Statuses /\ result.factors \in Seq(M!Factors)
               /\ result.status = "success" <=> result.factors # <<>>
<1>1. lines \in Seq(M!Lines)
  BY MonitorBounds
<1>2. M!ParseUsage(lines) \in Seq(M!Factors) /\ <<>> \in Seq(M!Factors)
  BY <1>1, ParsedFactors, EmptySeq
<1> QED  BY <1>2 DEF M!Persisted, M!Statuses

LEMMA MonitorInit == M!Init => M!Inv
<1> SUFFICES ASSUME M!Init PROVE M!Inv
  OBVIOUS
<1>1. <<>> \in Seq(M!Factors) /\ <<>> \in Seq(Seq(M!Factors)) /\ <<>> \in Seq(M!Statuses)
      /\ Len(<<>>) = 0 /\ MaxRuns \in Nat
  BY EmptySeq, MonitorBounds
<1>2. M!Idle \in [pc : {"idle", "run", "factors"}, status : M!Statuses \cup {None},
                  factors : Seq(M!Factors), run : 0..MaxRuns]
  BY <1>1 DEF M!Idle
<1>3. M!Types
  BY <1>1, <1>2 DEF M!Init, M!Types
<1>4. M!Printed /\ M!Underway /\ M!RunsApart
  BY DEF M!Init, M!Idle, M!Printed, M!Underway, M!RunsApart
<1>5. M!Stored
  BY <1>1 DEF M!Init, M!Stored
<1> QED  BY <1>3, <1>4, <1>5 DEF M!Inv

\* What a capture may be, at the steps `pcs`.
Captured(pcs) == [pc : pcs, status : M!Statuses \cup {None},
                  factors : Seq(M!Factors), run : 0..MaxRuns]

LEMMA MonitorTyped ==
    ASSUME M!Inv
    PROVE  /\ MaxRuns \in Nat /\ Len(v1) \in Nat /\ Len(v1) <= MaxRuns
           /\ v1 \in Seq(M!Statuses) /\ v4 \in Seq(Seq(M!Factors)) /\ Len(v4) = Len(v1)
           /\ v5 \subseteq 1..Len(v1)
           /\ \A i \in 1..Len(v1) : v4[i] \in Seq(M!Factors)
           /\ v2 \in [1..MaxRuns -> Seq(M!Factors)]
           /\ v3 \in [RunCaptures -> Captured({"idle", "run", "factors"})]
<1>1. M!Types /\ MaxRuns \in Nat
  BY MonitorBounds DEF M!Inv
<1>2. v1 \in Seq(M!Statuses) /\ v4 \in Seq(Seq(M!Factors)) /\ Len(v4) = Len(v1)
  BY <1>1 DEF M!Types
<1>3. \A i \in 1..Len(v1) : v4[i] \in Seq(M!Factors)
  BY <1>2, ElementOfSeq
<1>4. Len(v1) \in Nat
  BY <1>2, LenProperties
<1> QED  BY <1>1, <1>2, <1>3, <1>4 DEF M!Types, Captured

\* A capture that stops, or has not yet come to its run, leaves what is stored.
LEMMA MonitorIdles ==
    ASSUME M!Inv, NEW c \in RunCaptures, NEW l \in Captured({"idle", "run"}),
           v3' = [v3 EXCEPT ![c] = l],
           l.pc = "run" => l.status \in M!Statuses,
           l.pc = "run" => (l.status = "success" <=> l.factors # <<>>),
           UNCHANGED <<v1, v2, v4, v5>>
    PROVE  M!Inv'
<1>1. M!Types /\ M!Printed /\ M!Underway /\ M!RunsApart /\ M!Stored
  BY DEF M!Inv
<1>2. v3 \in [RunCaptures -> Captured({"idle", "run", "factors"})]
      /\ l \in Captured({"idle", "run", "factors"}) /\ l.pc # "factors"
  BY MonitorTyped DEF Captured
<1>3. \A d \in RunCaptures : v3'[d] = IF d = c THEN l ELSE v3[d]
  BY <1>2
<1>4. v3' \in [RunCaptures -> Captured({"idle", "run", "factors"})]
  BY <1>2
<1>5. M!Types'
  BY <1>1, <1>4 DEF M!Types, Captured
<1>6. M!Printed'
  BY <1>1, <1>3 DEF M!Printed
<1>7. M!Underway'
  BY <1>1, <1>2, <1>3 DEF M!Underway
<1>8. M!RunsApart'
  BY <1>1, <1>2, <1>3 DEF M!RunsApart
<1>9. M!Stored'
  BY <1>1 DEF M!Stored
<1> QED  BY <1>5, <1>6, <1>7, <1>8, <1>9 DEF M!Inv

LEMMA MonitorInsertsRun ==
    ASSUME M!Inv, NEW c \in RunCaptures, M!InsertRun(c)
    PROVE  M!Inv'
<1> DEFINE n == Len(v1) + 1
           l == IF v3[c].status = "success"
                THEN [v3[c] EXCEPT !.pc = "factors", !.run = n] ELSE M!Idle
<1>1. M!Types /\ M!Printed /\ M!Underway /\ M!RunsApart /\ M!Stored
  BY DEF M!Inv
<1>2. /\ v3[c].pc = "run" /\ Len(v1) < MaxRuns
      /\ v1' = Append(v1, v3[c].status) /\ v4' = Append(v4, v3[c].factors)
      /\ v3' = [v3 EXCEPT ![c] = l] /\ v2' = v2
      /\ v5' = IF v3[c].status = "success" THEN v5 ELSE v5 \cup {n}
  BY DEF M!InsertRun
<1>3. /\ v3 \in [RunCaptures -> Captured({"idle", "run", "factors"})]
      /\ v3[c] \in Captured({"idle", "run", "factors"})
      /\ v3[c].factors \in Seq(M!Factors) /\ v3[c].status \in M!Statuses
      /\ (v3[c].status = "success" <=> v3[c].factors # <<>>)
  BY <1>1, <1>2, MonitorTyped DEF Captured, M!Printed
<1>4. n \in 1..MaxRuns /\ n \notin 1..Len(v1) /\ 1..n = (1..Len(v1)) \cup {n}
  BY <1>2, MonitorTyped
<1>5. v1' \in Seq(M!Statuses) /\ Len(v1') = n
  BY <1>2, <1>3, MonitorTyped, AppendProperties
<1>6. /\ v4' \in Seq(Seq(M!Factors)) /\ Len(v4') = n /\ v4'[n] = v3[c].factors
      /\ \A i \in 1..Len(v1) : v4'[i] = v4[i]
  BY <1>2, <1>3, MonitorTyped, AppendProperties
<1>7. /\ l \in Captured({"idle", "run", "factors"})
      /\ l.pc = IF v3[c].status = "success" THEN "factors" ELSE "idle"
      /\ v3[c].status = "success" => l.run = n /\ l.factors = v3[c].factors
  <2>1. M!Idle \in Captured({"idle", "run", "factors"}) /\ M!Idle.pc = "idle"
    BY EmptySeq, MonitorBounds DEF M!Idle, Captured
  <2>2. n \in 0..MaxRuns
    BY <1>4
  <2> HIDE DEF n
  <2> QED  BY <1>3, <2>1, <2>2 DEF Captured
<1>8. \A d \in RunCaptures : v3'[d] = IF d = c THEN l ELSE v3[d]
  BY <1>2, <1>3
<1>9. v3' \in [RunCaptures -> Captured({"idle", "run", "factors"})]
  BY <1>2, <1>3, <1>7
<1>10. v5 \subseteq 1..Len(v1) /\ v5' \subseteq 1..n
  BY <1>2, <1>4, MonitorTyped
<1> HIDE DEF l, n
<1>11. M!Types'
  <2>1. v2' \in [1..MaxRuns -> Seq(M!Factors)] /\ Len(v1') <= MaxRuns
    BY <1>2, <1>4, <1>5, MonitorTyped
  <2> QED  BY <1>5, <1>6, <1>9, <1>10, <2>1 DEF M!Types, Captured
<1>12. M!Printed'
  BY <1>1, <1>7, <1>8 DEF M!Printed
<1>13. v2[n] = <<>> /\ v2[n] \o v3[c].factors = v4'[n]
  <2>1. n > Len(v1)
    BY MonitorTyped DEF n
  <2>2. v2[n] = <<>>
    BY <1>1, <1>4, <2>1 DEF M!Stored
  <2> QED  BY <1>3, <1>6, <2>2, ConcatEmptySeq
<1>14. \A d \in RunCaptures \ {c} : v3[d].pc = "factors" =>
           /\ v3[d].run \in 1..Len(v1) /\ v3[d].run \notin v5 /\ v3[d].factors # <<>>
           /\ v2[v3[d].run] \o v3[d].factors = v4[v3[d].run]
  BY <1>1 DEF M!Underway
<1>15. M!Underway'
  <2> SUFFICES ASSUME NEW d \in RunCaptures, v3'[d].pc = "factors"
      PROVE  /\ v3'[d].run \in 1..n /\ v3'[d].run \notin v5' /\ v3'[d].factors # <<>>
             /\ v2[v3'[d].run] \o v3'[d].factors = v4'[v3'[d].run]
    BY <1>2, <1>5 DEF M!Underway
  <2>1. CASE d = c
    <3>1. v3'[d] = l /\ v3[c].status = "success"
      BY <1>7, <1>8, <2>1
    <3>2. n \in 1..n /\ n \notin v5'
      BY <1>2, <1>4, <1>10, <3>1
    <3> QED  BY <1>3, <1>7, <1>13, <3>1, <3>2
  <2>2. CASE d # c
    <3>1. v3'[d] = v3[d] /\ v3[d].run \in 1..Len(v1) /\ v3[d].run # n
      BY <1>4, <1>8, <1>14, <2>2
    <3>2. v3[d].run \in 1..n /\ v3[d].run \notin v5'
      BY <1>2, <1>4, <1>14, <2>2, <3>1
    <3>3. v4'[v3[d].run] = v4[v3[d].run]
      BY <1>6, <3>1
    <3> QED  BY <1>14, <2>2, <3>1, <3>2, <3>3
  <2> QED  BY <2>1, <2>2
<1>16. M!RunsApart'
  <2>1. \A d \in RunCaptures \ {c} : v3[d].pc = "factors" => v3[d].run # n
    BY <1>4, <1>14
  <2>2. l.pc = "factors" => l.run = n
    BY <1>7
  <2> QED  BY <1>1, <1>8, <2>1, <2>2 DEF M!RunsApart
<1>17. M!Stored'
  <2> SUFFICES ASSUME NEW i \in 1..MaxRuns
      PROVE  /\ i > n => v2[i] = <<>>
             /\ i <= n => \E rest \in Seq(M!Factors) : v2[i] \o rest = v4'[i]
             /\ i \in v5' => v2[i] = v4'[i]
    BY <1>2, <1>5 DEF M!Stored
  <2>1. CASE i = n
    <3>1. i \notin v5
      BY <1>4, <1>10, <2>1
    <3>2. i \in v5' => v3[c].factors = <<>>
      BY <1>2, <1>3, <3>1
    <3>3. ~(i > n)
      BY <1>4, <2>1
    <3> QED  BY <1>3, <1>6, <1>13, <2>1, <3>2, <3>3
  <2>2. CASE i # n
    <3>1. /\ i > n => i > Len(v1)
          /\ i <= n => i \in 1..Len(v1) /\ i <= Len(v1)
          /\ i \in v5' => i \in v5 /\ i \in 1..Len(v1)
      BY <1>2, <1>10, <2>2, MonitorTyped DEF n
    <3> QED  BY <1>1, <1>6, <3>1 DEF M!Stored
  <2> QED  BY <2>1, <2>2
<1> QED  BY <1>11, <1>12, <1>15, <1>16, <1>17 DEF M!Inv

LEMMA MonitorInsertsFactor ==
    ASSUME M!Inv, NEW c \in RunCaptures, M!InsertFactor(c)
    PROVE  M!Inv'
<1> DEFINE run == v3[c].run
           left == v3[c].factors
           l == IF Tail(left) # <<>> THEN [v3[c] EXCEPT !.factors = Tail(left)] ELSE M!Idle
<1>1. M!Types /\ M!Printed /\ M!Underway /\ M!RunsApart /\ M!Stored
  BY DEF M!Inv
<1>2. /\ v3[c].pc = "factors"
      /\ v2' = [v2 EXCEPT ![run] = Append(@, Head(left))]
      /\ v3' = [v3 EXCEPT ![c] = l]
      /\ v5' = IF Tail(left) # <<>> THEN v5 ELSE v5 \cup {run}
      /\ v1' = v1 /\ v4' = v4
  BY DEF M!InsertFactor, M!RunOf
<1>3. /\ v3 \in [RunCaptures -> Captured({"idle", "run", "factors"})]
      /\ v3[c] \in Captured({"idle", "run", "factors"}) /\ left \in Seq(M!Factors)
  BY MonitorTyped DEF Captured
<1>4. /\ left # <<>> /\ run \in 1..Len(v1) /\ run \notin v5
      /\ v2[run] \o left = v4[run]
  BY <1>1, <1>2 DEF M!Underway
<1>5. run \in 1..MaxRuns /\ v2[run] \in Seq(M!Factors)
  BY <1>4, MonitorTyped
<1>6. Head(left) \in M!Factors /\ Tail(left) \in Seq(M!Factors)
  BY <1>3, <1>4, HeadTailProperties
<1>7. <<Head(left)>> \in Seq(M!Factors) /\ left = <<Head(left)>> \o Tail(left)
  <2> HIDE DEF left
  <2> QED  BY <1>3, <1>4, <1>6, HeadTailProperties
<1>8. /\ v2'[run] = v2[run] \o <<Head(left)>> /\ v2'[run] \in Seq(M!Factors)
      /\ \A i \in 1..MaxRuns : i # run => v2'[i] = v2[i]
      /\ v2' \in [1..MaxRuns -> Seq(M!Factors)]
  <2>1. Append(v2[run], Head(left)) = v2[run] \o <<Head(left)>>
        /\ Append(v2[run], Head(left)) \in Seq(M!Factors)
    BY <1>5, <1>6, AppendIsConcat, AppendProperties
  <2>2. v2 \in [1..MaxRuns -> Seq(M!Factors)]
    BY MonitorTyped
  <2> HIDE DEF run, left
  <2> QED  BY <1>2, <1>5, <2>1, <2>2
<1>9. v2'[run] \o Tail(left) = v4[run]
  <2>1. (v2[run] \o <<Head(left)>>) \o Tail(left) = v2[run] \o (<<Head(left)>> \o Tail(left))
    <3> HIDE DEF run, left
    <3> QED  BY <1>5, <1>6, <1>7, ConcatAssociative
  <2> HIDE DEF run, left
  <2> QED  BY <1>4, <1>7, <1>8, <2>1
<1>10. Tail(left) = <<>> => v2'[run] = v4[run]
  BY <1>8, <1>9, ConcatEmptySeq
<1>11. /\ l \in Captured({"idle", "run", "factors"})
       /\ l.pc = IF Tail(left) # <<>> THEN "factors" ELSE "idle"
       /\ Tail(left) # <<>> => l.run = run /\ l.factors = Tail(left)
  <2>1. M!Idle \in Captured({"idle", "run", "factors"}) /\ M!Idle.pc = "idle"
    BY EmptySeq, MonitorBounds DEF M!Idle, Captured
  <2> DEFINE m == [v3[c] EXCEPT !.factors = Tail(left)]
  <2>2. /\ m \in Captured({"idle", "run", "factors"}) /\ m.pc = v3[c].pc /\ m.run = v3[c].run
        /\ m.factors = Tail(left)
    <3> HIDE DEF left
    <3> QED  BY <1>3, <1>6 DEF Captured
  <2> HIDE DEF m, left
  <2>3. l = IF Tail(left) # <<>> THEN m ELSE M!Idle
    BY DEF m
  <2> HIDE DEF l
  <2> QED  BY <1>2, <2>1, <2>2, <2>3
<1>12. \A d \in RunCaptures : v3'[d] = IF d = c THEN l ELSE v3[d]
  BY <1>2, <1>3
<1>13. v3' \in [RunCaptures -> Captured({"idle", "run", "factors"})]
  BY <1>2, <1>3, <1>11
<1>14. \A d \in RunCaptures \ {c} : v3[d].pc = "factors" =>
           /\ v3[d].run \in 1..Len(v1) /\ v3[d].run \notin v5 /\ v3[d].factors # <<>>
           /\ v2[v3[d].run] \o v3[d].factors = v4[v3[d].run]
           /\ v3[d].run # run /\ v3[d].run \in 1..MaxRuns
  <2>1. \A i \in 1..Len(v1) : i \in 1..MaxRuns
    BY MonitorTyped
  <2> QED  BY <1>1, <1>2, <2>1 DEF M!Underway, M!RunsApart
<1> HIDE DEF l, left, run
<1>15. M!Types'
  <2>1. v5' \subseteq 1..Len(v1)
    BY <1>2, <1>4, MonitorTyped
  <2> QED  BY <1>1, <1>2, <1>8, <1>13, <2>1 DEF M!Types, Captured
<1>16. M!Printed'
  BY <1>1, <1>11, <1>12 DEF M!Printed
<1>17. M!Underway'
  <2> SUFFICES ASSUME NEW d \in RunCaptures, v3'[d].pc = "factors"
      PROVE  /\ v3'[d].run \in 1..Len(v1) /\ v3'[d].run \notin v5'
             /\ v3'[d].factors # <<>>
             /\ v2'[v3'[d].run] \o v3'[d].factors = v4[v3'[d].run]
    BY <1>2 DEF M!Underway
  <2>1. CASE d = c
    <3>1. v3'[d] = l /\ Tail(left) # <<>>
      BY <1>11, <1>12, <2>1
    <3>2. v3'[d].run = run /\ v3'[d].factors = Tail(left) /\ v5' = v5
      BY <1>2, <1>11, <3>1
    <3> QED  BY <1>4, <1>9, <3>1, <3>2
  <2>2. CASE d # c
    <3>1. v3'[d] = v3[d] /\ v2'[v3[d].run] = v2[v3[d].run] /\ v3[d].run \notin v5'
      BY <1>2, <1>8, <1>12, <1>14, <2>2
    <3> QED  BY <1>14, <2>2, <3>1
  <2> QED  BY <2>1, <2>2
<1>18. M!RunsApart'
  <2>1. l.pc = "factors" => l.run = run
    BY <1>11
  <2>2. \A d \in RunCaptures \ {c} : v3[d].pc = "factors" => v3[d].run # run
    BY <1>14
  <2> QED  BY <1>1, <1>12, <2>1, <2>2 DEF M!RunsApart
<1>19. M!Stored'
  <2> SUFFICES ASSUME NEW i \in 1..MaxRuns
      PROVE  /\ i > Len(v1) => v2'[i] = <<>>
             /\ i <= Len(v1) => \E rest \in Seq(M!Factors) : v2'[i] \o rest = v4[i]
             /\ i \in v5' => v2'[i] = v4[i]
    BY <1>2 DEF M!Stored
  <2>1. CASE i = run
    <3>1. ~(i > Len(v1))
      BY <1>4, <2>1, MonitorTyped
    <3>2. i \in v5' => v2'[i] = v4[i]
      BY <1>2, <1>4, <1>10, <2>1
    <3> QED  BY <1>6, <1>9, <2>1, <3>1, <3>2
  <2>2. CASE i # run
    BY <1>1, <1>2, <1>8, <2>2 DEF M!Stored
  <2> QED  BY <2>1, <2>2
<1> QED  BY <1>15, <1>16, <1>17, <1>18, <1>19 DEF M!Inv

LEMMA MonitorStep == M!Inv /\ [M!Next]_(M!vars) => M!Inv'
<1>1. ASSUME M!Inv, M!Next PROVE M!Inv'
  <2>1. PICK c \in RunCaptures :
            M!Run(c) \/ M!InsertRun(c) \/ M!InsertFactor(c) \/ M!Die(c)
    BY <1>1 DEF M!Next
  <2>2. CASE M!Run(c)
    <3>1. PICK exits \in BOOLEAN, lines \in Outputs :
              v3' = [v3 EXCEPT ![c] = [pc |-> "run",
                                       status |-> M!Persisted(exits, lines).status,
                                       factors |-> M!Persisted(exits, lines).factors,
                                       run |-> 0]]
      BY <2>2 DEF M!Run
    <3> DEFINE result == M!Persisted(exits, lines)
               l == [pc |-> "run", status |-> result.status, factors |-> result.factors,
                     run |-> 0]
    <3>2. /\ result.status \in M!Statuses /\ result.factors \in Seq(M!Factors)
          /\ result.status = "success" <=> result.factors # <<>>
      BY PersistedFactors
    <3> HIDE DEF result
    <3>3. l \in Captured({"idle", "run"}) /\ l.status = result.status /\ l.pc = "run"
          /\ l.factors = result.factors
      BY <3>2, MonitorBounds DEF Captured
    <3>4. v3' = [v3 EXCEPT ![c] = l] /\ UNCHANGED <<v1, v2, v4, v5>>
      BY <2>2, <3>1 DEF M!Run, result
    <3> HIDE DEF l
    <3> QED  BY <1>1, <3>2, <3>3, <3>4, MonitorIdles
  <2>3. CASE M!Die(c)
    <3>1. M!Idle \in Captured({"idle", "run"}) /\ M!Idle.pc = "idle"
      BY EmptySeq, MonitorBounds DEF M!Idle, Captured
    <3> QED  BY <1>1, <2>3, <3>1, MonitorIdles DEF M!Die
  <2> QED  BY <1>1, <2>1, <2>2, <2>3, MonitorInsertsRun, MonitorInsertsFactor
<1>2. M!Inv /\ UNCHANGED M!vars => M!Inv'
  <2> SUFFICES ASSUME M!Inv, UNCHANGED M!vars PROVE M!Inv'
    OBVIOUS
  <2>1. M!Types'
    BY DEF M!Inv, M!Types, M!vars
  <2>2. M!Printed' /\ M!Underway' /\ M!RunsApart'
    BY DEF M!Inv, M!Printed, M!Underway, M!RunsApart, M!vars
  <2>3. M!Stored'
    BY DEF M!Inv, M!Stored, M!vars
  <2> QED  BY <2>1, <2>2, <2>3 DEF M!Inv
<1> QED  BY <1>1, <1>2

LEMMA MonitorKeeps == M!Inv => M!TypeOK /\ M!SnapshotOwn
<1> SUFFICES ASSUME M!Inv PROVE M!TypeOK /\ M!SnapshotOwn
  OBVIOUS
<1>1. M!Types /\ M!Stored
  BY DEF M!Inv
<1>2. Len(v1) \in Nat /\ DOMAIN v1 = 1..Len(v1)
  BY <1>1, LenProperties DEF M!Types
<1>3. M!TypeOK
  BY <1>1, <1>2 DEF M!Types, M!TypeOK
<1>4. ASSUME M!Response.available
      PROVE  LET snapshot == M!Response.snapshot IN
             /\ M!IsPrefix(snapshot.factors, v4[snapshot.run])
             /\ snapshot.run \in v5 => snapshot.factors = v4[snapshot.run]
  <2> DEFINE ids == {i \in DOMAIN v1 : v1[i] \in {"success"}}
             run == M!LatestRun({"success"})
  <2>1. run = IF ids = {} THEN None ELSE M!Max(ids)
    BY DEF M!LatestRun
  <2>2. /\ run # None
        /\ M!Response.snapshot.run = run /\ M!Response.snapshot.factors = v2[run]
    BY <1>4 DEF M!Response, M!FactorsOf
  <2>3. run \in ids
    <3>1. ids # {} /\ run = M!Max(ids)
      BY <2>1, <2>2
    <3>2. ids \subseteq 1..Len(v1)
      BY <1>2
    <3> HIDE DEF ids, run
    <3>3. Max(ids) \in ids
      BY <1>2, <3>1, <3>2, BoundedMax
    <3> QED  BY <3>1, <3>3 DEF Max, M!Max
  <2>4. run \in 1..Len(v1) /\ run \in 1..MaxRuns /\ run <= Len(v1)
    BY <1>2, <2>3, MonitorTyped
  <2> HIDE DEF run
  <2>5. PICK rest \in Seq(M!Factors) : v2[run] \o rest = v4[run]
    BY <1>1, <2>4 DEF M!Stored
  <2>6. v2[run] \in Seq(M!Factors) /\ v4[run] \in Seq(M!Factors)
    BY <2>4, MonitorTyped
  <2>7. M!IsPrefix(v2[run], v4[run])
    BY <2>5, <2>6, ConcatIsLonger DEF M!IsPrefix
  <2>8. run \in v5 => v2[run] = v4[run]
    BY <1>1, <2>4 DEF M!Stored
  <2> QED  BY <2>2, <2>7, <2>8
<1> QED  BY <1>3, <1>4 DEF M!SnapshotOwn

-----------------------------------------------------------------------------
(* The installers: v1 is file, v2 backup, v3 run, v4 result, v5 count, v6 torn. *)

LEMMA MaxCommandsNat == MaxCommands \in Nat
BY Instances DEF H!InstallersAssumption

\* Removing our entries keeps the others, in order, and leaves none of ours.
LEMMA HooksWithout ==
    ASSUME NEW root \in H!Contents
    PROVE  LET left == H!WithoutEntries(root)
           IN  /\ left \in H!Contents /\ \A i \in DOMAIN left.hooks : left.hooks[i].owner = "user"
               /\ left = [root EXCEPT !.hooks = left.hooks]
<1> DEFINE n == Len(root.hooks)
           Others == {e \in H!Entries : e.owner = "user"}
           Follows(f) == f = [k \in 0..n |->
                                IF k = 0 THEN <<>>
                                ELSE IF root.hooks[k].owner = "heimdall" THEN f[k - 1]
                                ELSE Append(f[k - 1], root.hooks[k])]
           step == [x \in Seq(Others) \X (1..n) |->
                      IF root.hooks[x[2]].owner = "heimdall" THEN x[1]
                      ELSE Append(x[1], root.hooks[x[2]])]
<1>1. root.hooks \in Seq(H!Entries) /\ n \in Nat /\ <<>> \in Seq(Others)
  BY LenProperties, EmptySeq DEF H!Contents
<1>2. \A k \in 1..n : root.hooks[k] \in H!Entries
  BY <1>1, ElementOfSeq
<1>3. ASSUME NEW p \in Seq(Others), NEW k \in 1..n
      PROVE  (IF root.hooks[k].owner = "heimdall" THEN p ELSE Append(p, root.hooks[k]))
             \in Seq(Others)
  <2>1. CASE root.hooks[k].owner # "heimdall"
    <3>1. root.hooks[k] \in Others
      BY <1>2, <2>1 DEF H!Entries
    <3> HIDE DEF Others
    <3> QED  BY <2>1, <3>1, AppendProperties
  <2> QED  BY <2>1
<1>4. \A p \in Seq(Others) : \A k \in 1..n :
        step[<<p, k>>] = IF root.hooks[k].owner = "heimdall" THEN p
                         ELSE Append(p, root.hooks[k])
  OBVIOUS
<1>5. \A p \in Seq(Others) : \A k \in 1..n : step[<<p, k>>] \in Seq(Others)
  BY <1>3, <1>4
<1> HIDE DEF step, n, Others
<1>a. PICK g : Iterates(g, n, Seq(Others), <<>>, step)
  BY <1>1, <1>5, Iteration
<1>6. /\ g \in [0..n -> Seq(Others)] /\ g[0] = <<>>
      /\ \A k \in 1..n : g[k] = step[<<g[k - 1], k>>]
  BY <1>a DEF Iterates
<1>7. Follows(g)
  <2>1. \A k \in 1..n : k - 1 \in 0..n
    BY <1>1
  <2>2. \A k \in 1..n : g[k - 1] \in Seq(Others)
    BY <1>6, <2>1
  <2>3. \A k \in 1..n : g[k] = IF root.hooks[k].owner = "heimdall" THEN g[k - 1]
                               ELSE Append(g[k - 1], root.hooks[k])
    BY <1>4, <1>6, <2>2
  <2>4. \A k \in 0..n : g[k] = IF k = 0 THEN <<>>
                               ELSE IF root.hooks[k].owner = "heimdall" THEN g[k - 1]
                               ELSE Append(g[k - 1], root.hooks[k])
    <3>1. \A k \in 0..n : k = 0 \/ k \in 1..n
      BY <1>1
    <3> QED  BY <1>6, <2>3, <3>1
  <2> QED  BY <1>6, <2>4
<1> DEFINE f == CHOOSE f : Follows(f)
<1>8. Follows(f)
  BY <1>7
<1>9. H!WithoutEntries(root) = [root EXCEPT !.hooks = f[n]]
  BY DEF H!WithoutEntries, n
<1> HIDE DEF f
<1>10. f[n] \in Seq(Others)
  <2>1. f[0] \in Seq(Others)
    BY <1>1, <1>8
  <2>2. ASSUME NEW k \in 1..n, f[k - 1] \in Seq(Others) PROVE f[k] \in Seq(Others)
    <3>1. k \in 0..n /\ k # 0
      BY <1>1
    <3>2. f[k] = IF root.hooks[k].owner = "heimdall" THEN f[k - 1]
                 ELSE Append(f[k - 1], root.hooks[k])
      BY <1>8, <3>1
    <3> QED  BY <1>3, <2>2, <3>2
  <2> QED  BY <1>1, <2>1, <2>2, KeptByIteration
<1>11. f[n] \in Seq(H!Entries) /\ \A i \in DOMAIN f[n] : f[n][i].owner = "user"
  <2>1. \A i \in 1..Len(f[n]) : f[n][i] \in Others
    BY <1>10, ElementOfSeq
  <2>2. DOMAIN f[n] = 1..Len(f[n])
    BY <1>10
  <2>3. Others \subseteq H!Entries
    BY DEF Others
  <2>4. Seq(Others) \subseteq Seq(H!Entries)
    BY <2>3
  <2> QED  BY <1>10, <2>1, <2>2, <2>4 DEF Others
<1>12. [root EXCEPT !.hooks = f[n]] \in H!Contents
       /\ [root EXCEPT !.hooks = f[n]].hooks = f[n]
  BY <1>11 DEF H!Contents
<1> QED  BY <1>9, <1>11, <1>12

\* What a command writes is a content with one entry of ours at most; an install
\* leaves one of its own build, and no command touches the user's rest.
LEMMA Written ==
    ASSUME NEW root \in H!Contents, H!Once(root), NEW op \in H!Ops, NEW build \in HookBuilds
    PROVE  LET new == H!Changed(op, root, build)
           IN  /\ new \in H!Contents /\ H!Once(new) /\ new.rest = root.rest
               /\ op = "install hook" => H!Ours(build) \in H!Range(new.hooks)
<1> DEFINE left == H!WithoutEntries(root)
           new == H!Changed(op, root, build)
<1>1. /\ left \in H!Contents /\ \A i \in DOMAIN left.hooks : left.hooks[i].owner = "user"
      /\ left = [root EXCEPT !.hooks = left.hooks]
  BY HooksWithout
<1> HIDE DEF left
<1>2. H!Once(left) /\ left.rest = root.rest
  BY <1>1 DEF H!Once, H!Contents
<1>3. CASE op = "install hook"
  <2> DEFINE hooks == Append(left.hooks, H!Ours(build))
  <2>1. H!Ours(build) \in H!Entries /\ left.hooks \in Seq(H!Entries)
    BY <1>1 DEF H!Ours, H!Entries, H!Contents
  <2>2. /\ hooks \in Seq(H!Entries) /\ Len(hooks) = Len(left.hooks) + 1
        /\ hooks[Len(hooks)] = H!Ours(build) /\ DOMAIN hooks = 1..Len(hooks)
        /\ \A i \in 1..Len(left.hooks) : hooks[i] = left.hooks[i]
        /\ DOMAIN left.hooks = 1..Len(left.hooks) /\ Len(left.hooks) \in Nat
    BY <2>1, AppendProperties, LenProperties
  <2> HIDE DEF hooks
  <2>3. new = [left EXCEPT !.hooks = hooks, !.exists = TRUE]
    BY <1>3 DEF H!Changed, H!InstallHook, hooks, left
  <2> HIDE DEF new
  <2>4. new \in H!Contents /\ new.hooks = hooks /\ new.rest = left.rest
    BY <1>1, <2>2, <2>3 DEF H!Contents
  <2>5. \A i \in DOMAIN hooks : hooks[i].owner = "heimdall" => i = Len(hooks)
    BY <1>1, <2>2
  <2>6. H!Once(new)
    BY <2>4, <2>5 DEF H!Once
  <2>7. Len(hooks) \in DOMAIN hooks
    BY <2>2
  <2>8. H!Ours(build) \in H!Range(hooks)
    BY <2>2, <2>7 DEF H!Range
  <2> QED  BY <1>2, <2>4, <2>6, <2>8 DEF new
<1>4. CASE op = "uninstall hook"
  BY <1>1, <1>2, <1>4 DEF H!Changed, left
<1>5. CASE op \notin {"install hook", "uninstall hook"}
  <2>1. new \in {H!InstallLine(root), H!UninstallLine(root), H!InstallServer(root),
                 H!UninstallServer(root)}
    BY <1>5 DEF H!Changed, H!Ops
  <2> HIDE DEF new
  <2>2. new \in H!Contents /\ new.hooks = root.hooks /\ new.rest = root.rest
    BY <2>1 DEF H!InstallLine, H!UninstallLine, H!InstallServer, H!UninstallServer,
                H!Contents
  <2> QED  BY <1>5, <2>2 DEF H!Once, new
<1> QED  BY <1>3, <1>4, <1>5

LEMMA ShapesOfFiles ==
    /\ H!Absent \in H!Contents /\ H!Empty \in H!Contents
    /\ H!Once(H!Absent) /\ H!Once(H!Empty) /\ H!Empty.server = "none"
    /\ \A f \in H!Files : f = "settings" \/ f = "mcp"
    /\ \A op \in H!Ops : H!FileOf(op) \in H!Files
<1>1. <<>> \in Seq(H!Entries) /\ DOMAIN <<>> = {}
  BY EmptySeq
<1> QED  BY <1>1 DEF H!Absent, H!Empty, H!Content, H!Contents, H!Once, H!Files, H!FileOf

LEMMA InstallersInit == H!Init => H!Inv
<1> SUFFICES ASSUME H!Init PROVE H!Inv
  OBVIOUS
<1> DEFINE c == H!Content(TRUE, <<>>, "none", FALSE, "none", TRUE)
<1>1. c \in H!Contents /\ H!Once(c) /\ c.rest
  <2>1. <<>> \in Seq(H!Entries) /\ DOMAIN <<>> = {}
    BY EmptySeq
  <2> QED  BY <2>1 DEF H!Content, H!Contents, H!Once
<1>2. \A f \in H!Files : v1[f] = c
  BY DEF H!Init
<1>3. /\ v1 = [f \in H!Files |-> c]
      /\ v2 = [f \in H!Files |-> H!Absent] /\ v6 = [f \in H!Files |-> 0]
      /\ v3 = H!Idle /\ v3.pc = "idle" /\ v4.what = "none" /\ v5 = 0
  BY DEF H!Init, H!Idle, H!Nothing
<1> HIDE DEF c
<1>4. H!Types
  BY <1>1, <1>3, ShapesOfFiles, MaxCommandsNat DEF H!Types
<1>5. H!Counted /\ H!Reads
  BY <1>3 DEF H!Counted, H!Reads
<1>6. H!OneEntry
  BY <1>1, <1>2, <1>3 DEF H!OneEntry
<1>7. H!RestKept /\ H!CopyKept
  <2>1. "mcp" \in H!Files
    BY DEF H!Files
  <2> QED  BY <1>1, <1>2, <1>3, <2>1 DEF H!RestKept, H!CopyKept, H!Over
<1> QED  BY <1>4, <1>5, <1>6, <1>7 DEF H!Inv

\* The parts of the invariant at hand.
LEMMA InstallersTyped ==
    ASSUME H!Inv
    PROVE  /\ H!Types /\ H!Counted /\ H!Reads /\ H!OneEntry /\ H!RestKept /\ H!CopyKept
           /\ \A f \in H!Files : v1[f] \in H!Contents /\ v2[f] \in H!Contents /\ v6[f] \in Nat
           /\ v5 \in Nat /\ v5 <= MaxCommands /\ MaxCommands \in Nat
           /\ "settings" \in H!Files /\ "mcp" \in H!Files
           /\ v3.pc # "idle" => v3.file \in H!Files /\ v3.root \in H!Contents /\ v3.op \in H!Ops
                                /\ v3.build \in HookBuilds
<1>1. H!Types /\ MaxCommands \in Nat
  BY MaxCommandsNat DEF H!Inv
<1>2. H!Counted /\ H!Reads /\ H!OneEntry /\ H!RestKept /\ H!CopyKept
  BY DEF H!Inv
<1>3. \A f \in H!Files : v1[f] \in H!Contents /\ v2[f] \in H!Contents /\ v6[f] \in Nat
  BY <1>1 DEF H!Types
<1>4. v5 \in Nat /\ v5 <= MaxCommands
  <2>1. v5 \in 0..MaxCommands
    BY <1>1 DEF H!Types
  <2> QED  BY <1>1, <2>1
<1>5. v3.pc # "idle" => v3.file \in H!Files /\ v3.root \in H!Contents /\ v3.op \in H!Ops
                        /\ v3.build \in HookBuilds
  BY <1>1 DEF H!Types
<1>6. "settings" \in H!Files /\ "mcp" \in H!Files
  BY DEF H!Files
<1> QED  BY <1>1, <1>2, <1>3, <1>4, <1>5, <1>6

\* What the user does between commands.
LEMMA UserEdits ==
    ASSUME H!Inv, H!Customize \/ \E hook \in UserHooks : H!AddHook(hook)
    PROVE  H!Inv'
<1>0. /\ H!Types /\ H!Counted /\ H!Reads /\ H!OneEntry /\ H!RestKept /\ H!CopyKept
      /\ \A f \in H!Files : v1[f] \in H!Contents /\ v6[f] \in Nat
      /\ "settings" \in H!Files /\ "mcp" \in H!Files
  BY InstallersTyped
<1>1. PICK f \in H!Files, c \in H!Contents :
        /\ v1' = [v1 EXCEPT ![f] = c] /\ H!Once(c) /\ c.rest = v1[f].rest
        /\ H!Range(v1[f].hooks) \subseteq H!Range(c.hooks)
        /\ f = "mcp" => c.server = "user"
        /\ v3.pc = "idle" /\ UNCHANGED <<v2, v3, v4, v5, v6>>
  <2>1. ASSUME NEW hook \in UserHooks, H!AddHook(hook)
        PROVE  \E c \in H!Contents :
                 /\ v1' = [v1 EXCEPT !["settings"] = c] /\ H!Once(c)
                 /\ c.rest = v1["settings"].rest
                 /\ H!Range(v1["settings"].hooks) \subseteq H!Range(c.hooks)
    <3> DEFINE old == v1["settings"].hooks
               hooks == Append(old, H!Theirs(hook))
               c == [v1["settings"] EXCEPT !.hooks = hooks]
    <3>1. old \in Seq(H!Entries) /\ H!Theirs(hook) \in H!Entries
      BY <1>0 DEF H!Contents, H!Theirs, H!Entries
    <3>2. H!Theirs(hook).owner = "user"
      BY DEF H!Theirs
    <3> HIDE DEF old
    <3>3. /\ hooks \in Seq(H!Entries) /\ Len(hooks) = Len(old) + 1 /\ Len(old) \in Nat
          /\ DOMAIN hooks = 1..Len(hooks) /\ DOMAIN old = 1..Len(old)
          /\ \A i \in 1..Len(old) : hooks[i] = old[i]
          /\ hooks[Len(hooks)] = H!Theirs(hook)
      BY <3>1, AppendProperties, LenProperties
    <3> HIDE DEF hooks
    <3>4. c \in H!Contents /\ c.hooks = hooks /\ c.rest = v1["settings"].rest
      BY <1>0, <3>3 DEF H!Contents
    <3>5. v1' = [v1 EXCEPT !["settings"] = c]
      BY <2>1 DEF H!AddHook, hooks, old
    <3>6. \A i, j \in DOMAIN old : old[i].owner = "heimdall" /\ old[j].owner = "heimdall" => i = j
      BY <1>0 DEF H!OneEntry, H!Once, old
    <3>7. \A i \in DOMAIN hooks : hooks[i].owner = "heimdall" =>
             i \in DOMAIN old /\ hooks[i] = old[i]
      BY <3>2, <3>3
    <3>8. H!Once(c)
      BY <3>4, <3>6, <3>7 DEF H!Once
    <3>9. H!Range(old) \subseteq H!Range(hooks)
      BY <3>3 DEF H!Range
    <3> QED  BY <3>4, <3>5, <3>8, <3>9 DEF old
  <2>2. ASSUME H!Customize
        PROVE  \E c \in H!Contents :
                 /\ v1' = [v1 EXCEPT !["mcp"] = c] /\ H!Once(c) /\ c.rest = v1["mcp"].rest
                 /\ c.hooks = v1["mcp"].hooks /\ c.server = "user"
    <3> DEFINE c == [v1["mcp"] EXCEPT !.server = "user", !.exists = TRUE]
    <3>1. /\ c \in H!Contents /\ c.hooks = v1["mcp"].hooks /\ c.rest = v1["mcp"].rest
          /\ c.server = "user"
      BY <1>0 DEF H!Contents
    <3>2. H!Once(c)
      BY <1>0, <3>1 DEF H!OneEntry, H!Once
    <3>3. v1' = [v1 EXCEPT !["mcp"] = c]
      BY <2>2 DEF H!Customize
    <3> QED  BY <3>1, <3>2, <3>3
  <2> QED  BY <1>0, <2>1, <2>2 DEF H!Customize, H!AddHook
<1>2. \A g \in H!Files : v1'[g] = IF g = f THEN c ELSE v1[g]
  BY <1>0, <1>1 DEF H!Types
<1>3. H!Types'
  BY <1>0, <1>1 DEF H!Types
<1>4. H!Counted' /\ H!Reads'
  BY <1>0, <1>1 DEF H!Counted, H!Reads
<1>5. H!OneEntry'
  BY <1>0, <1>1, <1>2 DEF H!OneEntry
<1>6. H!RestKept'
  BY <1>0, <1>1, <1>2 DEF H!RestKept, H!Over
<1>7. H!CopyKept'
  BY <1>0, <1>1, <1>2 DEF H!CopyKept, H!Over
<1> QED  BY <1>3, <1>4, <1>5, <1>6, <1>7 DEF H!Inv

\* A command reads the file, and starts unless there is nothing for it to do.
LEMMA CommandBegins ==
    ASSUME H!Inv, NEW op \in H!Ops, NEW build \in HookBuilds, H!Begin(op, build)
    PROVE  H!Inv'
<1> DEFINE f == H!FileOf(op)
           verdict == H!Verdict(op, v1[f])
           new == [pc |-> "backup", op |-> op, file |-> f, build |-> build, root |-> v1[f]]
<1>0. /\ H!Types /\ H!Counted /\ H!Reads /\ H!OneEntry /\ H!RestKept /\ H!CopyKept
      /\ \A g \in H!Files : v1[g] \in H!Contents /\ v6[g] \in Nat
      /\ v5 \in Nat /\ v5 <= MaxCommands /\ MaxCommands \in Nat
  BY InstallersTyped
<1>1. f \in H!Files
  BY ShapesOfFiles
<1>2. /\ v3.pc = "idle" /\ v5 < MaxCommands /\ v5' = v5 + 1 /\ UNCHANGED <<v1, v2, v6>>
      /\ IF verdict = "write" THEN v3' = new /\ v4' = H!Nothing("none")
         ELSE v4' = H!Nothing(verdict) /\ v3' = v3
  BY DEF H!Begin
<1>3. /\ verdict \in {"write", "nothing", "refused"}
      /\ verdict = "write" /\ f = "mcp" => v1[f].server # "user"
      /\ op = "install server" => f = "mcp"
  <2>1. v1[f].server \in {"none", "ours", "user"}
    BY <1>0, <1>1 DEF H!Contents
  <2> QED  BY <2>1 DEF H!Verdict, H!Ops, H!FileOf
<1>4. v4'.what \in {"none", "nothing", "refused"}
  <2>1. \A what : H!Nothing(what).what = what
    BY DEF H!Nothing
  <2> HIDE DEF f, verdict, new
  <2> QED  BY <1>2, <1>3, <2>1
<1>5. new \in [pc : {"backup", "empty", "write"}, op : H!Ops, file : H!Files,
               build : HookBuilds, root : H!Contents]
  BY <1>0, <1>1
<1> HIDE DEF f, verdict
<1>6. CASE verdict = "write"
  <2>1. /\ v3' = new /\ v3'.pc = "backup" /\ v3'.file = f /\ v3'.root = v1[f]
        /\ v3'.op = op /\ v4'.what = "none"
    BY <1>2, <1>6 DEF H!Nothing
  <2>2. H!Types'
    <3>1. v5' \in 0..MaxCommands
      BY <1>0, <1>2
    <3>2. v3'.op = "install server" => v3'.root.server # "user"
      BY <1>3, <1>6, <2>1
    <3>3. v3'.file = H!FileOf(v3'.op)
      BY <2>1 DEF f
    <3> HIDE DEF new
    <3> QED  BY <1>0, <1>2, <1>5, <2>1, <3>1, <3>2, <3>3 DEF H!Types
  <2>3. H!Counted'
    BY <1>0, <1>1, <1>2, <2>1 DEF H!Counted
  <2>4. H!Reads'
    BY <1>2, <2>1 DEF H!Reads
  <2>5. H!OneEntry'
    BY <1>0, <1>1, <1>2, <2>1 DEF H!OneEntry
  <2>6. H!RestKept'
    BY <1>0, <1>1, <1>2, <2>1 DEF H!RestKept, H!Over
  <2>7. H!CopyKept'
    BY <1>0, <1>1, <1>2, <1>3, <1>6, <2>1 DEF H!CopyKept, H!Over
  <2> QED  BY <2>2, <2>3, <2>4, <2>5, <2>6, <2>7 DEF H!Inv
<1>7. CASE verdict # "write"
  <2>1. v3' = v3 /\ v4'.what # "install hook"
    BY <1>2, <1>4, <1>7
  <2>2. H!Types' /\ H!Counted'
    <3>1. v5' \in 0..MaxCommands
      BY <1>0, <1>2
    <3>2. v5' >= v5 /\ v5' > 0
      BY <1>0, <1>2
    <3>3. H!Types'
      BY <1>0, <1>2, <2>1, <3>1 DEF H!Types
    <3>4. \A g \in H!Files : v6'[g] <= v5'
      BY <1>0, <1>2, <3>2 DEF H!Counted
    <3> QED  BY <1>0, <1>2, <2>1, <3>2, <3>3, <3>4 DEF H!Counted
  <2>3. H!Reads' /\ H!OneEntry' /\ H!RestKept' /\ H!CopyKept'
    BY <1>0, <1>2, <2>1 DEF H!Reads, H!OneEntry, H!RestKept, H!CopyKept, H!Over
  <2> QED  BY <2>2, <2>3 DEF H!Inv
<1> QED  BY <1>6, <1>7

\* A later step of a command: what it has in hand but for where it stands.
LEMMA CommandGoesOn ==
    ASSUME H!Inv, v3.pc # "idle", NEW pc \in {"empty", "write"},
           v3' = [v3 EXCEPT !.pc = pc]
    PROVE  /\ v3'.pc = pc /\ v3'.op = v3.op /\ v3'.file = v3.file /\ v3'.build = v3.build
           /\ v3'.root = v3.root
           /\ v3' \in [pc : {"backup", "empty", "write"}, op : H!Ops, file : H!Files,
                       build : HookBuilds, root : H!Contents]
           /\ v3.file = H!FileOf(v3.op)
           /\ v3.op = "install server" => v3.root.server # "user"
BY InstallersTyped DEF H!Types

LEMMA CommandCopies ==
    ASSUME H!Inv, H!Backup
    PROVE  H!Inv'
<1>0. /\ H!Types /\ H!Counted /\ H!Reads /\ H!OneEntry /\ H!RestKept /\ H!CopyKept
      /\ \A g \in H!Files : v1[g] \in H!Contents /\ v2[g] \in H!Contents /\ v6[g] \in Nat
      /\ v5 \in Nat
      /\ "settings" \in H!Files /\ "mcp" \in H!Files
      /\ v3.file \in H!Files /\ v3.root \in H!Contents
  BY InstallersTyped DEF H!Backup
<1>1. /\ v3.pc = "backup" /\ v3' = [v3 EXCEPT !.pc = "empty"] /\ UNCHANGED <<v1, v4, v5>>
      /\ v3'.pc = "empty" /\ v3'.op = v3.op /\ v3'.file = v3.file /\ v3'.root = v3.root
  BY CommandGoesOn DEF H!Backup
<1> DEFINE copy == [v3.root EXCEPT !.exists = TRUE]
<1>2. copy \in H!Contents /\ copy.rest = v3.root.rest
  BY <1>0 DEF H!Contents
<1>3. v2' = IF v3.file = "settings" \/ v1["mcp"] \notin {H!Absent, H!Empty}
            THEN [v2 EXCEPT ![v3.file] = copy] ELSE v2
  BY DEF H!Backup
<1> HIDE DEF copy
<1>4. v6' = IF v6[v3.file] = 0 THEN v6 ELSE [v6 EXCEPT ![v3.file] = @ + 1]
  BY DEF H!Backup, H!Since
<1>5. /\ v6' \in [H!Files -> Nat] /\ v2' \in [H!Files -> H!Contents]
      /\ \A g \in H!Files : g # v3.file => v6'[g] = v6[g] /\ v2'[g] = v2[g]
      /\ v6'[v3.file] = IF v6[v3.file] = 0 THEN 0 ELSE v6[v3.file] + 1
      /\ v2'[v3.file] = IF v3.file = "settings" \/ v1["mcp"] \notin {H!Absent, H!Empty}
                        THEN copy ELSE v2[v3.file]
  <2>1. v6 \in [H!Files -> Nat] /\ v2 \in [H!Files -> H!Contents]
    BY <1>0 DEF H!Types
  <2>2. v6[v3.file] \in Nat /\ v6[v3.file] + 1 \in Nat
    BY <1>0
  <2> QED  BY <1>0, <1>2, <1>3, <1>4, <2>1, <2>2
<1>6. v3.root = v1[v3.file] /\ v4.what = "none"
  BY <1>0, <1>1 DEF H!Reads
<1>7. H!Types'
  <2>1. /\ v3' \in [pc : {"backup", "empty", "write"}, op : H!Ops, file : H!Files,
                    build : HookBuilds, root : H!Contents]
        /\ v3.file = H!FileOf(v3.op)
        /\ v3.op = "install server" => v3.root.server # "user"
    BY <1>1, CommandGoesOn
  <2> QED  BY <1>0, <1>1, <1>5, <2>1 DEF H!Types
<1>8. H!Counted'
  <2>1. v6[v3.file] < v5
    BY <1>0, <1>1 DEF H!Counted
  <2>2. \A g \in H!Files : v6'[g] <= v5
    BY <1>0, <1>5, <2>1 DEF H!Counted
  <2> QED  BY <1>0, <1>1, <2>2 DEF H!Counted
<1>9. H!Reads' /\ H!OneEntry'
  BY <1>0, <1>1, <1>6 DEF H!Reads, H!OneEntry
<1>10. H!Absent.rest = FALSE /\ H!Empty.rest = FALSE
  BY DEF H!Absent, H!Empty, H!Content
<1>11. H!RestKept'
  <2>1. \A g \in H!Files : v6'[g] = 0 => v6[g] = 0
    BY <1>0, <1>5
  <2>2. \A g \in H!Files : v6[g] = 0 => v1[g].rest /\ (v3.file = g => v3.root.rest)
    BY <1>0, <1>1 DEF H!RestKept, H!Over
  <2>3. ASSUME v6'["mcp"] = 0, v3.file = "mcp" PROVE v2'["mcp"].rest
    <3>1. v1["mcp"].rest /\ v3.root.rest
      BY <1>0, <2>1, <2>2, <2>3
    <3> QED  BY <1>2, <1>5, <1>10, <2>3, <3>1
  <2> QED  BY <1>1, <2>1, <2>2, <2>3 DEF H!RestKept, H!Over
<1>12. H!CopyKept'
  <2>1. CASE v3.file = "mcp"
    <3>1. v6'["mcp"] # 1
      BY <1>0, <1>5, <2>1
    <3>2. ASSUME v6'["mcp"] = 2 PROVE v2'["mcp"].rest
      <4>1. v6["mcp"] = 1
        BY <1>0, <1>5, <2>1, <3>2
      <4>2. v2["mcp"].rest /\ v1["mcp"] = H!Empty
        BY <1>0, <1>1, <1>6, <2>1, <4>1 DEF H!CopyKept
      <4> QED  BY <1>5, <2>1, <4>2
    <3>3. v3'.root.server # "user"
      BY <1>0, <1>1, <2>1 DEF H!CopyKept
    <3> QED  BY <3>1, <3>2, <3>3 DEF H!CopyKept
  <2>2. CASE v3.file # "mcp"
    BY <1>0, <1>1, <1>5, <2>2 DEF H!CopyKept, H!Over
  <2> QED  BY <2>1, <2>2
<1> QED  BY <1>7, <1>8, <1>9, <1>11, <1>12 DEF H!Inv

LEMMA CommandEmpties ==
    ASSUME H!Inv, H!CreateFile
    PROVE  H!Inv'
<1>0. /\ H!Types /\ H!Counted /\ H!Reads /\ H!OneEntry /\ H!RestKept /\ H!CopyKept
      /\ \A g \in H!Files : v1[g] \in H!Contents /\ v2[g] \in H!Contents /\ v6[g] \in Nat
      /\ "settings" \in H!Files /\ "mcp" \in H!Files
      /\ v3.file \in H!Files /\ v3.root \in H!Contents
  BY InstallersTyped DEF H!CreateFile
<1>1. /\ v3.pc = "empty" /\ v3' = [v3 EXCEPT !.pc = "write"] /\ UNCHANGED <<v2, v4, v5, v6>>
      /\ v3'.pc = "write" /\ v3'.op = v3.op /\ v3'.file = v3.file /\ v3'.root = v3.root
      /\ v1' = [v1 EXCEPT ![v3.file] = H!Empty]
  BY CommandGoesOn DEF H!CreateFile
<1>2. /\ v1' \in [H!Files -> H!Contents]
      /\ \A g \in H!Files : v1'[g] = IF g = v3.file THEN H!Empty ELSE v1[g]
  BY <1>0, <1>1, ShapesOfFiles DEF H!Types
<1>3. H!Types'
  <2>1. /\ v3' \in [pc : {"backup", "empty", "write"}, op : H!Ops, file : H!Files,
                    build : HookBuilds, root : H!Contents]
        /\ v3.file = H!FileOf(v3.op)
        /\ v3.op = "install server" => v3.root.server # "user"
    BY <1>1, CommandGoesOn
  <2> QED  BY <1>0, <1>1, <1>2, <2>1 DEF H!Types
<1>4. H!Counted'
  BY <1>0, <1>1 DEF H!Counted
<1>5. v4.what = "none"
  BY <1>0, <1>1 DEF H!Reads
<1>6. H!Reads'
  BY <1>0, <1>1, <1>2, <1>5 DEF H!Reads
<1>7. H!OneEntry'
  BY <1>0, <1>1, <1>2, <1>5, ShapesOfFiles DEF H!OneEntry
<1>8. H!RestKept'
  BY <1>0, <1>1, <1>2 DEF H!RestKept, H!Over
<1>9. H!CopyKept'
  BY <1>0, <1>1, <1>2 DEF H!CopyKept, H!Over
<1> QED  BY <1>3, <1>4, <1>6, <1>7, <1>8, <1>9 DEF H!Inv

LEMMA CommandWrites ==
    ASSUME H!Inv, H!WriteFile
    PROVE  H!Inv'
<1> DEFINE new == H!Changed(v3.op, v3.root, v3.build)
<1>0. /\ H!Types /\ H!Counted /\ H!Reads /\ H!OneEntry /\ H!RestKept /\ H!CopyKept
      /\ \A g \in H!Files : v1[g] \in H!Contents /\ v2[g] \in H!Contents /\ v6[g] \in Nat
      /\ "settings" \in H!Files /\ "mcp" \in H!Files
      /\ v3.file \in H!Files /\ v3.root \in H!Contents /\ v3.op \in H!Ops
      /\ v3.build \in HookBuilds
  BY InstallersTyped DEF H!WriteFile
<1>1. /\ v3.pc = "write" /\ v3' = H!Idle /\ v3'.pc = "idle" /\ UNCHANGED <<v2, v5, v6>>
      /\ v1' = [v1 EXCEPT ![v3.file] = new]
      /\ v4' = [what |-> v3.op, build |-> v3.build]
  BY DEF H!WriteFile, H!Idle
<1>2. H!Once(v3.root)
  BY <1>0, <1>1 DEF H!OneEntry
<1>3. /\ new \in H!Contents /\ H!Once(new) /\ new.rest = v3.root.rest
      /\ v3.op = "install hook" => H!Ours(v3.build) \in H!Range(new.hooks)
  BY <1>0, <1>2, Written
<1> HIDE DEF new
<1>4. /\ v1' \in [H!Files -> H!Contents]
      /\ \A g \in H!Files : v1'[g] = IF g = v3.file THEN new ELSE v1[g]
  BY <1>0, <1>1, <1>3 DEF H!Types
<1>5. H!Types'
  BY <1>0, <1>1, <1>4 DEF H!Types
<1>6. H!Counted' /\ H!Reads'
  BY <1>0, <1>1 DEF H!Counted, H!Reads
<1>7. H!OneEntry'
  <2>1. v4'.what = v3.op /\ v4'.build = v3.build
    BY <1>1
  <2>2. v3.op = "install hook" => v3.file = "settings"
    BY <1>0, <1>1 DEF H!Types, H!FileOf
  <2>3. \A g \in H!Files : H!Once(v1'[g])
    BY <1>0, <1>3, <1>4 DEF H!OneEntry
  <2>4. v4'.what = "install hook" => H!Ours(v4'.build) \in H!Range(v1'["settings"].hooks)
    BY <1>0, <1>3, <1>4, <2>1, <2>2
  <2> QED  BY <1>1, <2>3, <2>4 DEF H!OneEntry
<1>8. H!RestKept'
  BY <1>0, <1>1, <1>3, <1>4 DEF H!RestKept, H!Over
<1>9. H!CopyKept'
  BY <1>0, <1>1, <1>4 DEF H!CopyKept, H!Over
<1> QED  BY <1>5, <1>6, <1>7, <1>8, <1>9 DEF H!Inv

LEMMA CommandDies ==
    ASSUME H!Inv, H!Die
    PROVE  H!Inv'
<1>0. /\ H!Types /\ H!Counted /\ H!Reads /\ H!OneEntry /\ H!RestKept /\ H!CopyKept
      /\ \A g \in H!Files : v1[g] \in H!Contents /\ v2[g] \in H!Contents /\ v6[g] \in Nat
      /\ v5 \in Nat
      /\ "settings" \in H!Files /\ "mcp" \in H!Files
      /\ v3.file \in H!Files
  BY InstallersTyped DEF H!Die
<1>1. /\ v3.pc # "idle" /\ v3' = H!Idle /\ v3'.pc = "idle" /\ UNCHANGED <<v1, v2, v4, v5>>
      /\ v6' = IF v3.pc = "write" /\ v6[v3.file] = 0 THEN [v6 EXCEPT ![v3.file] = 1] ELSE v6
  BY DEF H!Die, H!Idle
<1>2. /\ v6' \in [H!Files -> Nat]
      /\ \A g \in H!Files : v6'[g] = IF g = v3.file /\ v3.pc = "write" /\ v6[g] = 0 THEN 1
                                     ELSE v6[g]
  BY <1>0, <1>1 DEF H!Types
<1>3. H!Types'
  BY <1>0, <1>1, <1>2 DEF H!Types
<1>4. H!Counted'
  <2>1. v5 >= 1
    BY <1>0, <1>1 DEF H!Counted
  <2> QED  BY <1>0, <1>1, <1>2, <2>1 DEF H!Counted
<1>5. H!Reads' /\ H!OneEntry'
  BY <1>0, <1>1 DEF H!Reads, H!OneEntry
<1>6. H!RestKept'
  BY <1>0, <1>1, <1>2 DEF H!RestKept, H!Over
<1>7. H!CopyKept'
  <2>1. CASE v3.file = "mcp" /\ v3.pc = "write" /\ v6["mcp"] = 0
    <3>1. v2["mcp"].rest
      BY <1>0, <2>1 DEF H!RestKept, H!Over
    <3>2. v1["mcp"] = H!Empty
      BY <1>0, <2>1 DEF H!Reads
    <3> QED  BY <1>1, <3>1, <3>2 DEF H!CopyKept, H!Over
  <2>2. CASE ~(v3.file = "mcp" /\ v3.pc = "write" /\ v6["mcp"] = 0)
    <3>1. v6'["mcp"] = v6["mcp"]
      BY <1>0, <1>2, <2>2
    <3> QED  BY <1>0, <1>1, <3>1 DEF H!CopyKept, H!Over
  <2> QED  BY <2>1, <2>2
<1> QED  BY <1>3, <1>4, <1>5, <1>6, <1>7 DEF H!Inv

LEMMA InstallersStep == H!Inv /\ [H!Next]_(H!vars) => H!Inv'
<1>1. H!Inv /\ H!Next => H!Inv'
  BY UserEdits, CommandBegins, CommandCopies, CommandEmpties, CommandWrites, CommandDies
     DEF H!Next
<1>2. H!Inv /\ UNCHANGED H!vars => H!Inv'
  BY DEF H!Inv, H!Types, H!Counted, H!Reads, H!OneEntry, H!RestKept, H!CopyKept, H!Over,
         H!vars
<1> QED  BY <1>1, <1>2

LEMMA InstallersKeep == H!Inv => H!TypeOK /\ H!InstallsSafe
<1> SUFFICES ASSUME H!Inv PROVE H!TypeOK /\ H!InstallsSafe
  OBVIOUS
<1>0. /\ H!Types /\ H!Counted /\ H!Reads /\ H!OneEntry /\ H!RestKept /\ H!CopyKept
      /\ \A g \in H!Files : v1[g] \in H!Contents /\ v6[g] \in Nat
      /\ v5 \in Nat /\ v5 <= MaxCommands /\ MaxCommands \in Nat
      /\ "settings" \in H!Files /\ "mcp" \in H!Files
  BY InstallersTyped
<1>1. H!TypeOK
  <2>1. \A g \in H!Files : v1[g].line \in {"none", "ours"}
                           /\ v1[g].server \in {"none", "ours", "user"}
    BY <1>0 DEF H!Contents
  <2>2. \A g \in H!Files : v6[g] \in 0..MaxCommands
    BY <1>0 DEF H!Counted
  <2> QED  BY <1>0, <2>1, <2>2 DEF H!Types, H!TypeOK
<1>2. H!EntryOnce
  BY <1>0 DEF H!OneEntry, H!EntryOnce
<1>3. H!ServersKept
  <2> SUFFICES ASSUME v6["mcp"] <= 2 PROVE v1["mcp"].rest \/ v2["mcp"].rest
    BY DEF H!ServersKept
  <2>1. v6["mcp"] \in {0, 1, 2}
    BY <1>0
  <2>2. CASE v6["mcp"] = 0
    BY <1>0, <2>2 DEF H!RestKept, H!Over
  <2>3. CASE v6["mcp"] \in {1, 2}
    BY <1>0, <2>3 DEF H!CopyKept
  <2> QED  BY <2>1, <2>2, <2>3
<1>4. H!SettingsKept
  <2>1. v3.op = "install server" => v3.root.server # "user"
    <3>1. CASE v3.pc = "idle"
      <4>1. v3 = H!Idle
        BY <1>0, <3>1 DEF H!Types
      <4> QED  BY <4>1 DEF H!Idle
    <3>2. CASE v3.pc # "idle"
      BY <1>0, <3>2 DEF H!Types
    <3> QED  BY <3>1, <3>2
  <2> QED  BY <1>0, <2>1 DEF H!RestKept, H!Over, H!SettingsKept
<1> QED  BY <1>1, <1>2, <1>3, <1>4 DEF H!InstallsSafe

-----------------------------------------------------------------------------
(* The scheduled jobs: v1 is os, v2 crontab, v3 plist, v4 loaded, v5 run,       *)
(* v6 sound, v7 count and v8 astray.                                            *)

LEMMA CrontabLines ==
    /\ \A line \in J!Lines :
         /\ line.kind \in {"tag", "command", "blank", "user"}
         /\ line.kind = "tag" => line.of \in J!Labels /\ line = J!Tag(line.of)
    /\ \A job \in J!Labels : J!Tag(job) \in J!Lines /\ J!Tag(job).kind = "tag"
                             /\ J!Tag(job).of = job
    /\ \A job \in J!Labels : \A build \in JobBuilds :
         /\ J!Command(job, build) \in J!Lines /\ J!Command(job, build).kind = "command"
         /\ J!Command(job, build).of = job /\ J!Command(job, build).build = build
    /\ J!Blank \in J!Lines /\ J!Blank.kind = "blank"
    /\ \A line \in UserLines : J!UserLine(line) \in J!Lines /\ J!UserLine(line).kind = "user"
<1>1. ASSUME NEW line \in J!Lines
      PROVE  /\ line.kind \in {"tag", "command", "blank", "user"}
             /\ line.kind = "tag" => line.of \in J!Labels /\ line = J!Tag(line.of)
  <2>1. CASE \E job \in J!Labels : line = J!Tag(job)
    BY <2>1 DEF J!Tag, J!Line
  <2>2. CASE \E job \in J!Labels, build \in JobBuilds : line = J!Command(job, build)
    BY <2>2 DEF J!Command, J!Line
  <2>3. CASE line = J!Blank \/ \E text \in UserLines : line = J!UserLine(text)
    BY <2>3 DEF J!Blank, J!UserLine, J!Line
  <2> QED  BY <2>1, <2>2, <2>3 DEF J!Lines
<1>2. \A job \in J!Labels : J!Tag(job) \in J!Lines
  BY DEF J!Lines
<1>3. \A job \in J!Labels : \A build \in JobBuilds : J!Command(job, build) \in J!Lines
  BY DEF J!Lines
<1>4. J!Blank \in J!Lines /\ \A line \in UserLines : J!UserLine(line) \in J!Lines
  BY DEF J!Lines
<1>5. \A job : J!Tag(job).kind = "tag" /\ J!Tag(job).of = job
  BY DEF J!Tag, J!Line
<1>6. \A job, build : /\ J!Command(job, build).kind = "command" /\ J!Command(job, build).of = job
                      /\ J!Command(job, build).build = build
  BY DEF J!Command, J!Line
<1>7. J!Blank.kind = "blank" /\ \A line : J!UserLine(line).kind = "user"
  BY DEF J!Blank, J!UserLine, J!Line
<1> QED  BY <1>1, <1>2, <1>3, <1>4, <1>5, <1>6, <1>7

\* A text grows by a line that is neither a tag nor a command, by a tag of a job that
\* has none in it, or by the command of the tag at its end.
LEMMA TextGrows ==
    ASSUME NEW s \in Seq(J!Lines), NEW line \in J!Lines, NEW lost
    PROVE  LET t == Append(s, line)
           IN  /\ t \in Seq(J!Lines)
               /\ J!Paired(s, FALSE, lost) /\ line.kind \notin {"tag", "command"} => J!Paired(t, FALSE, lost)
               /\ J!Paired(s, FALSE, lost) /\ line.kind = "tag"
                    /\ (\A i \in DOMAIN s : s[i].kind = "tag" => s[i].of # line.of)
                  => J!Paired(t, TRUE, lost)
               /\ J!Paired(s, TRUE, lost) /\ line.kind = "command" /\ s # <<>>
                    /\ s[Len(s)] = J!Tag(line.of)
                  => J!Paired(t, FALSE, lost)
<1> DEFINE t == Append(s, line)
           n == Len(s)
<1>1. /\ t \in Seq(J!Lines) /\ n \in Nat /\ DOMAIN s = 1..n /\ DOMAIN t = 1..(n + 1)
      /\ Len(t) = n + 1 /\ \A i \in 1..n : t[i] = s[i] /\ t[n + 1] = line
  BY AppendProperties, LenProperties
<1>2. t[n + 1] = line
  BY AppendProperties
<1>3. \A i \in DOMAIN t : i \in 1..n \/ i = n + 1
  BY <1>1
<1>4. \A i \in 1..n : i \in DOMAIN s /\ i \in DOMAIN t /\ t[i] = s[i]
  BY <1>1
<1>5. \A job : J!Tag(job).kind = "tag" /\ J!Tag(job).of = job
  BY DEF J!Tag, J!Line
<1> HIDE DEF t, n
<1>6. ASSUME J!Paired(s, FALSE, lost), line.kind \notin {"tag", "command"} PROVE J!Paired(t, FALSE, lost)
  <2>1. J!TagsFollowed(t, FALSE, lost)
    BY <1>1, <1>2, <1>3, <1>4, <1>6 DEF J!Paired, J!TagsFollowed
  <2>2. J!CommandsTagged(t)
    BY <1>1, <1>2, <1>3, <1>4, <1>6 DEF J!Paired, J!CommandsTagged
  <2>3. J!TagsApart(t)
    BY <1>1, <1>2, <1>3, <1>4, <1>6 DEF J!Paired, J!TagsApart
  <2> QED  BY <2>1, <2>2, <2>3 DEF J!Paired
<1>7. ASSUME J!Paired(s, FALSE, lost), line.kind = "tag",
             \A i \in DOMAIN s : s[i].kind = "tag" => s[i].of # line.of
      PROVE  J!Paired(t, TRUE, lost)
  <2>1. J!TagsFollowed(t, TRUE, lost)
    BY <1>1, <1>2, <1>3, <1>4, <1>7 DEF J!Paired, J!TagsFollowed
  <2>2. J!CommandsTagged(t)
    BY <1>1, <1>2, <1>3, <1>4, <1>7 DEF J!Paired, J!CommandsTagged
  <2>3. J!TagsApart(t)
    BY <1>1, <1>2, <1>3, <1>4, <1>7 DEF J!Paired, J!TagsApart
  <2> QED  BY <2>1, <2>2, <2>3 DEF J!Paired
<1>8. ASSUME J!Paired(s, TRUE, lost), line.kind = "command", s # <<>>, s[n] = J!Tag(line.of)
      PROVE  J!Paired(t, FALSE, lost)
  <2>0. n \in 1..n
    BY <1>1, <1>8, EmptySeq DEF n
  <2>1. J!TagsFollowed(t, FALSE, lost)
    <3> SUFFICES ASSUME NEW i \in DOMAIN t, t[i].kind = "tag"
        PROVE  \/ t[i].of \in lost
               \/ i + 1 \in DOMAIN t /\ t[i + 1].kind = "command" /\ t[i + 1].of = t[i].of
      BY DEF J!TagsFollowed
    <3>1. i \in 1..n /\ t[i] = s[i]
      BY <1>2, <1>3, <1>4, <1>8
    <3>2. CASE i = n
      BY <1>1, <1>2, <1>5, <1>8, <3>1, <3>2
    <3>3. CASE i # n
      <4>1. i + 1 \in 1..n
        BY <1>1, <3>1, <3>3
      <4> QED  BY <1>1, <1>4, <1>8, <3>1, <3>3, <4>1 DEF J!Paired, J!TagsFollowed, n
    <3> QED  BY <3>2, <3>3
  <2>2. J!CommandsTagged(t)
    <3> SUFFICES ASSUME NEW i \in DOMAIN t, t[i].kind = "command"
        PROVE  i - 1 \in DOMAIN t /\ t[i - 1] = J!Tag(t[i].of)
      BY DEF J!CommandsTagged
    <3>1. CASE i = n + 1
      BY <1>1, <1>2, <1>4, <1>8, <2>0, <3>1
    <3>2. CASE i \in 1..n
      BY <1>1, <1>4, <1>8, <3>2 DEF J!Paired, J!CommandsTagged
    <3> QED  BY <1>3, <3>1, <3>2
  <2>3. J!TagsApart(t)
    BY <1>1, <1>2, <1>3, <1>4, <1>8 DEF J!Paired, J!TagsApart
  <2> QED  BY <2>1, <2>2, <2>3 DEF J!Paired
<1> QED  BY <1>1, <1>6, <1>7, <1>8 DEF t, n

\* A text stays one whatever jobs are let lose their command, if those are among
\* them that have a tag without one.
LEMMA TagsLeft ==
    ASSUME NEW s, NEW lost, NEW more, NEW open \in BOOLEAN, J!Paired(s, open, lost),
           \A i \in DOMAIN s : s[i].kind = "tag" /\ (s[i].of \in lost \/ (open /\ i = Len(s)))
                => s[i].of \in more
    PROVE  J!Paired(s, FALSE, more)
BY DEF J!Paired, J!TagsFollowed

\* The beginning of a text is one but for the tag at its end.
LEMMA TextCut ==
    ASSUME NEW lost, NEW lines \in J!Texts(lost), NEW n \in 0..Len(lines)
    PROVE  LET some == {lines[i].of : i \in {i \in {n} \cap 1..n : lines[i].kind = "tag"}}
           IN  /\ SubSeq(lines, 1, n) \in J!Texts(lost \cup some)
               /\ \A i \in DOMAIN SubSeq(lines, 1, n) :
                    i \in DOMAIN lines /\ SubSeq(lines, 1, n)[i] = lines[i]
<1> DEFINE s == SubSeq(lines, 1, n)
           some == {lines[i].of : i \in {i \in {n} \cap 1..n : lines[i].kind = "tag"}}
<1>1. /\ lines \in Seq(J!Lines) /\ J!Paired(lines, FALSE, lost) /\ Len(lines) \in Nat
      /\ DOMAIN lines = 1..Len(lines) /\ n \in Nat /\ n <= Len(lines)
  <2>1. lines \in Seq(J!Lines) /\ J!Paired(lines, FALSE, lost)
    BY DEF J!Texts
  <2>2. Len(lines) \in Nat /\ DOMAIN lines = 1..Len(lines)
    BY <2>1, LenProperties
  <2>3. n \in Nat /\ n <= Len(lines)
    BY <2>2
  <2> QED  BY <2>1, <2>2, <2>3
<1>2. /\ s \in Seq(J!Lines) /\ Len(s) = n /\ DOMAIN s = 1..n
      /\ \A i \in 1..n : s[i] = lines[i]
  <2>1. \A i \in 1..n : lines[i] \in J!Lines
    BY <1>1, ElementOfSeq
  <2> QED  BY <1>1, <2>1
<1>3. \A i \in 1..n : i \in DOMAIN lines
  BY <1>1
<1> HIDE DEF s, some
<1>4. J!Paired(s, TRUE, lost)
  <2>1. J!TagsFollowed(s, TRUE, lost)
    <3> SUFFICES ASSUME NEW i \in 1..n, s[i].kind = "tag", i # n, s[i].of \notin lost
        PROVE  i + 1 \in 1..n /\ s[i + 1].kind = "command" /\ s[i + 1].of = s[i].of
      BY <1>2 DEF J!TagsFollowed
    <3>1. i + 1 \in 1..n
      BY <1>1
    <3> QED  BY <1>1, <1>2, <1>3, <3>1 DEF J!Paired, J!TagsFollowed
  <2>2. J!CommandsTagged(s)
    <3> SUFFICES ASSUME NEW i \in 1..n, s[i].kind = "command"
        PROVE  i - 1 \in 1..n /\ s[i - 1] = J!Tag(s[i].of)
      BY <1>2 DEF J!CommandsTagged
    <3>1. i - 1 \in DOMAIN lines /\ lines[i - 1] = J!Tag(lines[i].of)
      BY <1>1, <1>2, <1>3 DEF J!Paired, J!CommandsTagged
    <3>2. i - 1 \in 1..n
      BY <1>1, <3>1
    <3> QED  BY <1>2, <3>1, <3>2
  <2>3. J!TagsApart(s)
    BY <1>1, <1>2, <1>3 DEF J!Paired, J!TagsApart
  <2> QED  BY <2>1, <2>2, <2>3 DEF J!Paired
<1>5. J!Paired(s, FALSE, lost \cup some)
  <2>1. ASSUME NEW i \in DOMAIN s, s[i].kind = "tag", i = Len(s) PROVE s[i].of \in some
    BY <1>2, <2>1 DEF some
  <2> QED  BY <1>4, <2>1, TagsLeft
<1> QED  BY <1>2, <1>3, <1>5 DEF J!Texts, s, some

\* Removing a job's entries leaves a text of lines there were, with no tag of the
\* job and the other entries whole or gone.
LEMMA EntriesRemoved ==
    ASSUME NEW lost, NEW lines \in J!Texts(lost), NEW job \in J!Labels
    PROVE  /\ J!RemoveEntries(lines, job) \in J!Texts(lost \ {job})
           /\ \A i \in DOMAIN J!RemoveEntries(lines, job) :
                /\ J!RemoveEntries(lines, job)[i].kind = "tag" =>
                     J!RemoveEntries(lines, job)[i].of # job
                /\ \E m \in DOMAIN lines : lines[m] = J!RemoveEntries(lines, job)[i]
<1> DEFINE n == Len(lines)
           Accs == [out : Seq(J!Lines), skip : BOOLEAN]
           base == [out |-> <<>>, skip |-> FALSE]
           Follows(f) == f = [k \in 0..n |-> IF k = 0 THEN base
                                             ELSE J!Keep(job, f[k - 1], lines[k])]
           step == [x \in Accs \X (1..n) |-> J!Keep(job, x[1], lines[x[2]])]
<1>1. lines \in Seq(J!Lines) /\ n \in Nat /\ DOMAIN lines = 1..n /\ base \in Accs
      /\ J!Paired(lines, FALSE, lost)
  BY LenProperties, EmptySeq DEF J!Texts
<1>2. \A k \in 1..n : lines[k] \in J!Lines
  BY <1>1, ElementOfSeq
<1>3. ASSUME NEW acc \in Accs, NEW line \in J!Lines
      PROVE  /\ J!Keep(job, acc, line) \in Accs
             /\ line = J!Tag(job) => J!Keep(job, acc, line).out = acc.out
                                     /\ J!Keep(job, acc, line).skip
             /\ line # J!Tag(job) /\ acc.skip =>
                  /\ J!Keep(job, acc, line).out = acc.out
                  /\ J!Keep(job, acc, line).skip <=> line # J!Blank
             /\ line # J!Tag(job) /\ ~acc.skip =>
                  /\ J!Keep(job, acc, line).out = Append(acc.out, line)
                  /\ ~J!Keep(job, acc, line).skip
  <2>1. Append(acc.out, line) \in Seq(J!Lines)
    BY AppendProperties
  <2> QED  BY <2>1 DEF J!Keep
<1>4. \A acc \in Accs : \A k \in 1..n : step[<<acc, k>>] = J!Keep(job, acc, lines[k])
  OBVIOUS
<1>5. \A acc \in Accs : \A k \in 1..n : step[<<acc, k>>] \in Accs
  BY <1>2, <1>3, <1>4
<1> HIDE DEF step, n, base
<1>a. PICK g : Iterates(g, n, Accs, base, step)
  <2> HIDE DEF Accs
  <2> QED  BY <1>1, <1>5, Iteration
<1>6. /\ g \in [0..n -> Accs] /\ g[0] = base
      /\ \A k \in 1..n : g[k] = step[<<g[k - 1], k>>]
  BY <1>a DEF Iterates
<1>7. Follows(g)
  <2> HIDE DEF Accs
  <2>1. \A k \in 1..n : k - 1 \in 0..n
    BY <1>1
  <2>2. \A k \in 1..n : g[k - 1] \in Accs
    BY <1>6, <2>1
  <2>3. \A k \in 0..n : k = 0 \/ k \in 1..n
    BY <1>1
  <2>4. \A k \in 0..n : g[k] = IF k = 0 THEN base ELSE J!Keep(job, g[k - 1], lines[k])
    BY <1>4, <1>6, <2>2, <2>3
  <2> QED  BY <1>6, <2>4
<1> DEFINE f == CHOOSE f : Follows(f)
<1>8. Follows(f)
  BY <1>7
<1>9. J!RemoveEntries(lines, job) = f[n].out
  BY DEF J!RemoveEntries, n, base
<1> HIDE DEF f
<1>10. f[0] = base /\ \A k \in 1..n : f[k] = J!Keep(job, f[k - 1], lines[k])
  <2>1. \A k \in 1..n : k \in 0..n /\ k # 0
    BY <1>1
  <2> QED  BY <1>1, <1>8, <2>1
\* What is known of the k-th: it is a text that is open while its last line is a tag,
\* and its lines are among the first k.
<1> DEFINE Open(k, acc) == ~acc.skip /\ k > 0 /\ lines[k].kind = "tag"
           Among(k, acc) == \A i \in DOMAIN acc.out :
                              /\ acc.out[i].kind = "tag" => acc.out[i].of # job
                              /\ \E m \in 1..k : lines[m] = acc.out[i]
           Good(k, acc) == /\ J!Paired(acc.out, Open(k, acc), lost) /\ Among(k, acc)
                           /\ Open(k, acc) => acc.out # <<>> /\ acc.out[Len(acc.out)] = lines[k]
           S == [k \in 0..n |-> {acc \in Accs : Good(k, acc)}]
<1>11. base \in S[0]
  <2>1. base \in Accs /\ base.out = <<>> /\ 0 \in 0..n
    BY <1>1 DEF base
  <2>2. DOMAIN <<>> = {}
    OBVIOUS
  <2>3. J!Paired(<<>>, FALSE, lost)
    BY <2>2 DEF J!Paired, J!TagsFollowed, J!CommandsTagged, J!TagsApart
  <2>4. Open(0, base) = FALSE
    OBVIOUS
  <2>5. Good(0, base)
    BY <2>1, <2>2, <2>3, <2>4
  <2> HIDE DEF Good, Accs
  <2> QED  BY <2>1, <2>5
<1>12. ASSUME NEW k \in 1..n, NEW acc \in Accs, Good(k - 1, acc)
       PROVE  J!Keep(job, acc, lines[k]) \in Accs /\ Good(k, J!Keep(job, acc, lines[k]))
  <2> DEFINE line == lines[k]
             new == J!Keep(job, acc, line)
  <2>1. line \in J!Lines /\ new \in Accs /\ k > 0 /\ k \in DOMAIN lines
    BY <1>1, <1>2, <1>3
  <2>2. \A i \in DOMAIN acc.out : \E m \in 1..k : lines[m] = acc.out[i]
    <3>1. \A m \in 1..(k - 1) : m \in 1..k
      BY <1>1
    <3> QED  BY <1>12, <3>1
  <2>3. CASE Open(k - 1, acc) /\ line.kind = "command"
    <3>1. k - 1 \in 1..n /\ k - 1 \in DOMAIN lines /\ lines[k - 1].kind = "tag" /\ ~acc.skip
      BY <1>1, <2>3
    <3>2. line.kind = "command" /\ line.of = lines[k - 1].of
      <4>1. lines[k - 1] = J!Tag(line.of)
        BY <1>1, <2>1, <2>3 DEF J!Paired, J!CommandsTagged
      <4> QED  BY <2>3, <4>1 DEF J!Tag, J!Line
    <3>3. lines[k - 1] = J!Tag(line.of) /\ line # J!Tag(job)
      BY <1>2, <3>1, <3>2, CrontabLines
    <3>4. new.out = Append(acc.out, line) /\ ~new.skip
      BY <1>3, <2>1, <3>1, <3>3
    <3>5. J!Paired(acc.out, TRUE, lost) /\ acc.out # <<>> /\ acc.out[Len(acc.out)] = lines[k - 1]
      BY <1>12, <2>3
    <3>6. J!Paired(new.out, FALSE, lost)
      BY <2>1, <3>2, <3>3, <3>4, <3>5, TextGrows
    <3>7. Open(k, new) = FALSE
      BY <3>2
    <3>8. \A i \in DOMAIN new.out :
             (i \in DOMAIN acc.out /\ new.out[i] = acc.out[i]) \/ new.out[i] = line
      BY <2>1, <3>4, AppendProperties
    <3>9. Among(k, new)
      <4>1. k \in 1..k
        BY <1>1
      <4> HIDE DEF new
      <4> QED  BY <1>12, <2>2, <3>2, <3>8, <4>1
    <3> HIDE DEF new, Open, Among
    <3> QED  BY <2>1, <3>6, <3>7, <3>9 DEF new
  <2>4. CASE ~(Open(k - 1, acc) /\ line.kind = "command")
    <3>0. J!Paired(acc.out, FALSE, lost)
      <4>1. CASE ~Open(k - 1, acc)
        BY <1>12, <4>1
      <4>2. CASE Open(k - 1, acc) /\ line.kind # "command"
        <5>1. k - 1 \in DOMAIN lines /\ lines[k - 1].kind = "tag" /\ (k - 1) + 1 = k
          BY <1>1, <4>2
        <5>2. lines[k - 1].of \in lost
          BY <1>1, <4>2, <5>1 DEF J!Paired, J!TagsFollowed
        <5>3. J!Paired(acc.out, TRUE, lost) /\ acc.out[Len(acc.out)] = lines[k - 1]
          BY <1>12, <4>2
        <5> QED  BY <5>2, <5>3, TagsLeft
      <4> QED  BY <2>4, <4>1, <4>2
    <3>1. CASE line = J!Tag(job) \/ acc.skip
      <4>1. new.out = acc.out
        BY <1>3, <2>1, <3>1
      <4>2. Open(k, new) = FALSE
        <5>1. new.skip \/ line = J!Blank
          BY <1>3, <2>1, <3>1
        <5> QED  BY <5>1, CrontabLines
      <4>3. Among(k, new)
        BY <1>12, <2>2, <4>1
      <4> HIDE DEF new, Open, Among
      <4> QED  BY <2>1, <3>0, <4>1, <4>2, <4>3 DEF new
    <3>2. CASE line # J!Tag(job) /\ ~acc.skip
      <4>1. new.out = Append(acc.out, line) /\ ~new.skip
        BY <1>3, <2>1, <3>2
      <4>2. new.out # <<>> /\ new.out[Len(new.out)] = line
        BY <2>1, <4>1, AppendProperties
      <4>3. line.kind # "command"
        <5> SUFFICES ASSUME line.kind = "command" PROVE FALSE
          OBVIOUS
        <5>1. k - 1 \in DOMAIN lines /\ lines[k - 1] = J!Tag(line.of)
          BY <1>1, <2>1 DEF J!Paired, J!CommandsTagged
        <5>2. lines[k - 1].kind = "tag" /\ k - 1 > 0
          BY <1>1, <5>1 DEF J!Tag, J!Line
        <5> QED  BY <2>4, <3>2, <5>2
      <4>4. ASSUME line.kind = "tag"
            PROVE  line.of # job /\ \A i \in DOMAIN acc.out :
                     acc.out[i].kind = "tag" => acc.out[i].of # line.of
        <5>1. line.of # job
          BY <2>1, <3>2, <4>4, CrontabLines
        <5>2. ASSUME NEW i \in DOMAIN acc.out, acc.out[i].kind = "tag", acc.out[i].of = line.of
              PROVE  FALSE
          <6>1. PICK m \in 1..(k - 1) : lines[m] = acc.out[i]
            BY <1>12, <5>2
          <6>2. m \in DOMAIN lines /\ m # k
            BY <1>1, <6>1
          <6> QED  BY <1>1, <2>1, <4>4, <5>2, <6>1, <6>2 DEF J!Paired, J!TagsApart
        <5> QED  BY <5>1, <5>2
      <4>5. J!Paired(new.out, Open(k, new), lost)
        <5>1. CASE line.kind = "tag"
          BY <2>1, <3>0, <4>1, <4>4, <5>1, TextGrows
        <5>2. CASE line.kind # "tag"
          BY <2>1, <3>0, <4>1, <4>3, <5>2, TextGrows
        <5> QED  BY <5>1, <5>2
      <4>6. Among(k, new)
        <5> SUFFICES ASSUME NEW i \in DOMAIN new.out
            PROVE  /\ new.out[i].kind = "tag" => new.out[i].of # job
                   /\ \E m \in 1..k : lines[m] = new.out[i]
          OBVIOUS
        <5>1. (i \in DOMAIN acc.out /\ new.out[i] = acc.out[i]) \/ new.out[i] = line
          BY <2>1, <4>1, AppendProperties
        <5>2. k \in 1..k
          BY <1>1
        <5> HIDE DEF new
        <5> QED  BY <1>12, <2>2, <4>4, <5>1, <5>2
      <4> HIDE DEF new, Open, Among
      <4> QED  BY <2>1, <4>2, <4>5, <4>6 DEF new
    <3> QED  BY <3>1, <3>2
  <2> QED  BY <2>3, <2>4
<1>13. f[n] \in S[n]
  <2> HIDE DEF Good, Accs
  <2>1. ASSUME NEW k \in 1..n, f[k - 1] \in S[k - 1] PROVE f[k] \in S[k]
    <3>1. k \in 0..n /\ k - 1 \in 0..n
      BY <1>1
    <3>2. f[k - 1] \in Accs /\ Good(k - 1, f[k - 1])
      BY <2>1, <3>1
    <3> QED  BY <1>10, <1>12, <3>1, <3>2
  <2> HIDE DEF S
  <2> QED  BY <1>1, <1>10, <1>11, <2>1, KeptAlong
<1>14. f[n] \in Accs /\ Good(n, f[n])
  <2> HIDE DEF Good, Accs
  <2> QED  BY <1>1, <1>13
<1>15. J!Paired(f[n].out, FALSE, lost) /\ f[n].out \in Seq(J!Lines)
  <2>1. CASE ~Open(n, f[n])
    BY <1>14, <2>1
  <2>2. CASE Open(n, f[n])
    <3>1. n \in DOMAIN lines /\ n + 1 \notin DOMAIN lines
      BY <1>1, <2>2
    <3>2. lines[n].of \in lost
      BY <1>1, <2>2, <3>1 DEF J!Paired, J!TagsFollowed
    <3>3. J!Paired(f[n].out, TRUE, lost) /\ f[n].out[Len(f[n].out)] = lines[n]
      BY <1>14, <2>2
    <3> QED  BY <1>14, <3>2, <3>3, TagsLeft
  <2> QED  BY <2>1, <2>2
<1>16. J!Paired(f[n].out, FALSE, lost \ {job})
  BY <1>14, <1>15, TagsLeft
<1> QED  BY <1>1, <1>9, <1>14, <1>15, <1>16 DEF J!Texts

\* A merged text has one command of the job, the new one, and lines there were.
LEMMA EntryMerged ==
    ASSUME NEW lost, NEW lines \in J!Texts(lost), NEW job \in J!Labels, NEW build \in JobBuilds
    PROVE  LET merged == J!MergeEntry(lines, job, build)
           IN  /\ merged \in J!Texts(lost \ {job})
               /\ \A i \in DOMAIN merged : merged[i].kind = "command" =>
                    \/ merged[i].of = job /\ merged[i].build = build
                    \/ merged[i].of # job /\ \E m \in DOMAIN lines : lines[m] = merged[i]
<1> DEFINE s == J!RemoveEntries(lines, job)
           t == Append(s, J!Tag(job))
<1>1. /\ s \in Seq(J!Lines) /\ J!Paired(s, FALSE, lost \ {job})
      /\ \A i \in DOMAIN s : s[i].kind = "tag" => s[i].of # job
      /\ \A i \in DOMAIN s : \E m \in DOMAIN lines : lines[m] = s[i]
  <2>1. /\ s \in J!Texts(lost \ {job})
        /\ \A i \in DOMAIN s : /\ s[i].kind = "tag" => s[i].of # job
                               /\ \E m \in DOMAIN lines : lines[m] = s[i]
    BY EntriesRemoved
  <2> HIDE DEF s
  <2> QED  BY <2>1 DEF J!Texts
<1>2. /\ J!Tag(job) \in J!Lines /\ J!Tag(job).kind = "tag" /\ J!Tag(job).of = job
      /\ J!Command(job, build) \in J!Lines /\ J!Command(job, build).kind = "command"
      /\ J!Command(job, build).of = job /\ J!Command(job, build).build = build
  BY CrontabLines
<1> HIDE DEF s
<1>3. t \in Seq(J!Lines) /\ J!Paired(t, TRUE, lost \ {job})
  BY <1>1, <1>2, TextGrows
<1>4. t # <<>> /\ t[Len(t)] = J!Tag(job)
  BY <1>1, <1>2, AppendProperties
<1> HIDE DEF t
<1>5. Append(t, J!Command(job, build)) \in Seq(J!Lines)
      /\ J!Paired(Append(t, J!Command(job, build)), FALSE, lost \ {job})
  BY <1>2, <1>3, <1>4, TextGrows
<1>6. J!MergeEntry(lines, job, build) = Append(t, J!Command(job, build))
  BY <1>1, <1>2, AppendTwo DEF J!MergeEntry, s, t
<1> DEFINE merged == Append(t, J!Command(job, build))
<1>7. ASSUME NEW i \in DOMAIN merged, merged[i].kind = "command"
      PROVE  \/ merged[i].of = job /\ merged[i].build = build
             \/ merged[i].of # job /\ \E m \in DOMAIN lines : lines[m] = merged[i]
  <2>1. (i \in DOMAIN t /\ merged[i] = t[i]) \/ merged[i] = J!Command(job, build)
    BY <1>2, <1>3, AppendProperties
  <2>2. CASE i \in DOMAIN t /\ merged[i] = t[i]
    <3>1. (i \in DOMAIN s /\ t[i] = s[i]) \/ t[i] = J!Tag(job)
      <4>1. /\ Len(t) = Len(s) + 1 /\ t[Len(s) + 1] = J!Tag(job)
            /\ \A j \in 1..Len(s) : t[j] = s[j]
        BY <1>1, <1>2, AppendProperties DEF t
      <4>2. DOMAIN t = 1..Len(t) /\ DOMAIN s = 1..Len(s) /\ Len(s) \in Nat
        BY <1>1, <1>3, LenProperties
      <4> QED  BY <2>2, <4>1, <4>2
    <3>2. i \in DOMAIN s /\ merged[i] = s[i]
      BY <1>2, <1>7, <2>2, <3>1
    <3>3. merged[i].of # job
      <4>1. i - 1 \in DOMAIN s /\ s[i - 1] = J!Tag(s[i].of)
        BY <1>1, <1>7, <3>2 DEF J!Paired, J!CommandsTagged
      <4> QED  BY <1>1, <3>2, <4>1 DEF J!Tag, J!Line
    <3> QED  BY <1>1, <3>2, <3>3
  <2> QED  BY <1>2, <2>1, <2>2
<1> HIDE DEF merged
<1> QED  BY <1>5, <1>6, <1>7 DEF J!Texts, merged

LEMMA LineAdded ==
    ASSUME NEW lost, NEW lines \in J!Texts(lost), NEW line \in UserLines, NEW apart \in BOOLEAN
    PROVE  LET longer == lines \o (IF apart THEN <<J!Blank, J!UserLine(line)>>
                                    ELSE <<J!UserLine(line)>>)
           IN  /\ longer \in J!Texts(lost)
               /\ \A i \in DOMAIN longer : longer[i].kind = "command" =>
                    i \in DOMAIN lines /\ longer[i] = lines[i]
<1> DEFINE said == J!UserLine(line)
<1>1. lines \in Seq(J!Lines) /\ J!Paired(lines, FALSE, lost)
  BY DEF J!Texts
<1>2. /\ said \in J!Lines /\ said.kind = "user"
      /\ J!Blank \in J!Lines /\ J!Blank.kind = "blank"
  BY CrontabLines
<1> HIDE DEF said
<1>3. Append(lines, said) \in J!Texts(lost)
  BY <1>1, <1>2, TextGrows DEF J!Texts
<1>4. Append(lines, J!Blank) \in Seq(J!Lines) /\ J!Paired(Append(lines, J!Blank), FALSE, lost)
  BY <1>1, <1>2, TextGrows
<1>5. Append(Append(lines, J!Blank), said) \in J!Texts(lost)
  BY <1>2, <1>4, TextGrows DEF J!Texts
<1>6. /\ lines \o <<said>> = Append(lines, said)
      /\ lines \o <<J!Blank, said>> = Append(Append(lines, J!Blank), said)
  BY <1>1, <1>2, AppendTwo, AppendIsConcat
<1>7. \A i \in DOMAIN Append(lines, said) : Append(lines, said)[i].kind = "command" =>
        i \in DOMAIN lines /\ Append(lines, said)[i] = lines[i]
  BY <1>1, <1>2, AppendProperties
<1>8. \A i \in DOMAIN Append(Append(lines, J!Blank), said) :
        Append(Append(lines, J!Blank), said)[i].kind = "command" =>
          i \in DOMAIN lines /\ Append(Append(lines, J!Blank), said)[i] = lines[i]
  <2>1. \A i \in DOMAIN Append(lines, J!Blank) : Append(lines, J!Blank)[i].kind = "command" =>
          i \in DOMAIN lines /\ Append(lines, J!Blank)[i] = lines[i]
    BY <1>1, <1>2, AppendProperties
  <2> DEFINE t == Append(lines, J!Blank)
  <2> HIDE DEF t
  <2>2. \A i \in DOMAIN Append(t, said) : Append(t, said)[i].kind = "command" =>
          i \in DOMAIN t /\ Append(t, said)[i] = t[i]
    BY <1>2, <1>4, AppendProperties DEF t
  <2> QED  BY <2>1, <2>2 DEF t
<1> QED  BY <1>3, <1>5, <1>6, <1>7, <1>8 DEF said

JobTasks == [verb : {"install", "uninstall"}, job : J!Labels, build : JobBuilds]
JobRuns == [pc : J!Steps \cup {"idle"}, todo : Seq(JobTasks), read : Seq(J!Lines)]
Said == [J!Labels -> JobBuilds \cup {"none"}]

\* A text of builds installed last is so of fewer lines, and of fewer builds.
LEMMA FewerBuilds ==
    ASSUME NEW s, NEW t, NEW said, NEW less, J!OfBuilds(s, said),
           \A i \in DOMAIN t : t[i].kind = "command" =>
                /\ \E m \in DOMAIN s : s[m] = t[i]
                /\ less[t[i].of] \in {said[t[i].of], "none"}
    PROVE  J!OfBuilds(t, less)
BY DEF J!OfBuilds

LEMMA NothingUnderWay ==
    ASSUME NEW lost, NEW said
    PROVE  J!Idle \in JobRuns /\ J!Idle.pc = "idle" /\ <<>> \in J!Texts(lost)
           /\ J!OfBuilds(<<>>, said)
<1>1. <<>> \in Seq(JobTasks) /\ <<>> \in Seq(J!Lines) /\ DOMAIN <<>> = {}
  BY EmptySeq
<1>2. <<>> \in J!Texts(lost) /\ J!OfBuilds(<<>>, said)
  BY <1>1 DEF J!Texts, J!Paired, J!TagsFollowed, J!CommandsTagged, J!TagsApart, J!OfBuilds
<1> QED  BY <1>1, <1>2 DEF J!Idle, JobRuns

LEMMA TasksListed ==
    ASSUME NEW build \in JobBuilds,
           NEW tasks \in J!Scheduler(build) \cup J!UsageMonitor(build) \cup J!Pricing(build)
                             \cup J!Daemon(build)
    PROVE  tasks \in Seq(JobTasks) /\ tasks # <<>>
<1>1. ASSUME NEW verb \in {"install", "uninstall"}, NEW job \in J!Labels
      PROVE  J!Task(verb, job, build) \in JobTasks
  BY DEF J!Task, JobTasks
<1>2. PICK verb \in {"install", "uninstall"}, job \in J!Labels, other \in J!Labels :
        tasks \in {<<J!Task(verb, job, build)>>,
                   <<J!Task(verb, job, build), J!Task(verb, other, build)>>}
  <2>1. {"scan", "archive", "usage-monitor", "pricing-sync", "daemon"} \subseteq J!Labels
    BY DEF J!Labels, J!CronJobs
  <2> HIDE DEF J!Task
  <2>2. CASE tasks \in J!Scheduler(build)
    BY <2>1, <2>2 DEF J!Scheduler
  <2>3. CASE tasks \in J!UsageMonitor(build)
    BY <2>1, <2>3 DEF J!UsageMonitor, J!Verbs
  <2>4. CASE tasks \in J!Pricing(build)
    BY <2>1, <2>4 DEF J!Pricing, J!Verbs
  <2>5. CASE tasks \in J!Daemon(build)
    BY <2>1, <2>5 DEF J!Daemon, J!Verbs
  <2> QED  BY <2>2, <2>3, <2>4, <2>5
<1>3. J!Task(verb, job, build) \in JobTasks /\ J!Task(verb, other, build) \in JobTasks
  BY <1>1
<1>4. \A x \in JobTasks : <<x>> \in Seq(JobTasks) /\ <<x>> # <<>>
  OBVIOUS
<1>5. \A x, y \in JobTasks : <<x, y>> \in Seq(JobTasks) /\ <<x, y>> # <<>>
  OBVIOUS
<1> HIDE DEF JobTasks
<1> QED  BY <1>2, <1>3, <1>4, <1>5

\* What is known while a command is under way.
LEMMA JobsTyped ==
    ASSUME J!Inv
    PROVE  /\ v1 \in {"linux", "macos"} /\ v2 \in Seq(J!Lines) /\ v5 \in JobRuns
           /\ v2 \in J!Texts(v8) /\ v8 \in SUBSET J!Labels
           /\ v3 \in [J!Labels -> J!Lists] /\ v4 \in Said /\ v6 \in Said
           /\ v5.pc # "idle" => v5.todo # <<>> /\ J!First \in JobTasks /\ J!First.job \in J!Labels
                                /\ J!First.build \in JobBuilds
<1>1. J!Types
  BY DEF J!Inv
<1>2. v5 \in JobRuns
  BY <1>1 DEF J!Types, JobRuns, JobTasks
<1>3. ASSUME v5.pc # "idle"
      PROVE  v5.todo # <<>> /\ J!First \in JobTasks
  <2>1. v5.todo # <<>> /\ v5.todo \in Seq(JobTasks)
    BY <1>1, <1>2, <1>3 DEF J!Types, JobRuns
  <2> QED  BY <2>1, HeadTailProperties DEF J!First
<1>4. v2 \in J!Texts(v8)
  BY <1>1, NothingUnderWay DEF J!Inv, J!Types, J!Entered, J!AtWork
<1> QED  BY <1>1, <1>2, <1>3, <1>4 DEF J!Types, JobTasks, Said

\* What is left after a task: nothing, or the tasks after it.
LEMMA JobsDone ==
    ASSUME J!Inv, v5.pc # "idle"
    PROVE  /\ J!Done \in JobRuns /\ J!Done.pc \in {"idle", "begin"}
           /\ J!Done.pc # "idle" => J!Done.todo # <<>>
<1>1. v5.todo \in Seq(JobTasks) /\ v5.todo # <<>>
  BY JobsTyped DEF JobRuns
<1>2. Tail(v5.todo) \in Seq(JobTasks) /\ Len(Tail(v5.todo)) = Len(v5.todo) - 1
      /\ Len(v5.todo) \in Nat
  BY <1>1, HeadTailProperties, LenProperties
<1>3. CASE Len(v5.todo) = 1
  BY <1>3, NothingUnderWay DEF J!Done
<1>4. CASE Len(v5.todo) # 1
  <2>1. Tail(v5.todo) # <<>>
    <3>1. Len(Tail(v5.todo)) # 0
      BY <1>2, <1>4
    <3> QED  BY <3>1, EmptySeq
  <2>2. J!Done = [J!Idle EXCEPT !.pc = "begin", !.todo = Tail(v5.todo)]
    BY <1>4 DEF J!Done
  <2>3. "begin" \in J!Steps
    BY DEF J!Steps
  <2> QED  BY <1>2, <2>1, <2>2, <2>3, NothingUnderWay DEF JobRuns
<1> QED  BY <1>3, <1>4

LEMMA JobsInit == J!Init => J!Inv
<1> SUFFICES ASSUME J!Init PROVE J!Inv
  OBVIOUS
<1>1. /\ v5 = J!Idle /\ v5.pc = "idle" /\ v5 \in JobRuns /\ v2 = <<>> /\ v2 \in Seq(J!Lines)
      /\ v2 \in J!Texts(v8) /\ J!OfBuilds(v2, v6)
  BY NothingUnderWay DEF J!Init, J!Texts
<1>2. J!Types
  BY <1>1 DEF J!Init, J!Types, J!Lists, JobRuns, JobTasks
<1>3. J!Entered /\ J!AtWork
  BY <1>1 DEF J!Entered, J!AtWork
<1>4. J!Listed
  BY DEF J!Init, J!Listed
<1> QED  BY <1>2, <1>3, <1>4 DEF J!Inv

\* A step that leaves the jobs of launchd as they are, and does not come to where one
\* is at work.
LEMMA JobsLeft ==
    ASSUME J!Inv, v5' \in JobRuns, v5'.pc \in {"idle", "begin", "crontab"},
           v5'.pc # "idle" => v5'.todo # <<>>, UNCHANGED <<v1, v3, v4>>,
           v2' \in Seq(J!Lines), v6' \in Said, v8' \in SUBSET J!Labels, J!Entered',
           v1 = "macos" => v5'.pc # "crontab" /\ UNCHANGED <<v2, v6, v8>>
    PROVE  J!Inv'
<1>1. J!Types'
  BY JobsTyped DEF J!Types, JobRuns, JobTasks, Said
<1>2. J!AtWork'
  BY DEF J!Inv, J!AtWork
<1>3. J!Listed'
  BY DEF J!Inv, J!Listed
<1> QED  BY <1>1, <1>2, <1>3 DEF J!Inv

\* What a command is about to give to `crontab -`.
LEMMA TextToWrite ==
    ASSUME J!Inv, v5.pc = "crontab"
    PROVE  LET said == [v6 EXCEPT ![J!First.job] = J!First.build]
           IN  /\ v1 = "linux" /\ J!Text \in J!Texts(v8 \ {J!First.job})
               /\ J!OfBuilds(J!Text, v6) /\ v6[J!First.job] = "none"
               /\ J!First.verb = "install" => J!OfBuilds(J!Text, said)
<1> DEFINE job == J!First.job
           build == J!First.build
           said == [v6 EXCEPT ![job] = build]
<1>1. /\ v1 = "linux" /\ v5.read \in J!Texts(v8) /\ J!OfBuilds(v5.read, v6)
      /\ v6[job] = "none"
  BY JobsTyped DEF J!Inv, J!Entered, J!AtWork
<1>2. job \in J!Labels /\ build \in JobBuilds /\ v6 \in Said
  BY JobsTyped
<1>3. said[job] = build /\ \A j : j # job => said[j] = v6[j]
  BY <1>2 DEF Said
<1> HIDE DEF job, build, said
<1>4. CASE J!First.verb = "install"
  <2> DEFINE text == J!MergeEntry(v5.read, job, build)
  <2>1. J!Text = text
    BY <1>4 DEF J!Text, job, build
  <2>2. /\ text \in J!Texts(v8 \ {job})
        /\ \A i \in DOMAIN text : text[i].kind = "command" =>
             \/ text[i].of = job /\ text[i].build = build
             \/ text[i].of # job /\ \E m \in DOMAIN v5.read : v5.read[m] = text[i]
    <3> DEFINE lost == v8
    <3>1. v5.read \in J!Texts(lost)
      BY <1>1
    <3> HIDE DEF lost, text
    <3>2. /\ text \in J!Texts(lost \ {job})
          /\ \A i \in DOMAIN text : text[i].kind = "command" =>
               \/ text[i].of = job /\ text[i].build = build
               \/ text[i].of # job /\ \E m \in DOMAIN v5.read : v5.read[m] = text[i]
      BY <1>2, <3>1, EntryMerged DEF text
    <3> QED  BY <3>2 DEF lost
  <2> HIDE DEF text
  <2>3. J!OfBuilds(text, v6)
    BY <1>1, <2>2 DEF J!OfBuilds
  <2>4. J!OfBuilds(text, said)
    BY <1>1, <1>3, <2>2 DEF J!OfBuilds
  <2> QED  BY <1>1, <2>1, <2>2, <2>3, <2>4 DEF job, build, said
<1>5. CASE J!First.verb # "install"
  <2> DEFINE text == J!RemoveEntries(v5.read, job)
  <2>1. J!Text = text
    BY <1>5 DEF J!Text, job
  <2>2. /\ text \in J!Texts(v8 \ {job})
        /\ \A i \in DOMAIN text : \E m \in DOMAIN v5.read : v5.read[m] = text[i]
    BY <1>1, <1>2, EntriesRemoved
  <2> HIDE DEF text
  <2>3. J!OfBuilds(text, v6)
    BY <1>1, <2>2, FewerBuilds
  <2> QED  BY <1>1, <1>5, <2>1, <2>2, <2>3 DEF job
<1> QED  BY <1>4, <1>5

\* The steps on the crontab, and those that both systems have.
LEMMA CrontabWrites ==
    ASSUME J!Inv, J!WriteCrontab \/ J!WriteCut
    PROVE  J!Inv'
<1> DEFINE job == J!First.job
           text == J!Text
<1>1. /\ v5.pc = "crontab" /\ v5.pc # "idle" /\ v1 = "linux" /\ UNCHANGED <<v1, v3, v4>>
      /\ text \in J!Texts(v8 \ {job}) /\ J!OfBuilds(text, v6) /\ v6[job] = "none"
      /\ job \in J!Labels /\ J!First.build \in JobBuilds /\ v6 \in Said /\ v8 \in SUBSET J!Labels
  BY JobsTyped, TextToWrite DEF J!WriteCrontab, J!WriteCut
<1>2. CASE J!WriteCrontab
  <2>1. v2' = text /\ v8' = v8 \ {job} /\ v5' = J!Done
        /\ v6' = IF J!First.verb = "install" THEN [v6 EXCEPT ![job] = J!First.build] ELSE v6
    BY <1>2 DEF J!WriteCrontab
  <2>2. v6' \in Said
    BY <1>1, <2>1 DEF Said
  <2>3. J!OfBuilds(v2', v6')
    BY <1>1, <2>1, TextToWrite
  <2>4. v5' \in JobRuns /\ v5'.pc \in {"idle", "begin"} /\ (v5'.pc # "idle" => v5'.todo # <<>>)
    BY <1>1, <2>1, JobsDone
  <2> HIDE DEF text, job
  <2>5. v2' \in J!Texts(v8') /\ v2' \in Seq(J!Lines) /\ v8' \in SUBSET J!Labels
    BY <1>1, <2>1 DEF J!Texts
  <2>6. J!Entered'
    BY <2>3, <2>4, <2>5 DEF J!Entered
  <2> QED  BY <1>1, <2>2, <2>4, <2>5, <2>6, JobsLeft
<1>3. CASE J!WriteCut
  <2>1. PICK n \in 0..Len(text) :
          /\ v2' = SubSeq(text, 1, n)
          /\ v8' = v8 \cup {text[i].of : i \in {i \in {n} \cap 1..n : text[i].kind = "tag"}}
    BY <1>3 DEF J!WriteCut
  <2> DEFINE some == {text[i].of : i \in {i \in {n} \cap 1..n : text[i].kind = "tag"}}
  <2>2. v5' = J!Idle /\ v6' = v6
    BY <1>3 DEF J!WriteCut
  <2>3. text \in J!Texts(v8)
    <3>1. text \in Seq(J!Lines) /\ J!Paired(text, FALSE, v8 \ {job})
      BY <1>1 DEF J!Texts
    <3> HIDE DEF text, job
    <3> QED  BY <3>1, TagsLeft DEF J!Texts
  <2> HIDE DEF text, job
  <2>4. /\ v2' \in J!Texts(v8 \cup some)
        /\ \A i \in DOMAIN v2' : i \in DOMAIN text /\ v2'[i] = text[i]
    BY <2>1, <2>3, TextCut
  <2>5. some \subseteq J!Labels
    <3>1. text \in Seq(J!Lines)
      BY <2>3 DEF J!Texts
    <3>2. \A i \in 1..n : text[i] \in J!Lines
      BY <2>1, <3>1, ElementOfSeq, LenProperties
    <3> QED  BY <3>2, CrontabLines
  <2>6. J!OfBuilds(v2', v6')
    BY <1>1, <2>2, <2>4, FewerBuilds
  <2>7. v5' \in JobRuns /\ v5'.pc = "idle"
    BY <2>2, NothingUnderWay
  <2>8. v8' = v8 \cup some /\ v2' \in J!Texts(v8') /\ v2' \in Seq(J!Lines)
        /\ v8' \in SUBSET J!Labels
    BY <1>1, <2>1, <2>4, <2>5 DEF J!Texts
  <2> HIDE DEF some
  <2>9. J!Entered'
    BY <2>6, <2>7, <2>8 DEF J!Entered
  <2> QED  BY <1>1, <2>2, <2>7, <2>8, <2>9, JobsLeft
<1> QED  BY <1>2, <1>3

LEMMA CrontabSteps ==
    ASSUME J!Inv,
           \/ \E line \in UserLines, apart \in BOOLEAN : J!AddLine(line, apart)
           \/ J!StartAny \/ J!Unsupported
           \/ J!ReadCrontab \/ J!WriteFails \/ J!BootstrapFails \/ J!Die
    PROVE  J!Inv'
<1>0. /\ v2 \in Seq(J!Lines) /\ v2 \in J!Texts(v8) /\ v5 \in JobRuns /\ v6 \in Said
      /\ v8 \in SUBSET J!Labels /\ J!Entered
      /\ J!Idle \in JobRuns /\ J!Idle.pc = "idle"
  BY JobsTyped, NothingUnderWay DEF J!Inv
<1>1. ASSUME NEW line \in UserLines, NEW apart \in BOOLEAN, J!AddLine(line, apart)
      PROVE  J!Inv'
  <2>1. /\ v1 = "linux" /\ v5' = v5 /\ v5.pc = "idle" /\ UNCHANGED <<v1, v3, v4, v6, v8>>
        /\ v2' = v2 \o (IF apart THEN <<J!Blank, J!UserLine(line)>> ELSE <<J!UserLine(line)>>)
    BY <1>1 DEF J!AddLine
  <2>2. /\ v2' \in J!Texts(v8)
        /\ \A i \in DOMAIN v2' : v2'[i].kind = "command" => i \in DOMAIN v2 /\ v2'[i] = v2[i]
    BY <1>0, <2>1, LineAdded
  <2>3. J!OfBuilds(v2', v6)
    <3>1. J!OfBuilds(v2, v6)
      BY <1>0, <2>1 DEF J!Entered
    <3> QED  BY <2>2, <3>1, FewerBuilds
  <2>4. J!Entered'
    BY <2>1, <2>2, <2>3 DEF J!Entered
  <2>5. v2' \in Seq(J!Lines)
    BY <2>2 DEF J!Texts
  <2> QED  BY <1>0, <2>1, <2>4, <2>5, JobsLeft
<1>2. CASE J!StartAny
  <2>0. PICK todo : todo \in Seq(JobTasks) /\ todo # <<>> /\ J!Start(todo)
    <3>1. PICK build \in JobBuilds :
            \/ \E tasks \in J!Scheduler(build) \cup J!UsageMonitor(build) \cup J!Pricing(build) :
                J!Start(tasks)
            \/ \E tasks \in J!Daemon(build) : J!Start(tasks)
      BY <1>2 DEF J!StartAny
    <3> QED  BY <3>1, TasksListed
  <2> DEFINE new == [J!Idle EXCEPT !.pc = "begin", !.todo = todo]
  <2>1. todo \in Seq(JobTasks) /\ todo # <<>>
    BY <2>0
  <2>2. v5.pc = "idle" /\ v5' \in {v5, new} /\ UNCHANGED <<v1, v2, v3, v4, v6, v8>>
    BY <2>0 DEF J!Start
  <2>3. new \in JobRuns /\ new.pc = "begin" /\ new.todo = todo
    BY <1>0, <2>1 DEF JobRuns, J!Steps
  <2> HIDE DEF new
  <2>4. v5'.pc \in {"idle", "begin"} /\ v5' \in JobRuns /\ (v5'.pc # "idle" => v5'.todo # <<>>)
    BY <1>0, <2>1, <2>2, <2>3
  <2>5. J!Entered'
    BY <1>0, <2>2, <2>4 DEF J!Entered
  <2> QED  BY <1>0, <2>2, <2>4, <2>5, JobsLeft
<1>3. CASE J!ReadCrontab
  <2> DEFINE job == J!First.job
  <2>1. /\ v1 = "linux" /\ v5.pc # "idle" /\ v5.todo # <<>> /\ job \in J!Labels
        /\ v6' = [v6 EXCEPT ![job] = "none"] /\ UNCHANGED <<v1, v2, v3, v4, v8>>
    BY <1>3, JobsTyped DEF J!ReadCrontab, J!Unsaid
  <2>2. PICK lines \in {v2, <<>>} :
          v5' \in {J!Done, [v5 EXCEPT !.pc = "crontab", !.read = lines]}
    BY <1>3 DEF J!ReadCrontab
  <2> DEFINE new == [v5 EXCEPT !.pc = "crontab", !.read = lines]
  <2>3. lines \in Seq(J!Lines) /\ lines \in J!Texts(v8) /\ J!OfBuilds(lines, v6)
    BY <1>0, <2>1, NothingUnderWay DEF J!Entered, J!Texts
  <2>4. /\ new \in JobRuns /\ new.pc = "crontab" /\ new.todo = v5.todo /\ new.read = lines
        /\ Head(new.todo) = J!First
    BY <1>0, <2>3 DEF JobRuns, J!Steps, J!First
  <2>5. v6' \in Said /\ v6'[job] = "none" /\ \A j : v6'[j] \in {v6[j], "none"}
    BY <1>0, <2>1 DEF Said
  <2>6. J!OfBuilds(v2, v6') /\ J!OfBuilds(lines, v6')
    BY <1>0, <2>1, <2>3, <2>5, FewerBuilds DEF J!Entered
  <2> HIDE DEF new, job
  <2>7. /\ v5' \in JobRuns /\ v5'.pc \in {"idle", "begin", "crontab"}
        /\ v5'.pc # "idle" => v5'.todo # <<>>
        /\ v5'.pc = "crontab" => v5'.read = lines /\ Head(v5'.todo) = J!First
    BY <2>1, <2>2, <2>4, JobsDone DEF new
  <2>8. J!Entered'
    BY <1>0, <2>1, <2>3, <2>5, <2>6, <2>7 DEF J!Entered, J!First, job
  <2> QED  BY <1>0, <2>1, <2>5, <2>7, <2>8, JobsLeft
<1>4. CASE J!WriteFails \/ J!BootstrapFails \/ J!Die
  <2>1. v5' = J!Idle /\ UNCHANGED <<v1, v2, v3, v4, v6, v8>>
    BY <1>4 DEF J!WriteFails, J!BootstrapFails, J!Die
  <2>2. J!Entered'
    BY <1>0, <2>1 DEF J!Entered
  <2> QED  BY <1>0, <2>1, <2>2, JobsLeft
<1>5. CASE J!Unsupported
  <2>1. UNCHANGED <<v1, v2, v3, v4, v5, v6, v8>> /\ v5.pc = "idle"
    BY <1>5 DEF J!Unsupported
  <2>2. J!Entered'
    BY <1>0, <2>1 DEF J!Entered
  <2> QED  BY <1>0, <2>1, <2>2, JobsLeft
<1> QED  BY <1>1, <1>2, <1>3, <1>4, <1>5

\* The steps on macOS, one job's list and load at a time.
LEMMA LaunchdSteps ==
    ASSUME J!Inv,
           \/ J!Login \/ J!NotListed \/ J!Bootout \/ J!BootoutFails \/ J!RemovePlist
           \/ J!CreatePlist \/ J!WritePlist \/ J!Bootstrap
    PROVE  J!Inv'
<1>0. /\ J!Types /\ J!Entered /\ J!AtWork /\ J!Listed /\ v5 \in JobRuns /\ v2 \in Seq(J!Lines)
      /\ v3 \in [J!Labels -> J!Lists] /\ v4 \in Said /\ v6 \in Said
      /\ v1 \in {"linux", "macos"} /\ v8 \in SUBSET J!Labels
  BY JobsTyped DEF J!Inv
<1>1. v1 = "macos" /\ v1' = v1 /\ v2' = v2 /\ v2 = <<>>
  BY <1>0 DEF J!Entered, J!AtWork, J!Login, J!NotListed, J!Bootout, J!BootoutFails,
              J!RemovePlist, J!CreatePlist, J!WritePlist, J!Bootstrap
<1>2. J!Entered'
  BY <1>1 DEF J!Entered
<1>3. CASE J!Login
  <2>1. /\ v5.pc = "idle" /\ UNCHANGED <<v3, v5, v6>> /\ v8' = {}
        /\ v4' = [j \in J!Labels |-> IF v3[j] = "torn" THEN "none" ELSE v3[j]]
    BY <1>3 DEF J!Login
  <2>2. v4' \in Said
    BY <1>0, <2>1 DEF Said, J!Lists
  <2>3. J!Types'
    BY <1>0, <1>1, <2>1, <2>2 DEF J!Types, Said
  <2>4. J!AtWork'
    BY <1>0, <1>1, <2>1 DEF J!AtWork
  <2>5. J!Listed'
    <3>1. \A j \in J!Labels : v6[j] # "none" => v3[j] = v6[j] /\ v3[j] # "torn"
      BY <1>0, <1>1, Instances DEF J!Listed, Said, J!JobsAssumption
    <3> QED  BY <2>1, <3>1 DEF J!Listed
  <2> QED  BY <1>2, <2>3, <2>4, <2>5 DEF J!Inv
<1>4. CASE ~J!Login
  <2> DEFINE job == J!First.job
             build == J!First.build
             At(pc) == [v5 EXCEPT !.pc = pc]
  <2>1. v5.pc # "idle" /\ v5.todo # <<>> /\ job \in J!Labels /\ build \in JobBuilds
    BY <1>4, JobsTyped DEF J!NotListed, J!Bootout, J!BootoutFails, J!RemovePlist,
                           J!CreatePlist, J!WritePlist, J!Bootstrap
  <2>2. \A pc \in J!Steps : /\ At(pc) \in JobRuns /\ At(pc).pc = pc
                            /\ At(pc).todo = v5.todo /\ Head(At(pc).todo) = J!First
    BY <1>0 DEF JobRuns, J!First
  <2>3. /\ J!Done \in JobRuns /\ J!Done.pc \in {"idle", "begin"}
        /\ J!Done.pc # "idle" => J!Done.todo # <<>>
    BY <2>1, JobsDone
  <2>4. {"remove", "write", "fill", "bootstrap"} \subseteq J!Steps
    BY DEF J!Steps
  <2>5. J!AfterRemoval \in {At("write"), J!Done}
    BY DEF J!AfterRemoval
  <2> HIDE DEF At
  <2>6. CASE J!NotListed \/ J!Bootout \/ J!BootoutFails
    <3>1. /\ v6' = [v6 EXCEPT ![job] = "none"] /\ v3' = v3
          /\ v5' \in {At("write"), At("remove"), J!Done}
      BY <2>5, <2>6 DEF J!NotListed, J!Bootout, J!BootoutFails, J!Unsaid, At
    <3>2. PICK b \in {v4[job], "none"} : v4' = [v4 EXCEPT ![job] = b]
      <4>1. v4 = [v4 EXCEPT ![job] = v4[job]]
        BY <1>0, <2>1 DEF Said
      <4> QED  BY <2>6, <4>1 DEF J!NotListed, J!Bootout, J!BootoutFails
    <3>3. /\ v6' \in Said /\ v4' \in Said /\ v6'[job] = "none" /\ v4'[job] = b
          /\ \A j \in J!Labels : j # job => v6'[j] = v6[j] /\ v4'[j] = v4[j]
      BY <1>0, <2>1, <3>1, <3>2 DEF Said
    <3>4. /\ v8' \in SUBSET J!Labels /\ (b = "none" \/ job \in v8')
          /\ \A j \in J!Labels : j # job => (j \in v8' <=> j \in v8)
      <4>1. CASE J!NotListed
        <5>1. v3[job] = "none" /\ v8' = v8
          BY <4>1 DEF J!NotListed
        <5> QED  BY <1>0, <2>1, <3>2, <5>1 DEF J!Listed
      <4>2. CASE J!Bootout
        <5>1. v4' = [v4 EXCEPT ![job] = "none"] /\ v8' = v8 \ {job}
          BY <4>2 DEF J!Bootout
        <5>2. b = "none"
          BY <1>0, <2>1, <3>3, <5>1 DEF Said
        <5> QED  BY <1>0, <5>1, <5>2
      <4>3. CASE J!BootoutFails
        <5>1. v8' = v8 \cup {j \in {job} : v4[j] # "none"}
          BY <4>3 DEF J!BootoutFails
        <5> QED  BY <1>0, <2>1, <3>2, <5>1
      <4> QED  BY <2>6, <4>1, <4>2, <4>3
    <3>5. /\ v5' \in JobRuns /\ (v5'.pc # "idle" => v5'.todo # <<>>)
          /\ v5'.pc \in {"idle", "begin", "remove", "write"}
          /\ v5'.pc \in {"remove", "write"} => Head(v5'.todo) = J!First
      BY <2>1, <2>2, <2>3, <2>4, <3>1
    <3> HIDE DEF job
    <3>6. J!Types'
      BY <1>0, <1>1, <3>1, <3>3, <3>4, <3>5 DEF J!Types, JobRuns, JobTasks, Said
    <3>7. J!AtWork'
      BY <1>1, <3>3, <3>4, <3>5 DEF J!AtWork, J!First, job
    <3>8. J!Listed'
      <4>1. ASSUME NEW j \in J!Labels
            PROVE  /\ v4'[j] # "none" => v3[j] = v4'[j] \/ j \in v8'
                   /\ v6'[j] # "none" => v3[j] = v6'[j] /\ v4'[j] = v6'[j]
        BY <1>0, <1>1, <3>3, <3>4 DEF J!Listed
      <4> QED  BY <1>1, <3>1, <4>1 DEF J!Listed
    <3> QED  BY <1>2, <3>6, <3>7, <3>8 DEF J!Inv
  <2>7. CASE J!RemovePlist \/ J!CreatePlist \/ J!WritePlist
    <3>1. PICK b \in J!Lists : v3' = [v3 EXCEPT ![job] = b]
          /\ (v5' = At("bootstrap") => b = build)
          /\ v5' \in {At("write"), At("fill"), At("bootstrap"), J!Done}
      <4>1. "none" \in J!Lists /\ "torn" \in J!Lists /\ build \in J!Lists
        BY <2>1 DEF J!Lists
      <4>2. /\ At("bootstrap") # At("write") /\ At("bootstrap") # At("fill")
            /\ At("bootstrap") # J!Done
        BY <2>2, <2>3, <2>4
      <4>3. CASE J!RemovePlist
        <5>1. v3' = [v3 EXCEPT ![job] = "none"] /\ v5' \in {At("write"), J!Done}
          BY <2>5, <4>3 DEF J!RemovePlist
        <5> QED  BY <4>1, <4>2, <5>1
      <4>4. CASE J!CreatePlist
        <5>1. v3' = [v3 EXCEPT ![job] = "torn"] /\ v5' = At("fill")
          BY <4>4 DEF J!CreatePlist, At
        <5> QED  BY <4>1, <4>2, <5>1
      <4>5. CASE J!WritePlist
        <5>1. v3' = [v3 EXCEPT ![job] = build] /\ v5' = At("bootstrap")
          BY <4>5 DEF J!WritePlist, At
        <5> QED  BY <4>1, <5>1
      <4> QED  BY <2>7, <4>3, <4>4, <4>5
    <3>2. /\ UNCHANGED <<v4, v6, v8>> /\ v6[job] = "none"
          /\ v4[job] = "none" \/ job \in v8
      BY <1>0, <1>1, <2>7 DEF J!RemovePlist, J!CreatePlist, J!WritePlist, J!AtWork
    <3>3. /\ v3' \in [J!Labels -> J!Lists] /\ v3'[job] = b
          /\ \A j \in J!Labels : j # job => v3'[j] = v3[j]
      BY <1>0, <2>1, <3>1
    <3>4. /\ v5' \in JobRuns /\ (v5'.pc # "idle" => v5'.todo # <<>>)
          /\ v5'.pc \in {"idle", "begin", "write", "fill", "bootstrap"}
          /\ v5'.pc \in {"write", "fill", "bootstrap"} => Head(v5'.todo) = J!First
          /\ v5'.pc = "bootstrap" => b = build
      BY <2>1, <2>2, <2>3, <2>4, <3>1
    <3> HIDE DEF job, build
    <3>5. J!Types'
      BY <1>0, <1>1, <3>2, <3>3, <3>4 DEF J!Types, JobRuns, JobTasks, Said
    <3>6. J!AtWork'
      BY <1>1, <3>2, <3>3, <3>4 DEF J!AtWork, J!First, job, build
    <3>7. J!Listed'
      BY <1>0, <1>1, <3>2, <3>3 DEF J!Listed
    <3> QED  BY <1>2, <3>5, <3>6, <3>7 DEF J!Inv
  <2>8. CASE J!Bootstrap
    <3>1. /\ v4' = [v4 EXCEPT ![job] = build] /\ v6' = [v6 EXCEPT ![job] = build]
          /\ v5' = J!Done /\ UNCHANGED <<v3, v8>> /\ v3[job] = build
      BY <1>0, <1>1, <2>8 DEF J!Bootstrap, J!AtWork
    <3>2. /\ v6' \in Said /\ v4' \in Said /\ v6'[job] = build /\ v4'[job] = build
          /\ \A j \in J!Labels : j # job => v6'[j] = v6[j] /\ v4'[j] = v4[j]
      BY <1>0, <2>1, <3>1 DEF Said
    <3> HIDE DEF job, build
    <3>3. J!Types'
      BY <1>0, <1>1, <2>3, <3>1, <3>2 DEF J!Types, JobRuns, JobTasks, Said
    <3>4. J!AtWork'
      BY <1>1, <2>3, <3>1 DEF J!AtWork
    <3>5. J!Listed'
      BY <1>0, <1>1, <3>1, <3>2 DEF J!Listed
    <3> QED  BY <1>2, <3>3, <3>4, <3>5 DEF J!Inv
  <2> QED  BY <1>4, <2>6, <2>7, <2>8
<1> QED  BY <1>3, <1>4

LEMMA JobsStep == J!Inv /\ [J!Next]_(J!vars) => J!Inv'
<1>1. J!Inv /\ J!Next => J!Inv'
  BY CrontabWrites, CrontabSteps, LaunchdSteps DEF J!Next
<1>2. J!Inv /\ UNCHANGED J!vars => J!Inv'
  BY DEF J!Inv, J!Types, J!Entered, J!AtWork, J!Listed, J!First, J!vars
<1> QED  BY <1>1, <1>2

LEMMA JobsKeep == J!Inv => J!TypeOK /\ J!JobsSound
<1> SUFFICES ASSUME J!Inv PROVE J!TypeOK /\ J!JobsSound
  OBVIOUS
<1>1. /\ J!Types /\ J!Entered /\ J!Listed /\ v2 \in Seq(J!Lines) /\ J!Paired(v2, FALSE, v8)
      /\ v5 \in JobRuns /\ v1 \in {"linux", "macos"} /\ v6 \in Said
  BY JobsTyped DEF J!Inv, J!Texts
<1>2. /\ DOMAIN v2 = 1..Len(v2) /\ Len(v2) \in Nat
      /\ \A i \in DOMAIN v2 : v2[i] \in J!Lines
  BY <1>1, ElementOfSeq, LenProperties
<1>3. J!TypeOK
  <2>1. \A i \in DOMAIN v2 : v2[i].kind \in {"tag", "command", "blank", "user"}
    BY <1>2, CrontabLines
  <2> QED  BY <1>1, <2>1 DEF J!Types, J!TypeOK, JobRuns
<1>4. J!OneEntryEach
  <2> SUFFICES ASSUME NEW job \in J!CronJobs
      PROVE  LET tags == {i \in DOMAIN v2 : v2[i] = J!Tag(job)}
                 commands == {i \in DOMAIN v2 : v2[i].kind = "command" /\ v2[i].of = job}
             IN /\ \A i, j \in tags : i = j
                /\ commands \subseteq {i + 1 : i \in tags}
                /\ job \notin v8 => commands = {i + 1 : i \in tags}
    BY DEF J!OneEntryEach
  <2> DEFINE tags == {i \in DOMAIN v2 : v2[i] = J!Tag(job)}
             commands == {i \in DOMAIN v2 : v2[i].kind = "command" /\ v2[i].of = job}
  <2>1. J!Tag(job).kind = "tag" /\ J!Tag(job).of = job
    BY DEF J!Tag, J!Line
  <2>2. \A i, j \in tags : i = j
    BY <1>1, <2>1 DEF J!Paired, J!TagsApart
  <2>3. ASSUME NEW i \in tags, job \notin v8 PROVE i + 1 \in commands
    BY <1>1, <2>1, <2>3 DEF J!Paired, J!TagsFollowed
  <2>4. ASSUME NEW i \in commands PROVE \E j \in tags : i = j + 1
    <3>1. i - 1 \in tags /\ i = (i - 1) + 1
      BY <1>1, <1>2 DEF J!Paired, J!CommandsTagged
    <3> QED  BY <3>1
  <2> HIDE DEF tags, commands
  <2>5. commands \subseteq {i + 1 : i \in tags}
    BY <2>4
  <2>6. job \notin v8 => commands = {i + 1 : i \in tags}
    BY <2>3, <2>5
  <2> QED  BY <2>2, <2>5, <2>6 DEF tags, commands
<1>5. J!LoadedIsListed
  BY <1>1 DEF J!Listed, J!LoadedIsListed
<1>6. J!RunsItsBuild
  <2> SUFFICES ASSUME NEW job \in J!Labels, v6[job] # "none"
      PROVE  IF v1 = "macos" THEN J!Installed(job) /\ v4[job] = v6[job]
             ELSE \A i \in DOMAIN v2 : v2[i].kind = "command" /\ v2[i].of = job =>
                    v2[i].build = v6[job]
    BY DEF J!RunsItsBuild
  <2>1. CASE v1 = "macos"
    BY <1>1, <2>1 DEF J!Listed, J!Installed
  <2>2. CASE v1 = "linux"
    BY <1>1, <2>2 DEF J!Entered, J!OfBuilds
  <2> QED  BY <1>1, <2>1, <2>2
<1> QED  BY <1>3, <1>4, <1>5, <1>6 DEF J!JobsSound

-----------------------------------------------------------------------------
(* The parts together *)

\* No two writers of the capture store are at the same conversation.
WritersApart == part = "web" => C!Apart

Inv == (part = "web" => C!Inv) /\ I!Inv

LEMMA InvInit == Init => Inv
BY CapturesInit, ImportsInit DEF Init, Inv

LEMMA InvStep == Inv /\ WritersApart /\ [Next]_vars => Inv'
<1> SUFFICES ASSUME Inv, WritersApart, [Next]_vars PROVE Inv'
  OBVIOUS
<1>1. CASE Web
  <2>1. UNCHANGED I!vars
    BY <1>1 DEF Web, I!vars
  <2> QED  BY <1>1, <2>1, CapturesStep, ImportsStep DEF Inv, WritersApart, Web
<1>2. CASE Exports
  BY <1>2, ImportsStep DEF Inv, Exports
<1>3. CASE Watch \/ Hooks \/ Jobs \/ Monitor
  <2>1. UNCHANGED <<part, I!vars>> /\ part # "web"
    BY <1>3 DEF Watch, Hooks, Jobs, Monitor, I!vars
  <2> QED  BY <2>1, ImportsStep DEF Inv
<1>4. CASE UNCHANGED vars
  <2>1. UNCHANGED <<part, C!vars, I!vars>>
    BY <1>4 DEF vars, C!vars, I!vars
  <2> QED  BY <2>1, CapturesStep, ImportsStep DEF Inv, WritersApart
<1> QED  BY <1>1, <1>2, <1>3, <1>4 DEF Next

LEMMA InvKeeps == Inv => IntakeKept
<1>1. ASSUME C!Inv PROVE C!ReportAddsUp
  <2> SUFFICES ASSUME NEW w \in Writers, v6[w].pc = "next"
               PROVE  Tried(v7[w]) /\ Met(v7[w]) = Ended(v7[w])
    BY DEF C!ReportAddsUp, Tried, Met, Ended
  <2>1. Tried(v7[w]) /\ Met(v7[w]) = Ended(v7[w]) + 0
    BY <1>1 DEF C!Inv, C!CountsAddUp, C!Writing, Tried, Met, Ended
  <2>2. Ended(v7[w]) \in Nat
    BY <1>1 DEF C!Inv, C!TypeOK, C!Counts, Ended
  <2> QED  BY <2>1, <2>2
<1> QED  BY <1>1 DEF Inv, IntakeKept, C!Inv, I!Inv

\* While no two writers are at the same conversation, whatever a writer was told is
\* saved stays until a saved copy of the same time takes its file, the current
\* copies are whole, and the counts of a run add up; an export that is listed has
\* each of its conversations or a warning for it; whichever calls fail and whoever
\* dies (archive/web/mod.rs, archive/imports/mod.rs).
THEOREM IntakeHolds == Spec /\ []WritersApart => []IntakeKept
<1>1. Spec /\ []WritersApart => []Inv
  BY InvInit, InvStep, PTL DEF Spec
<1> QED  BY <1>1, InvKeeps, PTL

\* In particular when there is one writer, as on a machine where only the browser
\* companion or one command at a time writes.
THEOREM OneWriterKeeps ==
    ASSUME \A v, w \in Writers : v = w
    PROVE  Spec => []IntakeKept
<1>1. WritersApart
  BY DEF WritersApart, C!Apart
<1>2. Spec => []WritersApart
  BY <1>1, PTL
<1> QED  BY <1>2, IntakeHolds, PTL

\* Whatever captures overlap, fail or die, the snapshot on the dashboard is of one
\* command: the first factors it printed, in order, and all of them once it has
\* ended; for any number of captures and outputs (usage_monitor.rs, scanner/db.rs).
THEOREM SnapshotsStayOwn == Spec => []SnapshotOwn
<1> DEFINE MInv == part = "monitor" => M!Inv
<1>1. Init => MInv
  BY MonitorInit DEF Init
<1>2. MInv /\ [Next]_vars => MInv'
  <2>1. CASE Monitor
    BY <2>1, MonitorStep DEF Monitor
  <2>2. CASE Web \/ Exports \/ Watch \/ Hooks \/ Jobs
    BY <2>2 DEF Web, Exports, Watch, Hooks, Jobs
  <2>3. CASE UNCHANGED vars
    <3>1. UNCHANGED <<part, M!vars>>
      BY <2>3 DEF vars, M!vars
    <3> QED  BY <3>1, MonitorStep
  <2> QED  BY <2>1, <2>2, <2>3 DEF Next
<1>3. MInv => SnapshotOwn
  BY MonitorKeeps DEF SnapshotOwn
<1> QED  BY <1>1, <1>2, <1>3, PTL DEF Spec

\* However many commands are run and wherever they die, the hook is installed once,
\* and the user's settings are in the files or their copies; for any builds, hooks
\* of the user's and number of commands (hook/install.rs, statusline/install.rs,
\* mcp/install.rs).
THEOREM InstallsStaySafe == Spec => []InstallsSafe
<1> DEFINE HInv == part = "hooks" => H!Inv
<1>1. Init => HInv
  BY InstallersInit DEF Init
<1>2. HInv /\ [Next]_vars => HInv'
  <2>1. CASE Hooks
    BY <2>1, InstallersStep DEF Hooks
  <2>2. CASE Web \/ Exports \/ Watch \/ Jobs \/ Monitor
    BY <2>2 DEF Web, Exports, Watch, Jobs, Monitor
  <2>3. CASE UNCHANGED vars
    <3>1. UNCHANGED <<part, H!vars>>
      BY <2>3 DEF vars, H!vars
    <3> QED  BY <3>1, InstallersStep
  <2> QED  BY <2>1, <2>2, <2>3 DEF Next
<1>3. HInv => InstallsSafe
  BY InstallersKeep DEF InstallsSafe
<1> QED  BY <1>1, <1>2, <1>3, PTL DEF Spec

\* However jobs are installed over themselves and around each other, and whatever
\* fails or dies between two steps, each has one tag in the crontab and at most one
\* command, below it, and exactly one unless a death cut the text there; a job that
\* launchd has loaded has its list unless launchd would not unload it; and a job
\* whose last install ended well runs from that build and no other; for any builds,
\* lines of the user's and number of commands (scheduler/cron.rs, launchd.rs).
THEOREM JobsStaySound == Spec => []JobsSound
<1> DEFINE JInv == part = "jobs" => J!Inv
<1>1. Init => JInv
  BY JobsInit DEF Init
<1>2. JInv /\ [Next]_vars => JInv'
  <2>1. CASE Jobs
    BY <2>1, JobsStep DEF Jobs
  <2>2. CASE Web \/ Exports \/ Watch \/ Hooks \/ Monitor
    BY <2>2 DEF Web, Exports, Watch, Hooks, Monitor
  <2>3. CASE UNCHANGED vars
    <3>1. UNCHANGED <<part, J!vars>>
      BY <2>3 DEF vars, J!vars
    <3> QED  BY <3>1, JobsStep
  <2> QED  BY <2>1, <2>2, <2>3 DEF Next
<1>3. JInv => JobsSound
  BY JobsKeep DEF JobsSound
<1> QED  BY <1>1, <1>2, <1>3, PTL DEF Spec

=============================================================================
