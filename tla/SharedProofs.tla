----------------------------- MODULE SharedProofs -----------------------------
(* Proofs about Shared, for any processes, tasks, bounds and answers.  The       *)
(* variables v1, v2, ... are those the part declares, in its order: of the       *)
(* Claude login v1 stored, v5 issued, v6 grants, v8 pc, v9 job and v11 lost; of  *)
(* Codex v3 file, v8 held, v9 pc, v10 poll, v11 answer and v13 lost; of the      *)
(* status polls v2 enabled, v4 page, v5 cache, v6 lock, v7 poll, v9 sigLock,     *)
(* v10 ask, v11 degraded, v12 spiking, v13 known, v14 seen, v15 told, v16 early; *)
(* of the quota history v1 clock, v2 turns, v3 history, v4 task, v5 content,     *)
(* v6 sweep and v7 noted.                                                        *)
EXTENDS Shared, FiniteSetTheorems, SequenceTheorems, WellFoundedInduction, TLAPS

-----------------------------------------------------------------------------
(* Numbers *)

\* Every set of numbers has a least one, and a bounded one has a greatest.
LEMMA LeastNumber ==
    ASSUME NEW Y, Y \subseteq Nat, Y # {}
    PROVE  \E m \in Y : \A n \in Y : m <= n
<1> DEFINE R == OpToRel(<, Nat)
<1>1. IsWellFoundedOn(R, Nat)
  BY NatLessThanWellFounded
<1>2. PICK m \in Y : \A n \in Y : <<n, m>> \notin R
  BY <1>1, WFMin
<1>3. \A n \in Y : ~(n < m)
  BY <1>2 DEF OpToRel
<1> QED  BY <1>3

LEMMA GreatestNumber ==
    ASSUME NEW Y, Y \subseteq Nat, Y # {}, NEW k \in Nat, \A n \in Y : n <= k
    PROVE  \E m \in Y : \A n \in Y : n <= m
<1> DEFINE Gaps == {k - n : n \in Y}
<1>1. Gaps \subseteq Nat /\ Gaps # {}
  BY \A n \in Y : k - n \in Nat
<1>2. PICK g \in Gaps : \A h \in Gaps : g <= h
  <2> HIDE DEF Gaps
  <2> QED  BY <1>1, LeastNumber
<1>3. PICK m \in Y : g = k - m
  OBVIOUS
<1>4. \A n \in Y : k - m <= k - n
  BY <1>2, <1>3
<1> QED  BY <1>4

LEMMA QuotaMin ==
    ASSUME NEW Y, Y \subseteq Nat, Y # {}
    PROVE  Q!Min(Y) \in Y /\ \A n \in Y : Q!Min(Y) <= n
<1>1. \E m \in Y : \A n \in Y : m <= n
  BY LeastNumber
<1> QED  BY <1>1 DEF Q!Min

LEMMA QuotaMax ==
    ASSUME NEW Y, Y \subseteq Nat, Y # {}, NEW k \in Nat, \A n \in Y : n <= k
    PROVE  Q!Max(Y) \in Y /\ \A n \in Y : n <= Q!Max(Y)
<1>1. \E m \in Y : \A n \in Y : m >= n
  BY GreatestNumber
<1> QED  BY <1>1 DEF Q!Max

LEMMA Division ==
    ASSUME NEW x \in Nat, NEW y \in Nat \ {0}
    PROVE  /\ x \div y \in Nat /\ (x \div y) * y <= x /\ x < (x \div y + 1) * y
OBVIOUS

\* What is multiplied keeps its order, and shows it.
LEMMA Products ==
    ASSUME NEW x \in Nat, NEW y \in Nat, NEW z \in Nat
    PROVE  /\ x * z \in Nat
           /\ x <= y => x * z <= y * z
           /\ x * z < y * z => x < y
<1>1. x * z \in Nat /\ (x <= y => x * z <= y * z)
  <2>1. ASSUME x <= y PROVE x * z <= y * z
    <3>1. y - x \in Nat /\ y * z = x * z + (y - x) * z
      BY <2>1
    <3>2. (y - x) * z \in Nat
      BY <3>1
    <3> QED  BY <3>1, <3>2
  <2> QED  BY <2>1
<1>2. y <= x => y * z <= x * z
  <2>1. ASSUME y <= x PROVE y * z <= x * z
    <3>1. x - y \in Nat /\ x * z = y * z + (x - y) * z
      BY <2>1
    <3>2. (x - y) * z \in Nat
      BY <3>1
    <3> QED  BY <3>1, <3>2
  <2> QED  BY <2>1
<1>3. y * z \in Nat
  OBVIOUS
<1> QED  BY <1>1, <1>2, <1>3

\* A rounded quotient lies between bounds of what is divided.
LEMMA Rounded ==
    ASSUME NEW num \in Nat, NEW den \in Nat \ {0}, NEW lo \in Nat, NEW hi \in Nat,
           lo * den <= num, num <= hi * den
    PROVE  (2 * num + den) \div (2 * den) \in lo .. hi
<1> DEFINE q == (2 * num + den) \div (2 * den)
<1>1. q \in Nat /\ q * (2 * den) <= 2 * num + den /\ 2 * num + den < (q + 1) * (2 * den)
  <2>1. 2 * num + den \in Nat /\ 2 * den \in Nat \ {0}
    OBVIOUS
  <2> QED  BY <2>1, Division
<1> HIDE DEF q
<1>2. lo * (2 * den) = 2 * (lo * den) /\ hi * (2 * den) = 2 * (hi * den)
      /\ (hi + 1) * (2 * den) = 2 * (hi * den) + 2 * den
      /\ lo * den \in Nat /\ hi * den \in Nat /\ 2 * den \in Nat
  OBVIOUS
<1>3. lo * (2 * den) < (q + 1) * (2 * den) /\ q * (2 * den) < (hi + 1) * (2 * den)
  <2> HIDE DEF q
  <2>1. q * (2 * den) \in Nat /\ (q + 1) * (2 * den) \in Nat
    BY <1>1
  <2> QED  BY <1>1, <1>2, <2>1
<1>4. lo < q + 1 /\ q < hi + 1
  BY <1>1, <1>2, <1>3, Products
<1> QED  BY <1>1, <1>4 DEF q

\* A function on 0..n whose values are computed each from the one before: there is
\* one, and by LeastNumber it has whatever its first value and each step keep.
Iterates(g, n, Y, base, step) ==
    /\ g \in [0..n -> Y] /\ g[0] = base
    /\ \A k \in 1..n : g[k] = step[<<g[k - 1], k>>]

LEMMA Iteration ==
    ASSUME NEW n \in Nat, NEW Y, NEW base \in Y, NEW step,
           \A p \in Y : \A k \in 1..n : step[<<p, k>>] \in Y
    PROVE  \E g : Iterates(g, n, Y, base, step)
<1> DEFINE Made(k) == \E g : Iterates(g, k, Y, base, step)
           Missed == {k \in 0..n : ~Made(k)}
<1> SUFFICES Missed = {}
  OBVIOUS
<1> SUFFICES ASSUME Missed # {} PROVE FALSE
  OBVIOUS
<1>1. PICK m \in Missed : \A k \in Missed : m <= k
  <2>1. Missed \subseteq Nat
    OBVIOUS
  <2> HIDE DEF Missed
  <2> QED  BY <2>1, LeastNumber
<1>2. CASE m = 0
  <2> DEFINE h == [i \in 0..0 |-> base]
  <2>1. h \in [0..0 -> Y] /\ h[0] = base
    OBVIOUS
  <2>2. \A i \in 1..0 : h[i] = step[<<h[i - 1], i>>]
    OBVIOUS
  <2> HIDE DEF h
  <2>3. Made(0)
    BY <2>1, <2>2 DEF Iterates
  <2> QED  BY <1>1, <1>2, <2>3
<1>3. CASE m # 0
  <2>1. m \in 1..n /\ m - 1 \in 0..n /\ Made(m - 1)
    <3>1. m \in 1..n /\ m - 1 \in 0..n /\ ~(m <= m - 1)
      BY <1>1, <1>3
    <3> HIDE DEF Made
    <3> QED  BY <1>1, <3>1
  <2>a. PICK g : Iterates(g, m - 1, Y, base, step)
    BY <2>1
  <2>2. /\ g \in [0..(m - 1) -> Y] /\ g[0] = base
        /\ \A i \in 1..(m - 1) : g[i] = step[<<g[i - 1], i>>]
    BY <2>a DEF Iterates
  <2> DEFINE h == [i \in 0..m |-> IF i = m THEN step[<<g[m - 1], m>>] ELSE g[i]]
  <2>3. g[m - 1] \in Y /\ step[<<g[m - 1], m>>] \in Y
    BY <2>1, <2>2
  <2>4. h \in [0..m -> Y] /\ h[0] = base
    BY <2>1, <2>2, <2>3
  <2>5. ASSUME NEW i \in 1..m PROVE h[i] = step[<<h[i - 1], i>>]
    <3>1. i \in 0..m /\ i - 1 \in 0..m /\ i - 1 # m /\ h[i - 1] = g[i - 1]
      BY <2>1
    <3>2. CASE i = m
      BY <3>1, <3>2
    <3>3. CASE i # m
      <4>1. i \in 1..(m - 1)
        BY <2>1, <3>3
      <4> QED  BY <2>2, <3>1, <3>3, <4>1
    <3> QED  BY <3>2, <3>3
  <2> HIDE DEF h
  <2>6. Made(m)
    BY <2>4, <2>5 DEF Iterates
  <2> QED  BY <1>1, <2>6
<1> QED  BY <1>2, <1>3

\* What the first value has, and each if the one before it has, the last has.
LEMMA KeptByIteration ==
    ASSUME NEW n \in Nat, NEW Y, NEW f, f[0] \in Y,
           \A k \in 1..n : f[k - 1] \in Y => f[k] \in Y
    PROVE  f[n] \in Y
<1> DEFINE Bad == {k \in 0..n : f[k] \notin Y}
<1> SUFFICES ASSUME Bad # {} PROVE FALSE
  OBVIOUS
<1>1. PICK m \in Bad : \A k \in Bad : m <= k
  <2>1. Bad \subseteq Nat
    OBVIOUS
  <2> HIDE DEF Bad
  <2> QED  BY <2>1, LeastNumber
<1>2. m # 0
  BY <1>1
<1>3. m \in 1..n /\ m - 1 \in 0..n /\ f[m - 1] \in Y
  BY <1>1, <1>2
<1> QED  BY <1>1, <1>3

-----------------------------------------------------------------------------
(* The Claude login *)

LEMMA ClaudeBounds ==
    /\ ClaudeTokens \in Nat \ {0} /\ MaxLocks \in Nat
    /\ None \notin Nat /\ None \notin T!Login /\ None # T!Torn
    /\ T!Torn \notin T!Login
BY Instances DEF T!TokensAssumption, T!Torn, T!Login, T!Tokens

LEMMA ClaudeInit == T!Init => T!Inv
<1> SUFFICES ASSUME T!Init PROVE T!Inv
  OBVIOUS
<1> USE ClaudeBounds DEF T!Init
<1>1. T!FirstLogin \in T!Login /\ T!NoJob \in T!Job
  BY DEF T!FirstLogin, T!Login, T!Tokens, T!NoJob, T!Job, T!Stores
<1>2. v4 \in SUBSET DOMAIN T!Overrides /\ T!OneOverride
  BY DEF T!OneOverride
<1>3. T!TypeOK
  <2>1. v1 \in [T!Stores -> T!Login \cup {None, T!Torn}]
    BY <1>1
  <2>2. v5 \in T!Tokens /\ v6 \in SUBSET T!Tokens /\ v7 \in 0..ClaudeTokens /\ v3 \in 0..MaxLocks
    BY DEF T!Tokens
  <2>3. v8 \in [Procs -> {"idle", "ask", "save", "write", "fill"}] /\ v9 \in [Procs -> T!Job]
    BY <1>1
  <2>4. v10 \in [Procs -> T!Answers]
    BY DEF T!Answers
  <2>5. v2 \in BOOLEAN /\ v11 \in BOOLEAN
    OBVIOUS
  <2> QED  BY <1>2, <2>1, <2>2, <2>3, <2>4, <2>5 DEF T!TypeOK
<1>4. PICK s \in T!Stores : v1 = [x \in T!Stores |-> IF x = s THEN T!FirstLogin ELSE None]
  OBVIOUS
<1>5. v1[s] \in T!Login /\ v1[s].refresh \in v6
  BY <1>1, <1>4 DEF T!FirstLogin
<1>6. T!Issued
  <2>1. \A x \in T!Stores : v1[x] = T!FirstLogin \/ v1[x] = None
    BY <1>4
  <2> QED  BY <1>4, <2>1 DEF T!Issued, T!FirstLogin
<1>7. T!InHand /\ T!GrantOwn /\ T!LiveSomewhere
  BY <1>5 DEF T!InHand, T!GrantOwn, T!LiveSomewhere, T!Saving
<1> QED  BY <1>2, <1>3, <1>6, <1>7 DEF T!Inv

\* A poll that is answered without a write leaves the logins as they are.
LEMMA ClaudeReplies ==
    ASSUME T!Inv, NEW p \in Procs, NEW a \in T!Answers, T!Reply(p, a),
           UNCHANGED <<v1, v2, v3, v4, v5, v6, v7>>,
           v11' \in BOOLEAN, (v11' = v11 /\ v8[p] \notin T!Saving) \/ v11' = TRUE
    PROVE  T!Inv'
<1>1. /\ v8' = [v8 EXCEPT ![p] = "idle"] /\ v9' = [v9 EXCEPT ![p] = T!NoJob]
      /\ v10' = [v10 EXCEPT ![p] = a]
  BY DEF T!Reply, T!Goto
<1>2. T!TypeOK /\ T!InHand /\ T!OneOverride /\ T!Issued /\ T!GrantOwn /\ T!LiveSomewhere
  BY DEF T!Inv
<1>3. T!NoJob \in T!Job
  BY DEF T!NoJob, T!Job, T!Stores
<1>4. T!TypeOK'
  BY <1>1, <1>2, <1>3 DEF T!TypeOK
<1>5. \A q \in Procs : v8'[q] # "idle" => q # p /\ v8'[q] = v8[q] /\ v9'[q] = v9[q]
  BY <1>1, <1>2 DEF T!TypeOK
<1>6. T!InHand' /\ T!OneOverride' /\ T!Issued'
  BY <1>2, <1>5 DEF T!InHand, T!OneOverride, T!Issued, T!Saving
<1>7. T!GrantOwn'
  BY <1>2, <1>5 DEF T!GrantOwn, T!Saving
<1>8. T!LiveSomewhere'
  <2>1. \A q \in Procs : q # p => v8'[q] = v8[q]
    BY <1>1, <1>2 DEF T!TypeOK
  <2> QED  BY <1>2, <2>1 DEF T!LiveSomewhere
<1> QED  BY <1>4, <1>6, <1>7, <1>8 DEF T!Inv

LEMMA ClaudePolls ==
    ASSUME T!Inv, NEW p \in Procs, T!Poll(p) \/ T!Refused(p)
    PROVE  T!Inv'
<1>1. T!TypeOK /\ T!InHand /\ T!OneOverride /\ T!Issued /\ T!GrantOwn /\ T!LiveSomewhere
  BY DEF T!Inv
<1>2. {"keychain-locked", "missing-credentials", "windows", "relogin"} \subseteq T!Answers
      /\ \A i \in DOMAIN T!Overrides : T!Overrides[i] \in T!Answers
  BY DEF T!Answers
<1>3. CASE T!PollOverridden(p)
  <2>a. PICK i \in v4 : v4 = {i}
    BY <1>1, <1>3 DEF T!PollOverridden, T!Override, T!OneOverride
  <2>b. i \in DOMAIN T!Overrides
    BY <1>1 DEF T!TypeOK
  <2>1. i \in 1..5
    BY <2>b DEF T!Overrides
  <2>2. T!Masking \in T!Answers
    BY <1>2, <2>a, <2>b, <2>1 DEF T!Masking
  <2> QED  BY <1>1, <1>3, <2>2, ClaudeReplies
           DEF T!PollOverridden, T!setup, T!service, T!Saving, T!TypeOK
<1>4. CASE T!PollMissing(p)
  <2>1. T!Missing \in T!Answers
    BY <1>2 DEF T!Missing
  <2> QED  BY <1>1, <1>4, <2>1, ClaudeReplies
           DEF T!PollMissing, T!setup, T!service, T!Saving, T!TypeOK
<1>5. CASE T!PollValid(p) \/ T!PollRelogin(p) \/ T!Refused(p)
  BY <1>1, <1>2, <1>5, ClaudeReplies
     DEF T!PollValid, T!PollRelogin, T!Refused, T!setup, T!service, T!Saving, T!TypeOK
<1>6. CASE T!PollExpired(p)
  <2> DEFINE login == T!Resolved.login
             r == [T!NoJob EXCEPT !.login = T!Resolved.login, !.from = T!Resolved.from]
  <2>1. PICK s \in T!Stores : T!Resolved = [login |-> v1[s], from |-> s]
                              /\ v1[s] \in T!Login /\ v1[s].refresh # None
    <3>1. T!Resolved.login # None /\ T!Resolved.login.refresh # None
      BY <1>6 DEF T!PollExpired
    <3>2. CASE T!FromKeychain # None
      <4>1. T!Resolved = [login |-> v1["keychain"], from |-> "keychain"]
        BY <3>2 DEF T!Resolved, T!FromKeychain
      <4>2. v1["keychain"] # T!Torn /\ v1["keychain"] # None
        BY <3>1, <4>1 DEF T!Torn
      <4>3. v1["keychain"] \in T!Login /\ v1["keychain"].refresh # None
        BY <1>1, <3>1, <4>1, <4>2 DEF T!TypeOK, T!Stores
      <4> QED  BY <4>1, <4>3 DEF T!Stores
    <3>3. CASE T!FromKeychain = None
      <4>1. T!Resolved = [login |-> T!FromFile, from |-> "file"]
        BY <3>3 DEF T!Resolved
      <4>2. T!FromFile = v1["file"] /\ v1["file"] \in T!Login
        BY <3>1, <4>1 DEF T!FromFile
      <4> QED  BY <3>1, <4>1, <4>2 DEF T!Stores
    <3> QED  BY <3>2, <3>3
  <2>2. r.login = v1[s] /\ r \in T!Job
    BY <2>1 DEF T!NoJob, T!Job, T!Login
  <2> HIDE DEF r
  <2>3. /\ v9' = [v9 EXCEPT ![p] = r] /\ v8' = [v8 EXCEPT ![p] = "ask"] /\ v8[p] = "idle"
        /\ UNCHANGED <<v1, v2, v3, v4, v5, v6, v7, v10, v11>>
    BY <1>6 DEF T!PollExpired, T!Goto, T!setup, T!service, r
  <2>4. \A q \in Procs : q # p => v8'[q] = v8[q] /\ v9'[q] = v9[q]
    BY <1>1, <2>3 DEF T!TypeOK
  <2>5. v8'[p] = "ask" /\ v9'[p].login = v1[s]
    BY <1>1, <2>2, <2>3 DEF T!TypeOK
  <2>6. T!TypeOK'
    BY <1>1, <2>2, <2>3 DEF T!TypeOK
  <2>7. v1[s].refresh \in T!Tokens /\ v1[s].refresh <= v5
    BY <1>1, <2>1 DEF T!Login, T!Issued
  <2>8. T!InHand' /\ T!OneOverride' /\ T!Issued'
    BY <1>1, <2>1, <2>3, <2>4, <2>5, <2>7 DEF T!InHand, T!OneOverride, T!Issued, T!Saving
  <2>9. T!GrantOwn'
    BY <1>1, <2>1, <2>3, <2>4, <2>5 DEF T!GrantOwn, T!Saving
  <2>10. T!LiveSomewhere'
    BY <1>1, <2>3, <2>4 DEF T!LiveSomewhere, T!Saving
  <2> QED  BY <2>6, <2>8, <2>9, <2>10 DEF T!Inv
<1> QED  BY <1>3, <1>4, <1>5, <1>6 DEF T!Poll

\* A token is used and replaced by a new one.
LEMMA ClaudeGranted ==
    ASSUME Rotates, T!Inv, NEW token, T!Granted(token)
    PROVE  /\ v5' \in T!Tokens /\ v5' = v5 + 1 /\ v5 \in Nat /\ v7' = v7
           /\ v6' = (v6 \ {token}) \cup {v5'} /\ v6' \in SUBSET T!Tokens
           /\ v6' \subseteq 1..v5' /\ v5' \in v6'
           /\ \A n \in 1..v5 : n # v5'
<1>1. v5 \in T!Tokens /\ v6 \in SUBSET T!Tokens /\ v6 \subseteq 1..v5
  BY DEF T!Inv, T!TypeOK, T!Issued
<1>2. v5' \in T!Tokens /\ v5' = v5 + 1 /\ v5 \in Nat
  BY <1>1, ClaudeBounds DEF T!Granted, T!Tokens
<1> QED  BY <1>1, <1>2 DEF T!Granted

LEMMA ClaudeGrants ==
    ASSUME Rotates, T!Inv, NEW p \in Procs, T!Grant(p) \/ T!AnswerLost(p)
    PROVE  T!Inv'
<1>1. /\ T!TypeOK /\ T!InHand /\ T!OneOverride /\ T!Issued /\ T!GrantOwn
      /\ T!LiveSomewhere
  BY DEF T!Inv
<1> DEFINE t == v9[p].login.refresh
<1>2. /\ v8[p] = "ask" /\ T!Granted(t) /\ UNCHANGED <<v1, v2, v3, v4>>
      /\ v9[p].login \in T!Login /\ t \in T!Tokens /\ t <= v5
  BY <1>1 DEF T!Grant, T!AnswerLost, T!setup, T!InHand, T!Issued
<1>3. /\ v5' \in T!Tokens /\ v5' = v5 + 1 /\ v5 \in Nat /\ v7' = v7
      /\ v6' = (v6 \ {t}) \cup {v5'} /\ v6' \in SUBSET T!Tokens
      /\ v6' \subseteq 1..v5' /\ v5' \in v6'
      /\ \A n \in 1..v5 : n # v5'
  BY <1>2, ClaudeGranted
<1>4. /\ \A s \in T!Stores : v1[s] \in T!Login =>
           v1[s].refresh \in 1..v5 \cup {None} /\ v1[s].refresh # v5'
      /\ \A q \in Procs : v8[q] = "ask" => v9[q].login.refresh \in 1..v5
      /\ \A q \in Procs : v8[q] \in T!Saving => v9[q].refresh \in 1..v5 /\ v9[q].refresh # t
  <2>1. \A s \in T!Stores : v1[s] \in T!Login => v1[s].refresh \in 1..v5 \cup {None}
    BY <1>1 DEF T!Issued
  <2>2. None # v5'
    BY <1>3, ClaudeBounds DEF T!Tokens
  <2>3. \A q \in Procs : v8[q] = "ask" => v9[q].login.refresh \in 1..v5
    BY <1>1, <1>3, ClaudeBounds DEF T!InHand, T!Issued, T!Tokens
  <2>4. \A q \in Procs : v8[q] \in T!Saving => v9[q].refresh \in 1..v5 /\ v9[q].refresh # t
    BY <1>1, <1>2 DEF T!InHand, T!Issued, T!GrantOwn
  <2> QED  BY <1>3, <2>1, <2>2, <2>3, <2>4
<1>5. T!OneOverride'
  BY <1>1, <1>2 DEF T!OneOverride
<1> HIDE DEF t
<1>6. CASE T!Grant(p)
  <2>1. PICK r : r = [v9[p] EXCEPT !.access = v5', !.refresh = v5']
    OBVIOUS
  <2>2. /\ v9' = [v9 EXCEPT ![p] = r] /\ v8' = [v8 EXCEPT ![p] = "save"]
        /\ v10' = v10 /\ v11' = v11
    BY <1>1, <1>6, <2>1 DEF T!Grant, T!Goto, T!TypeOK
  <2>3. r \in T!Job /\ r.access = v5' /\ r.refresh = v5'
    BY <1>1, <1>3, <2>1 DEF T!TypeOK, T!Job
  <2>4. /\ \A q \in Procs : q # p => v8'[q] = v8[q] /\ v9'[q] = v9[q]
        /\ v8'[p] = "save" /\ v9'[p] = r
    BY <1>1, <2>2 DEF T!TypeOK
  <2>5. T!TypeOK'
    BY <1>1, <1>2, <1>3, <2>2, <2>3 DEF T!TypeOK
  <2>6. T!InHand'
    BY <1>1, <1>3, <1>4, <2>3, <2>4 DEF T!InHand, T!Saving
  <2>7. T!Issued'
    BY <1>1, <1>2, <1>3, <1>4, <2>4 DEF T!Issued
  <2>8. T!GrantOwn'
    BY <1>1, <1>2, <1>3, <1>4, <2>3, <2>4 DEF T!GrantOwn, T!Saving
  <2>9. T!LiveSomewhere'
    BY <2>4 DEF T!LiveSomewhere, T!Saving
  <2> QED  BY <1>5, <2>5, <2>6, <2>7, <2>8, <2>9 DEF T!Inv
<1>7. CASE T!AnswerLost(p)
  <2>2. /\ v9' = [v9 EXCEPT ![p] = T!NoJob] /\ v8' = [v8 EXCEPT ![p] = "idle"]
        /\ v10' = [v10 EXCEPT ![p] = "relogin"] /\ v11' = TRUE
    BY <1>7 DEF T!AnswerLost, T!Reply, T!Goto
  <2>3. T!NoJob \in T!Job /\ "relogin" \in T!Answers
    BY DEF T!NoJob, T!Job, T!Stores, T!Answers
  <2>4. /\ \A q \in Procs : q # p => v8'[q] = v8[q] /\ v9'[q] = v9[q]
        /\ v8'[p] = "idle"
    BY <1>1, <2>2 DEF T!TypeOK
  <2>5. T!TypeOK'
    BY <1>1, <1>2, <1>3, <2>2, <2>3 DEF T!TypeOK
  <2>6. T!InHand'
    BY <1>1, <1>3, <1>4, <2>4 DEF T!InHand, T!Saving
  <2>7. T!Issued'
    BY <1>1, <1>2, <1>3, <1>4, <2>4 DEF T!Issued
  <2>8. T!GrantOwn'
    BY <1>1, <1>2, <2>4 DEF T!GrantOwn, T!Saving
  <2>9. T!LiveSomewhere'
    BY <2>2 DEF T!LiveSomewhere
  <2> QED  BY <1>5, <2>5, <2>6, <2>7, <2>8, <2>9 DEF T!Inv
<1> QED  BY <1>6, <1>7

LEMMA ClaudeWrites ==
    ASSUME Rotates, T!Inv, NEW p \in Procs,
           T!ReadStore(p) \/ T!Truncate(p) \/ T!WriteStore(p)
    PROVE  T!Inv'
<1>1. /\ T!TypeOK /\ T!InHand /\ T!OneOverride /\ T!Issued /\ T!GrantOwn
      /\ T!LiveSomewhere
  BY DEF T!Inv
<1>2. /\ UNCHANGED <<v2, v3, v4, v5, v6, v7, v11>> /\ v8[p] \in T!Saving
      /\ v9[p] \in T!Job /\ v9[p].from \in T!Stores
  BY <1>1 DEF T!ReadStore, T!Truncate, T!WriteStore, T!setup, T!service, T!Saving,
              T!TypeOK, T!Job
<1>3. T!OneOverride'
  BY <1>1, <1>2 DEF T!OneOverride
<1>4. CASE T!ReadStore(p)
  <2>1. PICK r : r = [v9[p] EXCEPT !.contents = v1[v9[p].from]]
    OBVIOUS
  <2>2. /\ v9' = [v9 EXCEPT ![p] = r] /\ v8' = [v8 EXCEPT ![p] = "write"]
        /\ UNCHANGED <<v1, v10>>
    BY <1>1, <1>4, <2>1 DEF T!ReadStore, T!Goto, T!TypeOK
  <2>3. r \in T!Job /\ r.access = v9[p].access /\ r.refresh = v9[p].refresh
    BY <1>1, <1>2, <2>1 DEF T!TypeOK, T!Job
  <2>4. /\ \A q \in Procs : q # p => v8'[q] = v8[q] /\ v9'[q] = v9[q]
        /\ v8'[p] = "write" /\ v9'[p] = r
    BY <1>1, <2>2 DEF T!TypeOK
  <2>5. T!TypeOK'
    BY <1>1, <1>2, <2>2, <2>3 DEF T!TypeOK
  <2>6. T!InHand'
    BY <1>1, <1>2, <2>3, <2>4 DEF T!InHand, T!Saving
  <2>7. T!Issued'
    BY <1>1, <1>2, <2>2, <2>4 DEF T!Issued
  <2>8. T!GrantOwn'
    BY <1>1, <1>2, <2>2, <2>3, <2>4 DEF T!GrantOwn, T!Saving
  <2>9. T!LiveSomewhere'
    BY <2>4 DEF T!LiveSomewhere, T!Saving
  <2> QED  BY <1>3, <2>5, <2>6, <2>7, <2>8, <2>9 DEF T!Inv
<1>5. CASE T!Truncate(p)
  <2>1. /\ v1' = [v1 EXCEPT !["file"] = T!Torn] /\ v8' = [v8 EXCEPT ![p] = "fill"]
        /\ UNCHANGED <<v9, v10>>
    BY <1>5 DEF T!Truncate, T!Goto
  <2>2. /\ \A q \in Procs : q # p => v8'[q] = v8[q]
        /\ v8'[p] = "fill"
    BY <1>1, <2>1 DEF T!TypeOK
  <2>3. \A s \in T!Stores : v1'[s] \in T!Login => v1'[s] = v1[s]
    BY <1>1, <2>1, ClaudeBounds DEF T!TypeOK
  <2>4. T!TypeOK'
    BY <1>1, <1>2, <2>1 DEF T!TypeOK
  <2>5. T!InHand' /\ T!Issued'
    BY <1>1, <1>2, <2>1, <2>2, <2>3 DEF T!InHand, T!Issued, T!Saving
  <2>6. T!GrantOwn'
    BY <1>1, <1>2, <2>1, <2>2, <2>3 DEF T!GrantOwn, T!Saving
  <2>7. T!LiveSomewhere'
    BY <2>2 DEF T!LiveSomewhere, T!Saving
  <2> QED  BY <1>3, <2>4, <2>5, <2>6, <2>7 DEF T!Inv
<1>6. CASE T!WriteStore(p)
  <2> DEFINE s == v9[p].from
  <2>1. PICK b : b = T!Built(v9[p].contents, v9[p].access, v9[p].refresh)
    OBVIOUS
  <2>2. /\ v1' = [v1 EXCEPT ![s] = b] /\ v8' = [v8 EXCEPT ![p] = "idle"]
        /\ v9' = [v9 EXCEPT ![p] = T!NoJob] /\ v10' = [v10 EXCEPT ![p] = "windows"]
    BY <1>6, <2>1 DEF T!WriteStore, T!Reply, T!Goto
  <2>3. /\ v9[p].access \in T!Tokens /\ v9[p].refresh \in v6
        /\ v9[p].refresh \in T!Tokens /\ v9[p].refresh # None
    BY <1>1, <1>2, ClaudeBounds DEF T!InHand, T!TypeOK, T!Tokens
  <2>4. b \in T!Login /\ b.refresh = v9[p].refresh
    BY <2>1, <2>3 DEF T!Built, T!Login
  <2>5. T!NoJob \in T!Job /\ "windows" \in T!Answers
    BY DEF T!NoJob, T!Job, T!Stores, T!Answers
  <2>6. /\ \A q \in Procs : q # p => v8'[q] = v8[q] /\ v9'[q] = v9[q]
        /\ v8'[p] = "idle"
        /\ \A x \in T!Stores : v1'[x] = IF x = s THEN b ELSE v1[x]
    BY <1>1, <1>2, <2>2 DEF T!TypeOK
  <2> HIDE DEF s
  <2>7. s \in T!Stores
    BY <1>2 DEF s
  <2>8. T!TypeOK'
    BY <1>1, <1>2, <2>2, <2>4, <2>5 DEF T!TypeOK
  <2>9. T!InHand'
    BY <1>1, <1>2, <2>6 DEF T!InHand, T!Saving
  <2>10. T!Issued'
    BY <1>1, <1>2, <2>3, <2>4, <2>6 DEF T!Issued
  <2>11. T!GrantOwn'
    BY <1>1, <1>2, <2>4, <2>6 DEF T!GrantOwn, T!Saving
  <2>12. T!LiveSomewhere'
    BY <1>2, <2>3, <2>4, <2>6, <2>7 DEF T!LiveSomewhere
  <2> QED  BY <1>3, <2>8, <2>9, <2>10, <2>11, <2>12 DEF T!Inv
<1> QED  BY <1>4, <1>5, <1>6

LEMMA ClaudeStops ==
    ASSUME T!Inv, NEW p \in Procs, T!WriteFails(p) \/ T!Crash(p)
    PROVE  T!Inv'
<1>1. T!TypeOK
  BY DEF T!Inv
<1>2. CASE T!WriteFails(p)
  <2>1. "windows" \in T!Answers
    BY DEF T!Answers
  <2> QED  BY <1>2, <2>1, ClaudeReplies DEF T!WriteFails, T!setup, T!service
<1>3. CASE T!Crash(p)
  <2>1. v10[p] \in T!Answers /\ v10 = [v10 EXCEPT ![p] = v10[p]]
        /\ v8[p] \in {"ask", "save", "write", "fill"}
    BY <1>1, <1>3 DEF T!TypeOK, T!Crash
  <2>2. T!Reply(p, v10[p])
    BY <1>3, <2>1 DEF T!Crash, T!Reply
  <2>3. v11' \in BOOLEAN /\ ((v11' = v11 /\ v8[p] \notin T!Saving) \/ v11' = TRUE)
    BY <1>1, <1>3, <2>1 DEF T!TypeOK, T!Crash, T!Saving
  <2> QED  BY <1>3, <2>1, <2>2, <2>3, ClaudeReplies DEF T!Crash, T!setup, T!service
<1> QED  BY <1>2, <1>3

\* Claude Code, the user, the clock and the keychain.
LEMMA ClaudeOthers ==
    ASSUME Rotates, T!Inv,
           (\E s \in T!Stores : T!ClaudeRefresh(s) \/ T!ClaudeLogin(s))
             \/ T!Expire \/ T!LockKeychain
    PROVE  T!Inv'
<1>1. /\ T!TypeOK /\ T!InHand /\ T!OneOverride /\ T!Issued /\ T!GrantOwn
      /\ T!LiveSomewhere
  BY DEF T!Inv
<1>2. UNCHANGED <<v4, v8, v9, v10, v11>>
  BY DEF T!ClaudeRefresh, T!ClaudeLogin, T!Expire, T!LockKeychain, T!setup
<1>3. T!OneOverride'
  BY <1>1, <1>2 DEF T!OneOverride
<1>4. CASE T!Expire \/ T!LockKeychain
  <2>1. UNCHANGED <<v1, v5, v6>>
    BY <1>4 DEF T!Expire, T!LockKeychain, T!service
  <2>2. T!TypeOK'
    <3>1. v7' \in 0..ClaudeTokens
      BY <1>1, <1>4, ClaudeBounds DEF T!Expire, T!LockKeychain, T!service, T!TypeOK, T!Tokens
    <3>2. v3' \in 0..MaxLocks
      BY <1>1, <1>4, ClaudeBounds DEF T!Expire, T!LockKeychain, T!setup, T!TypeOK
    <3>3. v2' = v2 \/ v2' = ~v2
      BY <1>4 DEF T!Expire, T!LockKeychain, T!setup
    <3>4. v2' \in BOOLEAN
      BY <1>1, <3>3 DEF T!TypeOK
    <3> QED  BY <1>1, <1>2, <2>1, <3>1, <3>2, <3>4 DEF T!TypeOK
  <2>3. T!InHand' /\ T!Issued' /\ T!GrantOwn' /\ T!LiveSomewhere'
    BY <1>1, <1>2, <2>1 DEF T!InHand, T!Issued, T!GrantOwn, T!LiveSomewhere
  <2> QED  BY <1>3, <2>2, <2>3 DEF T!Inv
<1>5. ASSUME NEW s \in T!Stores, T!ClaudeRefresh(s) \/ T!ClaudeLogin(s)
      PROVE  T!Inv'
  <2>1. PICK b \in T!Login : v1' = [v1 EXCEPT ![s] = b] /\ b.refresh = v5'
    <3>1. CASE T!ClaudeRefresh(s)
      <4>1. v1[s] \in T!Login /\ v5' \in T!Tokens
        BY <3>1, ClaudeGranted DEF T!ClaudeRefresh
      <4>2. PICK b : b = [v1[s] EXCEPT !.access = v5', !.refresh = v5']
        OBVIOUS
      <4>3. b \in T!Login /\ b.refresh = v5'
        BY <4>1, <4>2 DEF T!Login
      <4>4. v1' = [v1 EXCEPT ![s] = b]
        BY <1>1, <3>1, <4>2 DEF T!ClaudeRefresh, T!TypeOK
      <4> QED  BY <4>3, <4>4
    <3>2. CASE T!ClaudeLogin(s)
      <4>1. PICK b : b = [access |-> v5', refresh |-> v5', wrapped |-> TRUE,
                          others |-> TRUE]
        OBVIOUS
      <4>2. v5' \in T!Tokens
        BY <1>1, <3>2, ClaudeBounds DEF T!ClaudeLogin, T!TypeOK, T!Tokens
      <4>3. b \in T!Login /\ b.refresh = v5' /\ v1' = [v1 EXCEPT ![s] = b]
        BY <3>2, <4>1, <4>2 DEF T!ClaudeLogin, T!Login
      <4> QED  BY <4>3
    <3> QED  BY <1>5, <3>1, <3>2
  <2>2. /\ v5' \in T!Tokens /\ v5' = v5 + 1 /\ v5 \in Nat /\ v7' = v7
        /\ v6' \in SUBSET T!Tokens /\ v6' \subseteq 1..v5' /\ v5' \in v6'
        /\ \A n \in 1..v5 : n # v5'
        /\ UNCHANGED <<v2, v3>>
        /\ \A q \in Procs : v8[q] \in T!Saving => v9[q].refresh \in v6'
    <3>1. CASE T!ClaudeRefresh(s)
      <4>1. T!Granted(v1[s].refresh) /\ v1[s] \in T!Login /\ UNCHANGED <<v2, v3>>
        BY <3>1 DEF T!ClaudeRefresh, T!setup
      <4>2. \A q \in Procs : v8[q] \in T!Saving =>
                v9[q].refresh \in v6 /\ v9[q].refresh # v1[s].refresh
        BY <1>1, <4>1 DEF T!InHand, T!GrantOwn
      <4> QED  BY <4>1, <4>2, ClaudeGranted
    <3>2. CASE T!ClaudeLogin(s)
      BY <1>1, <3>2, ClaudeBounds
         DEF T!ClaudeLogin, T!setup, T!TypeOK, T!Tokens, T!Issued, T!InHand
    <3> QED  BY <1>5, <3>1, <3>2
  <2>3. \A x \in T!Stores : v1'[x] = IF x = s THEN b ELSE v1[x]
    BY <1>1, <2>1 DEF T!TypeOK
  <2>4. \A q \in Procs : v8[q] \in T!Saving => v9[q].refresh \in 1..v5
    BY <1>1 DEF T!InHand, T!Issued
  <2>5. T!TypeOK'
    BY <1>1, <1>2, <2>1, <2>2 DEF T!TypeOK
  <2>6. T!InHand'
    BY <1>1, <1>2, <2>2 DEF T!InHand
  <2>7. T!Issued'
    <3>1. \A q \in Procs : v8[q] = "ask" => v9[q].login.refresh \in Nat
      BY <1>1, ClaudeBounds DEF T!InHand, T!Tokens
    <3>2. 1..v5 \subseteq 1..v5' /\ v5' \in 1..v5'
      BY <2>2, ClaudeBounds DEF T!Tokens
    <3> QED  BY <1>1, <1>2, <2>1, <2>2, <2>3, <3>1, <3>2 DEF T!Issued
  <2>8. T!GrantOwn'
    BY <1>1, <1>2, <2>1, <2>2, <2>3, <2>4 DEF T!GrantOwn
  <2>9. T!LiveSomewhere'
    BY <2>1, <2>2, <2>3 DEF T!LiveSomewhere
  <2> QED  BY <1>3, <2>5, <2>6, <2>7, <2>8, <2>9 DEF T!Inv
<1> QED  BY <1>4, <1>5

LEMMA ClaudeStep == Rotates /\ T!Inv /\ [T!Next]_(T!vars) => T!Inv'
<1>1. Rotates /\ T!Inv /\ T!Next => T!Inv'
  BY ClaudePolls, ClaudeGrants, ClaudeWrites, ClaudeStops, ClaudeOthers
     DEF T!Next, T!Refresh
<1>2. T!Inv /\ UNCHANGED T!vars => T!Inv'
  BY DEF T!Inv, T!TypeOK, T!InHand, T!OneOverride, T!Issued, T!GrantOwn, T!LiveSomewhere,
         T!vars, T!setup, T!service
<1> QED  BY <1>1, <1>2

-----------------------------------------------------------------------------
(* The Codex login *)

LEMMA CodexBounds ==
    /\ CodexTokens \in Nat \ {0} /\ MaxServers \in Nat \ {0} /\ MaxPolls \in Nat
    /\ None \notin Nat /\ None \notin X!Errors
    /\ \A t \in X!Tokens : t # None /\ t \in Nat
BY Instances DEF X!CodexAssumption, X!Tokens

LEMMA CodexFiles ==
    /\ X!NoFile \in X!Files /\ X!ShortFile \in X!Files /\ X!ApiKeyFile \in X!Files
    /\ X!NoFile.kind = "absent" /\ X!NoFile.refresh = None
    /\ X!ShortFile.kind = "torn" /\ X!ShortFile.refresh = None
    /\ X!ApiKeyFile.kind = "api-key" /\ X!ApiKeyFile.refresh = None
    /\ \A f \in X!LoginFiles : f \in X!Files /\ f.kind = "chatgpt"
                               /\ f.refresh \in X!Tokens \cup {None}
    /\ \A a \in X!Tokens, r \in X!Tokens \cup {None} :
         X!LoginFile(a, r) \in X!LoginFiles /\ X!LoginFile(a, r).refresh = r
    /\ \A f \in X!LoginFiles, t \in X!Tokens :
         [f EXCEPT !.access = t, !.refresh = t] = X!LoginFile(t, t)
    /\ \A f \in X!Files : f \in {X!NoFile, X!ShortFile, X!ApiKeyFile} \/ f \in X!LoginFiles
<1>1. /\ X!NoFile.kind = "absent" /\ X!NoFile.refresh = None
      /\ X!ShortFile.kind = "torn" /\ X!ShortFile.refresh = None
      /\ X!ApiKeyFile.kind = "api-key" /\ X!ApiKeyFile.refresh = None
  BY DEF X!NoFile, X!ShortFile, X!ApiKeyFile
<1>2. ASSUME NEW f \in X!LoginFiles
      PROVE  /\ f.kind = "chatgpt" /\ f.refresh \in X!Tokens \cup {None}
             /\ \A t \in X!Tokens :
                  [f EXCEPT !.access = t, !.refresh = t] = X!LoginFile(t, t)
  <2>1. PICK a \in X!Tokens, r \in X!Tokens \cup {None} :
            f = [kind |-> "chatgpt", access |-> a, refresh |-> r, others |-> TRUE]
    BY DEF X!LoginFiles, X!LoginFile
  <2>2. f.kind = "chatgpt" /\ f.refresh \in X!Tokens \cup {None}
    BY <2>1
  <2>3. ASSUME NEW t \in X!Tokens
        PROVE  [f EXCEPT !.access = t, !.refresh = t] = X!LoginFile(t, t)
    <3>1. PICK g : g = [f EXCEPT !.access = t]
      OBVIOUS
    <3>b. PICK b : b = TRUE
      OBVIOUS
    <3>2. g = [kind |-> "chatgpt", access |-> t, refresh |-> r, others |-> b]
      BY <2>1, <3>1, <3>b
    <3>3. [f EXCEPT !.access = t, !.refresh = t] = [g EXCEPT !.refresh = t]
      BY <2>1, <3>1
    <3>4. [g EXCEPT !.refresh = t]
            = [kind |-> "chatgpt", access |-> t, refresh |-> t, others |-> b]
      BY <3>2
    <3> QED  BY <3>3, <3>4, <3>b DEF X!LoginFile
  <2> QED  BY <2>2, <2>3
<1>3. ASSUME NEW a \in X!Tokens, NEW r \in X!Tokens \cup {None}
      PROVE  X!LoginFile(a, r) \in X!LoginFiles /\ X!LoginFile(a, r).refresh = r
  <2>1. X!LoginFile(a, r).refresh = r
    BY DEF X!LoginFile
  <2>2. X!LoginFile(a, r) \in {X!LoginFile(b, t) : b \in X!Tokens, t \in X!Tokens \cup {None}}
    OBVIOUS
  <2> QED  BY <2>1, <2>2 DEF X!LoginFiles
<1> QED  BY <1>1, <1>2, <1>3 DEF X!Files

LEMMA CodexKinds ==
    \A f \in X!Files : /\ f.refresh \in X!Tokens \cup {None}
                       /\ f.kind \in {"absent", "torn", "api-key", "chatgpt"}
                       /\ f.refresh # None => f.kind = "chatgpt"
                       /\ f.kind = "chatgpt" => f \in X!LoginFiles
BY CodexFiles

\* A trace of at most three attempts can be made longer by one.
LEMMA CodexTraces ==
    ASSUME NEW p \in X!Poll
    PROVE  /\ Len(p.attempts) \in 0..4
           /\ Len(p.attempts) <= 3 => \A source \in X!Sources, ok \in BOOLEAN :
                /\ X!Tried(p, source, ok) \in X!Poll
                /\ X!Tried(p, source, ok).attempts = Append(p.attempts, <<source, ok>>)
                /\ Len(X!Tried(p, source, ok).attempts) = Len(p.attempts) + 1
                /\ X!Tried(p, source, ok).attempts[Len(p.attempts) + 1] = <<source, ok>>
                /\ X!Tried(p, source, ok).last = source
<1> DEFINE E == X!Sources \X BOOLEAN
           A == UNION {[1..n -> E] : n \in 0..4}
<1>1. PICK n \in 0..4 : p.attempts \in [1..n -> E]
  BY DEF X!Poll
<1>2. p.attempts \in Seq(E) /\ Len(p.attempts) = n
  BY <1>1
<1>3. ASSUME n <= 3, NEW source \in X!Sources, NEW ok \in BOOLEAN
      PROVE  /\ X!Tried(p, source, ok) \in X!Poll
             /\ X!Tried(p, source, ok).attempts = Append(p.attempts, <<source, ok>>)
             /\ Len(X!Tried(p, source, ok).attempts) = Len(p.attempts) + 1
             /\ X!Tried(p, source, ok).attempts[Len(p.attempts) + 1] = <<source, ok>>
             /\ X!Tried(p, source, ok).last = source
  <2>1. PICK a : a = Append(p.attempts, <<source, ok>>)
    OBVIOUS
  <2>2. PICK e \in E : e = <<source, ok>>
    OBVIOUS
  <2>3. /\ a \in Seq(E) /\ Len(a) = n + 1 /\ a[n + 1] = <<source, ok>>
    BY <1>2, <2>1, <2>2, AppendProperties
  <2>4. a \in [1..(n + 1) -> E] /\ n + 1 \in 0..4
    BY <1>3, <2>3
  <2>5. a \in A
    BY <2>4
  <2>6. X!Tried(p, source, ok) = [p EXCEPT !.attempts = a, !.last = source]
    BY <2>1 DEF X!Tried
  <2> HIDE DEF A
  <2>7. /\ X!Poll = [auth : X!Files, store : {"file", "keyring", "auto-file", "auto-keyring"},
                     loadError : {None, "load"}, available : BOOLEAN,
                     used : X!Sources \cup {"unavailable"}, last : X!Sources \cup {None},
                     attempts : A, error : X!Errors \cup {None},
                     granted : X!Tokens \cup {None}, read : X!Files]
    BY DEF X!Poll, A
  <2>8. X!Tried(p, source, ok) \in X!Poll
    BY <2>5, <2>6, <2>7
  <2> QED  BY <1>2, <2>1, <2>3, <2>6, <2>7, <2>8
<1> QED  BY <1>2, <1>3

\* The fields of the poll's locals.
LEMMA CodexPolls ==
    \E A : X!Poll = [auth : X!Files,
                     store : {"file", "keyring", "auto-file", "auto-keyring"},
                     loadError : {None, "load"}, available : BOOLEAN,
                     used : X!Sources \cup {"unavailable"}, last : X!Sources \cup {None},
                     attempts : A, error : X!Errors \cup {None},
                     granted : X!Tokens \cup {None}, read : X!Files]
BY DEF X!Poll

\* What the outcomes of a source do to the poll's locals.
LEMMA CodexReached ==
    ASSUME NEW p \in X!Poll, Len(p.attempts) <= 3, NEW source \in X!Sources,
           NEW q
    PROVE  q = X!Reached(p, source) =>
           /\ q \in X!Poll /\ Len(q.attempts) = Len(p.attempts) + 1
           /\ q.attempts[Len(q.attempts)][1] = source
           /\ q.attempts[Len(q.attempts)][2] /\ q.last = source
           /\ q.available /\ q.used = source /\ q.error = None
<1> HAVE q = X!Reached(p, source)
<1>1. PICK t \in X!Poll : t = X!Tried(p, source, TRUE)
  BY CodexTraces
<1>2. /\ Len(t.attempts) = Len(p.attempts) + 1
      /\ t.attempts[Len(p.attempts) + 1] = <<source, TRUE>> /\ t.last = source
  BY <1>1, CodexTraces
<1>a. /\ t.attempts[Len(p.attempts) + 1][1] = source
      /\ t.attempts[Len(p.attempts) + 1][2] = TRUE
  BY <1>2
<1>3. q = [t EXCEPT !.available = TRUE, !.used = source, !.error = None]
  BY <1>1 DEF X!Reached
<1>4. /\ q.attempts = t.attempts /\ q.last = t.last
      /\ q.available = TRUE /\ q.used = source /\ q.error = None
  BY <1>3, CodexPolls
<1>5. q \in X!Poll
  <2>b. PICK b \in BOOLEAN : b = TRUE
    OBVIOUS
  <2>1. PICK t1 : t1 = [t EXCEPT !.available = b]
    OBVIOUS
  <2>2. PICK t2 : t2 = [t1 EXCEPT !.used = source]
    OBVIOUS
  <2>3. t1 \in X!Poll
    BY <2>1, CodexPolls
  <2>4. t2 \in X!Poll
    BY <2>2, <2>3, CodexPolls
  <2>5. q = [t2 EXCEPT !.error = None]
    BY <1>3, <2>1, <2>2, <2>b
  <2> QED  BY <2>4, <2>5, CodexPolls
<1> QED  BY <1>2, <1>a, <1>4, <1>5

LEMMA CodexMissed ==
    ASSUME NEW p \in X!Poll, Len(p.attempts) <= 3, NEW source \in X!Sources,
           NEW error \in X!Errors, NEW q
    PROVE  q = X!Missed(p, source, error) =>
           /\ q \in X!Poll /\ Len(q.attempts) = Len(p.attempts) + 1
           /\ q.attempts[Len(q.attempts)][1] = source
           /\ ~q.attempts[Len(q.attempts)][2] /\ q.last = source
           /\ (~p.available => ~q.available) /\ q.used = p.used
           /\ q.error \in X!Errors
<1> HAVE q = X!Missed(p, source, error)
<1>1. PICK t \in X!Poll : t = X!Tried(p, source, FALSE)
  BY CodexTraces
<1>2. /\ Len(t.attempts) = Len(p.attempts) + 1
      /\ t.attempts[Len(p.attempts) + 1] = <<source, FALSE>> /\ t.last = source
  BY <1>1, CodexTraces
<1>a. /\ t.attempts[Len(p.attempts) + 1][1] = source
      /\ t.attempts[Len(p.attempts) + 1][2] = FALSE
  BY <1>2
<1>3. /\ t.available = p.available /\ t.used = p.used
      /\ t.auth = p.auth /\ t.granted = p.granted /\ t.read = p.read
      /\ t.loadError = p.loadError
  BY <1>1, CodexPolls DEF X!Tried
<1>4. t.error \in X!Errors \cup {None}
  BY <1>1, CodexPolls
<1>5. PICK e \in X!Errors : q = [t EXCEPT !.error = e]
  <2> DEFINE e == IF t.error = None \/ source = "oauth" THEN error ELSE t.error
  <2>1. e \in X!Errors
    BY <1>4
  <2>2. q = [t EXCEPT !.error = e]
    BY <1>1 DEF X!Missed
  <2> QED  BY <2>1, <2>2
<1>6. /\ q.attempts = t.attempts /\ q.last = t.last /\ q.error = e
      /\ q.available = t.available /\ q.used = t.used /\ q.auth = t.auth
      /\ q.granted = t.granted /\ q.read = t.read /\ q.loadError = t.loadError
  BY <1>5, CodexPolls
<1>7. q \in X!Poll
  BY <1>5, CodexPolls
<1> QED  BY <1>2, <1>a, <1>3, <1>6, <1>7

\* They leave the login that was read alone.
LEMMA CodexLogin ==
    ASSUME NEW p \in X!Poll, NEW source, NEW error
    PROVE  /\ X!Missed(p, source, error).auth = p.auth
           /\ X!NoteLoad(p).auth = p.auth
<1>1. PICK t : t = X!Tried(p, source, FALSE)
  OBVIOUS
<1>2. t.auth = p.auth
  BY <1>1, CodexPolls DEF X!Tried
<1>3. PICK e : X!Missed(p, source, error) = [t EXCEPT !.error = e]
  BY <1>1 DEF X!Missed
<1> QED  BY <1>2, <1>3, CodexPolls DEF X!NoteLoad

LEMMA CodexNotes ==
    ASSUME NEW p \in X!Poll, Len(p.attempts) <= 3, NEW q
    PROVE  q = X!NoteLoad(p) =>
           /\ q \in X!Poll /\ Len(q.attempts) \in {Len(p.attempts), Len(p.attempts) + 1}
           /\ (~p.available => ~q.available) /\ q.used = p.used
<1> HAVE q = X!NoteLoad(p)
<1>1. CASE p.loadError = None
  BY <1>1, CodexTraces DEF X!NoteLoad
<1>2. CASE p.loadError # None
  <2>1. PICK t \in X!Poll : t = X!Tried(p, "oauth-auth", FALSE)
    BY CodexTraces DEF X!Sources
  <2>2. /\ Len(t.attempts) = Len(p.attempts) + 1
        /\ t.attempts = Append(p.attempts, <<"oauth-auth", FALSE>>)
    BY <2>1, CodexTraces DEF X!Sources
  <2>3. q = [p EXCEPT !.attempts = t.attempts]
    BY <1>2, <2>2 DEF X!NoteLoad
  <2>4. /\ q.attempts = t.attempts /\ q.available = p.available /\ q.used = p.used
        /\ q.auth = p.auth /\ q.granted = p.granted /\ q.read = p.read
    BY <2>3, CodexPolls
  <2>5. q \in X!Poll
    BY <2>3, CodexPolls
  <2> QED  BY <2>2, <2>4, <2>5
<1> QED  BY <1>1, <1>2

LEMMA CodexNoPoll ==
    /\ X!NoPoll \in X!Poll /\ X!NoPoll.auth = X!NoFile /\ X!NoPoll.read = X!NoFile
    /\ ~X!NoPoll.available /\ X!NoPoll.used = "unavailable"
    /\ Len(X!NoPoll.attempts) = 0 /\ X!NoPoll.loadError = None
<1>1. X!NoPoll.attempts = <<>> /\ Len(<<>>) = 0
  BY EmptySeq DEF X!NoPoll
<1>2. <<>> \in [1..0 -> X!Sources \X BOOLEAN]
  BY EmptySeq
<1>3. <<>> \in UNION {[1..n -> X!Sources \X BOOLEAN] : n \in 0..4}
  BY <1>2
<1> DEFINE A == UNION {[1..n -> X!Sources \X BOOLEAN] : n \in 0..4}
<1>4. PICK B : B = A
  OBVIOUS
<1>5. X!Poll = [auth : X!Files, store : {"file", "keyring", "auto-file", "auto-keyring"},
                loadError : {None, "load"}, available : BOOLEAN,
                used : X!Sources \cup {"unavailable"}, last : X!Sources \cup {None},
                attempts : B, error : X!Errors \cup {None},
                granted : X!Tokens \cup {None}, read : X!Files]
  BY <1>4 DEF X!Poll
<1>6. <<>> \in B
  BY <1>3, <1>4
<1>7. X!NoPoll \in X!Poll
  BY <1>5, <1>6, CodexFiles DEF X!NoPoll
<1> QED  BY <1>1, <1>7 DEF X!NoPoll

LEMMA CodexInit == X!Init => X!Inv
<1> SUFFICES ASSUME X!Init PROVE X!Inv
  OBVIOUS
<1>1. /\ v3 \in X!Files /\ v3.refresh \in {None, 1}
      /\ v3.kind = "chatgpt" => v3.refresh = 1
  <2>1. 1 \in X!Tokens
    BY CodexBounds DEF X!Tokens
  <2>2. X!LoginFile(1, 1) \in X!LoginFiles /\ X!LoginFile(1, 1).refresh = 1
    BY <2>1, CodexFiles
  <2> QED  BY <2>2, CodexFiles DEF X!Init
<1>2. X!TypeOK
  <2>1. v4 \in X!Tokens /\ v5 \in SUBSET X!Tokens /\ v6 \in 0..CodexTokens
    BY CodexBounds DEF X!Init, X!Tokens
  <2>2. v7 \in 0..MaxServers /\ v12 \in 0..MaxPolls
    BY CodexBounds DEF X!Init
  <2>3. v10 \in X!Poll
    BY CodexNoPoll DEF X!Init
  <2> QED  BY <1>1, <2>1, <2>2, <2>3 DEF X!Init, X!TypeOK
<1>3. X!Underway /\ X!ServerUp /\ X!LoginRead
  BY CodexNoPoll, CodexFiles DEF X!Init, X!Underway, X!ServerUp, X!LoginRead
<1>4. X!Issued /\ X!GrantOwn
  <2>1. v10.auth.refresh = None
    BY CodexNoPoll, CodexFiles DEF X!Init
  <2> QED  BY <1>1, <2>1 DEF X!Init, X!Issued, X!GrantOwn
<1>5. X!AnswerWhole /\ X!CodexGrantKept
  BY <1>1 DEF X!Init, X!AnswerWhole, X!CodexGrantKept
<1> QED  BY <1>2, <1>3, <1>4, <1>5 DEF X!Inv

\* The outcome of the last source is a whole answer.
LEMMA CodexAnswers ==
    ASSUME NEW p \in X!Poll, ~p.available, p.used = "unavailable",
           Len(p.attempts) <= 3, NEW source \in X!Sources, NEW q, v11' = q,
           q = X!Reached(p, source) \/ \E error \in X!Errors : q = X!Missed(p, source, error)
    PROVE  v11' \in X!Poll /\ X!AnswerWhole'
<1>1. CASE q = X!Reached(p, source)
  <2>1. /\ q \in X!Poll /\ Len(q.attempts) = Len(p.attempts) + 1
        /\ q.attempts[Len(q.attempts)][1] = source
        /\ q.attempts[Len(q.attempts)][2] /\ q.last = source
        /\ q.available /\ q.used = source /\ q.error = None
    BY <1>1, CodexReached
  <2>2. None # "says-expired"
    BY CodexBounds DEF X!Errors
  <2>3. X!Health(q)'.authenticated /\ ~X!Health(q)'.relogin
    BY <2>1, <2>2 DEF X!Health
  <2> QED  BY <2>1, <2>3 DEF X!AnswerWhole
<1>2. CASE \E error \in X!Errors : q = X!Missed(p, source, error)
  <2>1. PICK error \in X!Errors : q = X!Missed(p, source, error)
    BY <1>2
  <2>2. /\ q \in X!Poll /\ Len(q.attempts) = Len(p.attempts) + 1
        /\ q.attempts[Len(q.attempts)][1] = source
        /\ ~q.attempts[Len(q.attempts)][2] /\ q.last = source
        /\ ~q.available /\ q.used = p.used /\ q.error \in X!Errors
    BY <2>1, CodexMissed
  <2>3. q.available \in BOOLEAN /\ q.attempts[Len(q.attempts)][2] \in BOOLEAN
    <3>1. PICK n \in 0..4 : q.attempts \in [1..n -> X!Sources \X BOOLEAN]
      BY <2>2 DEF X!Poll
    <3>2. Len(q.attempts) = n /\ n \in 1..n
      BY <2>2, <3>1, CodexTraces
    <3>3. q.attempts[n] \in X!Sources \X BOOLEAN
      BY <3>1, <3>2
    <3> QED  BY <2>2, <3>2, <3>3, CodexPolls
  <2>4. q.available = q.attempts[Len(q.attempts)][2] /\ q.available = (q.error = None)
    BY <2>2, <2>3, CodexBounds
  <2> QED  BY <2>2, <2>4 DEF X!AnswerWhole
<1> QED  BY <1>1, <1>2

\* A step of the poll that leaves the login and the service alone.
LEMMA CodexMoves ==
    ASSUME X!Inv, UNCHANGED <<v1, v2, v3, v4, v5, v6, v12>>,
           v7' \in 0..MaxServers, v13' \in BOOLEAN, v13 => v13',
           v8' = v8 \/ (v8' = None /\ (v8 # None => v13')),
           v9' \in {"idle", "oauth", "refresh", "again", "cli"},
           v10' \in X!Poll, v10'.auth \in {v10.auth, X!NoFile}, X!Underway',
           v9' = "refresh" => v10'.auth.kind = "chatgpt" /\ v10'.auth.refresh # None,
           v11' = v11 \/ (v11' \in X!Poll /\ X!AnswerWhole'),
           v9 \in {"save", "fill"} => v13'
    PROVE  X!Inv'
<1>1. /\ X!TypeOK /\ X!Underway /\ X!ServerUp /\ X!LoginRead /\ X!Issued /\ X!GrantOwn
      /\ X!AnswerWhole /\ X!CodexGrantKept
  BY DEF X!Inv
<1>2. X!TypeOK'
  BY <1>1 DEF X!TypeOK
<1>3. v10'.auth \in X!Files /\ v10.auth \in X!Files
  BY <1>1, CodexPolls DEF X!TypeOK
<1>4. X!ServerUp' /\ X!LoginRead'
  BY <1>1, <1>3, CodexFiles, CodexKinds DEF X!ServerUp, X!LoginRead
<1>5. X!Issued' /\ X!GrantOwn'
  BY <1>1, <1>3, CodexFiles DEF X!Issued, X!GrantOwn
<1>6. X!AnswerWhole'
  <2>1. CASE v11' = v11
    BY <1>1, <2>1 DEF X!AnswerWhole, X!Health
  <2> QED  BY <2>1
<1>7. X!CodexGrantKept'
  BY <1>1 DEF X!CodexGrantKept
<1> QED  BY <1>2, <1>4, <1>5, <1>6, <1>7 DEF X!Inv

\* A poll that comes to its end, or is cut off.
LEMMA CodexEnds ==
    ASSUME X!Inv, UNCHANGED <<v1, v2, v3, v4, v5, v6, v12>>,
           v7' \in 0..MaxServers, v13' \in BOOLEAN, v13 => v13',
           v8' = v8 \/ (v8' = None /\ (v8 # None => v13')),
           v9' = "idle", v10' = X!NoPoll,
           v11' = v11 \/ (v11' \in X!Poll /\ X!AnswerWhole'),
           v9 \in {"save", "fill"} => v13'
    PROVE  X!Inv'
<1>1. v10' \in X!Poll /\ v10'.auth \in {v10.auth, X!NoFile}
  BY CodexNoPoll
<1>2. X!Underway'
  BY CodexNoPoll DEF X!Underway
<1>3. v9' \in {"idle", "oauth", "refresh", "again", "cli"}
  OBVIOUS
<1>4. v9' = "refresh" => v10'.auth.kind = "chatgpt" /\ v10'.auth.refresh # None
  OBVIOUS
<1> QED  BY <1>1, <1>2, <1>3, <1>4, CodexMoves

LEMMA CodexSteps ==
    ASSUME X!Inv
    PROVE  /\ X!TypeOK /\ v10 \in X!Poll /\ v10.auth \in X!Files
           /\ ~v10.available /\ v10.used = "unavailable"
           /\ v7 \in 0..MaxServers /\ v13 \in BOOLEAN
           /\ v9 \in {"idle", "rpc", "oauth", "refresh", "save", "fill", "again", "cli"}
           /\ v9 \in {"idle", "rpc"} => Len(v10.attempts) = 0
           /\ v9 \in {"oauth", "refresh", "save", "fill", "again"} => Len(v10.attempts) = 1
           /\ v9 = "cli" => Len(v10.attempts) \in 1..2
<1>1. X!TypeOK /\ X!Underway
  BY DEF X!Inv
<1>2. v10 \in X!Poll /\ v10.auth \in X!Files
  BY <1>1, CodexPolls DEF X!TypeOK
<1> QED  BY <1>1, <1>2 DEF X!TypeOK, X!Underway

LEMMA CodexLong == X!Inv => Len(v10.attempts) <= 3
<1> SUFFICES ASSUME X!Inv PROVE Len(v10.attempts) <= 3
  OBVIOUS
<1>1. v9 \in {"idle", "rpc"} => Len(v10.attempts) = 0
  BY CodexSteps
<1>2. v9 \in {"oauth", "refresh", "save", "fill", "again"} => Len(v10.attempts) = 1
  BY CodexSteps
<1>3. v9 = "cli" => Len(v10.attempts) \in 1..2
  BY CodexSteps
<1>4. v9 \in {"idle", "rpc", "oauth", "refresh", "save", "fill", "again", "cli"}
  BY CodexSteps
<1> HIDE DEF X!Inv
<1>5. PICK n : n = Len(v10.attempts)
  OBVIOUS
<1>6. n \in {0, 1} \/ n \in 1..2
  BY <1>1, <1>2, <1>3, <1>4, <1>5
<1>7. n <= 3
  BY <1>6
<1> QED  BY <1>5, <1>7

\* The app-server is killed, or left running.
LEMMA CodexKilled ==
    ASSUME X!Inv, v9 = "rpc", X!Kill \/ UNCHANGED <<v7, v8, v13>>
    PROVE  /\ v7' \in 0..MaxServers /\ v13' \in BOOLEAN /\ (v13 => v13')
           /\ (v8' = v8 \/ (v8' = None /\ (v8 # None => v13')))
<1>1. v7 > 0 /\ v7 \in 0..MaxServers /\ v13 \in BOOLEAN
  BY DEF X!Inv, X!ServerUp, X!TypeOK
<1>2. CASE UNCHANGED <<v7, v8, v13>>
  BY <1>1, <1>2
<1>3. CASE X!Kill
  <2>1. v7' \in 0..MaxServers
    BY <1>1, <1>3, CodexBounds DEF X!Kill
  <2>2. CASE v7 = 1
    <3>1. v8' = None /\ v13' = (v13 \/ v8 # None)
      BY <1>3, <2>2 DEF X!Kill
    <3> QED  BY <1>1, <2>1, <3>1
  <2>3. CASE v7 # 1
    BY <1>1, <1>3, <2>1, <2>3 DEF X!Kill
  <2> QED  BY <2>2, <2>3
<1> QED  BY <1>2, <1>3

\* The steps that end a poll with an answer.
LEMMA CodexFinishes ==
    ASSUME X!Inv, NEW source \in X!Sources, NEW q,
           q = X!Reached(v10, source) \/ \E error \in X!Errors : q = X!Missed(v10, source, error),
           X!Finish(q), v9 \in {"rpc", "oauth", "again", "cli"},
           UNCHANGED <<v1, v2, v3, v4, v5, v6, v12>>,
           v7' \in 0..MaxServers, v13' \in BOOLEAN, v13 => v13',
           v8' = v8 \/ (v8' = None /\ (v8 # None => v13'))
    PROVE  X!Inv'
<1>1. v10 \in X!Poll /\ ~v10.available /\ v10.used = "unavailable" /\ Len(v10.attempts) <= 3
  <2>1. v10 \in X!Poll /\ ~v10.available /\ v10.used = "unavailable"
    BY CodexSteps
  <2>2. Len(v10.attempts) <= 3
    BY CodexLong
  <2> QED  BY <2>1, <2>2
<1>2. v9' = "idle" /\ v10' = X!NoPoll /\ v11' = q
  BY DEF X!Finish
<1>3. v11' \in X!Poll /\ X!AnswerWhole'
  BY <1>1, <1>2, CodexAnswers
<1> QED  BY <1>2, <1>3, CodexEnds

LEMMA CodexAnswering ==
    ASSUME X!Inv, X!RpcAnswers \/ X!FetchOk \/ X!AskTerminal
                  \/ (X!FetchAgain /\ v9' = "idle")
    PROVE  X!Inv'
<1>s. v7 \in 0..MaxServers /\ v13 \in BOOLEAN
  BY DEF X!Inv, X!TypeOK
<1>1. CASE X!RpcAnswers
  <2>1. v9 = "rpc" /\ X!Kill /\ UNCHANGED <<v1, v2, v3, v4, v5, v6, v12>>
    BY <1>1 DEF X!RpcAnswers, X!Working, X!service
  <2>2. "cli-rpc" \in X!Sources /\ X!Finish(X!Reached(v10, "cli-rpc"))
    BY <1>1 DEF X!RpcAnswers, X!Sources
  <2>3. PICK q : q = X!Reached(v10, "cli-rpc")
    OBVIOUS
  <2>4. /\ v7' \in 0..MaxServers /\ v13' \in BOOLEAN /\ (v13 => v13')
        /\ (v8' = v8 \/ (v8' = None /\ (v8 # None => v13')))
    BY <2>1, CodexKilled
  <2> QED  BY <2>1, <2>2, <2>3, <2>4, CodexFinishes
<1>2. CASE X!FetchOk \/ (X!FetchAgain /\ v9' = "idle")
  <2>1. /\ v9 \in {"oauth", "again"}
        /\ UNCHANGED <<v1, v2, v3, v4, v5, v6, v7, v8, v12, v13>>
    BY <1>2 DEF X!FetchOk, X!FetchAgain, X!Working, X!service
  <2>2. "oauth" \in X!Sources /\ X!Finish(X!Reached(v10, "oauth"))
    BY <1>2 DEF X!FetchOk, X!FetchAgain, X!Sources, X!Goto
  <2>3. PICK q : q = X!Reached(v10, "oauth")
    OBVIOUS
  <2> QED  BY <1>s, <2>1, <2>2, <2>3, CodexFinishes
<1>3. CASE X!AskTerminal
  <2>1. v9 = "cli" /\ UNCHANGED <<v1, v2, v3, v4, v5, v6, v7, v8, v12, v13>>
    BY <1>3 DEF X!AskTerminal, X!Working, X!service
  <2>2. "cli-pty" \in X!Sources /\ "cli" \in X!Errors
    BY DEF X!Sources, X!Errors
  <2>3. PICK q : /\ X!Finish(q)
                 /\ q = X!Reached(v10, "cli-pty") \/ q = X!Missed(v10, "cli-pty", "cli")
    BY <1>3 DEF X!AskTerminal
  <2> QED  BY <1>s, <2>1, <2>2, <2>3, CodexFinishes
<1> QED  BY <1>1, <1>2, <1>3

\* A source fails and the next is asked.
LEMMA CodexGoesOn ==
    ASSUME X!Inv, NEW source \in X!Sources, NEW error \in X!Errors, NEW q,
           q = X!Missed(v10, source, error),
           v9 \in {"oauth", "refresh", "again"}, X!Goto("cli", q), v11' = v11,
           UNCHANGED <<v1, v2, v3, v4, v5, v6, v7, v8, v12, v13>>
    PROVE  X!Inv'
<1>1. v10 \in X!Poll /\ ~v10.available /\ v10.used = "unavailable"
  BY CodexSteps
<1>c. Len(v10.attempts) = 1
  BY CodexSteps
<1>b. Len(v10.attempts) <= 3
  BY <1>c
<1>2. /\ q \in X!Poll /\ Len(q.attempts) = Len(v10.attempts) + 1
      /\ ~q.available /\ q.used = v10.used
  BY <1>1, <1>b, CodexMissed
<1>a. q.auth = v10.auth
  BY <1>1, CodexLogin
<1>3. v9' = "cli" /\ v10' = q
  BY DEF X!Goto
<1>4. X!Underway'
  BY <1>1, <1>c, <1>2, <1>3 DEF X!Underway
<1>5. v7' \in 0..MaxServers /\ v13' \in BOOLEAN
  BY DEF X!Inv, X!TypeOK
<1> QED  BY <1>2, <1>a, <1>3, <1>4, <1>5, CodexMoves

LEMMA CodexFailing ==
    ASSUME X!Inv, \/ X!RpcFails \/ X!FetchRefused \/ X!FetchFails \/ X!RefreshRefused
                  \/ X!FetchAgain /\ v9' = "cli"
                  \/ X!RefreshFails /\ UNCHANGED <<v4, v5, v6, v13>>
    PROVE  X!Inv'
<1>1. {"rpc", "says-expired", "refused", "network"} \subseteq X!Errors
      /\ "oauth" \in X!Sources /\ "cli-rpc" \in X!Sources
  BY DEF X!Errors, X!Sources
<1>2. CASE X!FetchFails \/ (X!FetchAgain /\ v9' = "cli")
  <2>1. /\ v9 \in {"oauth", "again"} /\ v11' = v11
        /\ UNCHANGED <<v1, v2, v3, v4, v5, v6, v7, v8, v12, v13>>
    BY <1>2 DEF X!FetchFails, X!FetchAgain, X!Working, X!service, X!Finish
  <2>2. PICK q : q = X!Missed(v10, "oauth", "network")
    OBVIOUS
  <2>3. X!Goto("cli", q)
    BY <1>2, <2>2 DEF X!FetchFails, X!FetchAgain, X!Finish
  <2> QED  BY <1>1, <2>1, <2>2, <2>3, CodexGoesOn
<1>3. CASE X!RefreshRefused \/ (X!RefreshFails /\ UNCHANGED <<v4, v5, v6, v13>>)
           \/ (X!FetchRefused /\ v9' = "cli")
  <2>1. /\ v9 \in {"oauth", "refresh"} /\ v11' = v11
        /\ UNCHANGED <<v1, v2, v3, v4, v5, v6, v7, v8, v12, v13>>
    BY <1>3 DEF X!RefreshRefused, X!RefreshFails, X!FetchRefused, X!Working, X!service
  <2>2. PICK q : q = X!Missed(v10, "oauth", "refused")
    OBVIOUS
  <2>3. X!Goto("cli", q)
    BY <1>3, <2>2 DEF X!RefreshRefused, X!RefreshFails, X!FetchRefused, X!Goto
  <2> QED  BY <1>1, <2>1, <2>2, <2>3, CodexGoesOn
<1>4. CASE X!FetchRefused /\ v9' = "refresh"
  <2>1. /\ v9 = "oauth" /\ v10' = v10 /\ v11' = v11 /\ v10.auth.refresh # None
        /\ UNCHANGED <<v1, v2, v3, v4, v5, v6, v7, v8, v12, v13>>
    BY <1>4 DEF X!FetchRefused, X!Working, X!service, X!Goto
  <2>2. v10 \in X!Poll /\ v10.auth \in X!Files
    BY CodexSteps
  <2>3. v10.auth.kind = "chatgpt"
    BY <2>1, <2>2, CodexKinds
  <2>4. X!Underway'
    BY <1>4, <2>1 DEF X!Inv, X!Underway
  <2>5. v7' \in 0..MaxServers /\ v13' \in BOOLEAN
    BY <2>1 DEF X!Inv, X!TypeOK
  <2> QED  BY <1>4, <2>1, <2>2, <2>3, <2>4, <2>5, CodexMoves
<1>5. CASE X!RpcFails
  <2>1. /\ v9 = "rpc" /\ (X!Kill \/ UNCHANGED <<v7, v8, v13>>) /\ v11' = v11
        /\ UNCHANGED <<v1, v2, v3, v4, v5, v6, v12>>
    BY <1>5 DEF X!RpcFails, X!Working, X!service
  <2>2. /\ v7' \in 0..MaxServers /\ v13' \in BOOLEAN /\ (v13 => v13')
        /\ (v8' = v8 \/ (v8' = None /\ (v8 # None => v13')))
    BY <2>1, CodexKilled
  <2>3. PICK error \in X!Errors :
            IF v10.auth # X!NoFile
            THEN X!Goto("oauth", [X!Missed(v10, "cli-rpc", error) EXCEPT !.last = "oauth"])
            ELSE X!Goto("cli", X!NoteLoad(X!Missed(v10, "cli-rpc", error)))
    BY <1>1, <1>5 DEF X!RpcFails
  <2>4. PICK m : m = X!Missed(v10, "cli-rpc", error)
    OBVIOUS
  <2>5. v10 \in X!Poll /\ ~v10.available /\ v10.used = "unavailable"
    BY CodexSteps
  <2>c. Len(v10.attempts) = 0
    BY <2>1, CodexSteps
  <2>b. Len(v10.attempts) <= 3
    BY <2>c
  <2>6. /\ m \in X!Poll /\ Len(m.attempts) = Len(v10.attempts) + 1
        /\ ~m.available /\ m.used = v10.used
    BY <1>1, <2>4, <2>5, <2>b, CodexMissed
  <2>a. m.auth = v10.auth
    BY <2>4, <2>5, CodexLogin
  <2>7. PICK q \in X!Poll : /\ \/ X!Goto("oauth", q) /\ Len(q.attempts) = 1
                               \/ X!Goto("cli", q) /\ Len(q.attempts) \in 1..2
                            /\ ~q.available /\ q.used = "unavailable" /\ q.auth = v10.auth
    <3>1. CASE v10.auth # X!NoFile
      <4>1. PICK q : q = [m EXCEPT !.last = "oauth"]
        OBVIOUS
      <4>2. q \in X!Poll
        BY <1>1, <2>6, <4>1, CodexPolls
      <4>3. /\ q.attempts = m.attempts /\ q.used = m.used /\ q.auth = m.auth
            /\ (~m.available => ~q.available)
        BY <2>6, <4>1, CodexPolls
      <4>4. X!Goto("oauth", q)
        BY <2>3, <2>4, <3>1, <4>1
      <4> QED  BY <2>5, <2>6, <2>a, <2>c, <4>2, <4>3, <4>4
    <3>2. CASE v10.auth = X!NoFile
      <4>1. PICK q : q = X!NoteLoad(m)
        OBVIOUS
      <4>2. X!Goto("cli", q)
        BY <2>3, <2>4, <3>2, <4>1
      <4>a. Len(m.attempts) <= 3
        BY <2>6, <2>c
      <4>3. /\ q \in X!Poll
            /\ Len(q.attempts) \in {Len(m.attempts), Len(m.attempts) + 1}
            /\ (~m.available => ~q.available) /\ q.used = m.used
        BY <2>6, <4>1, <4>a, CodexNotes
      <4>4. q.auth = m.auth
        BY <2>6, <4>1, CodexLogin
      <4> QED  BY <2>5, <2>6, <2>a, <2>c, <4>2, <4>3, <4>4
    <3> QED  BY <3>1, <3>2
  <2>8. v9' \in {"oauth", "cli"} /\ v10' = q
    BY <2>7 DEF X!Goto
  <2>9. X!Underway'
    BY <2>7 DEF X!Underway, X!Goto
  <2> QED  BY <2>1, <2>2, <2>7, <2>8, <2>9, CodexMoves
<1> QED  BY <1>2, <1>3, <1>4, <1>5 DEF X!FetchRefused, X!Goto

\* A poll that is cut off, or that finds the file unreadable when it would save.
LEMMA CodexStops ==
    ASSUME X!Inv, \/ X!Crash
                  \/ X!SaveReads /\ v3.kind \notin {"chatgpt", "api-key"}
    PROVE  X!Inv'
<1>1. v7 \in 0..MaxServers /\ v13 \in BOOLEAN
  BY DEF X!Inv, X!TypeOK
<1>2. CASE X!Crash
  <2>1. /\ v9' = "idle" /\ v10' = X!NoPoll /\ v11' = v11
        /\ UNCHANGED <<v1, v2, v3, v4, v5, v6, v7, v8, v12>>
        /\ v13' = (v13 \/ v9 \in {"refresh", "save", "fill", "again"})
    BY <1>2 DEF X!Crash, X!Goto, X!service
  <2>2. v13' \in BOOLEAN /\ (v13 => v13') /\ (v9 \in {"save", "fill"} => v13')
    BY <1>1, <2>1
  <2> QED  BY <1>1, <2>1, <2>2, CodexEnds
<1>3. CASE X!SaveReads /\ v3.kind \notin {"chatgpt", "api-key"}
  <2>1. /\ v9 = "save" /\ v9' = "again" /\ v10' = v10 /\ v11' = v11 /\ v13'
        /\ UNCHANGED <<v1, v2, v3, v4, v5, v6, v7, v8, v12>>
    BY <1>3 DEF X!SaveReads, X!Working, X!Goto, X!service
  <2>2. v13' \in BOOLEAN
    BY <1>3 DEF X!SaveReads
  <2>3. v10 \in X!Poll
    BY CodexSteps
  <2>4. X!Underway'
    BY <2>1 DEF X!Inv, X!Underway
  <2> QED  BY <1>1, <2>1, <2>2, <2>3, <2>4, CodexMoves
<1> QED  BY <1>2, <1>3

\* A login is exchanged for a new one.
LEMMA CodexGranted ==
    ASSUME X!Inv, NEW token, X!Granted(token)
    PROVE  /\ v4' \in X!Tokens /\ v4' = v4 + 1 /\ v4 \in Nat /\ v6' = v6
           /\ v5' = (v5 \ {token}) \cup {v4'} /\ v5' \in SUBSET X!Tokens
           /\ v5' \subseteq 1..v4' /\ v4' \in v5'
           /\ \A n \in 1..v4 : n # v4'
<1>1. v4 \in X!Tokens /\ v5 \in SUBSET X!Tokens /\ v5 \subseteq 1..v4
  BY DEF X!Inv, X!TypeOK, X!Issued
<1>2. v4' \in X!Tokens /\ v4' = v4 + 1 /\ v4 \in Nat
  BY <1>1, CodexBounds DEF X!Granted, X!Tokens
<1> QED  BY <1>1, <1>2 DEF X!Granted

\* What is known of the tokens before a step.
LEMMA CodexKnown ==
    ASSUME X!Inv
    PROVE  /\ v3 \in X!Files /\ v3.refresh \in 1..v4 \cup {None}
           /\ v10.auth \in X!Files /\ v10.auth.refresh \in 1..v4 \cup {None}
           /\ v8 # None => v8 \in 1..v4
           /\ v9 \in {"save", "fill"} => v10.granted \in 1..v4
           /\ None \notin 1..v4
<1>1. X!TypeOK /\ X!Issued /\ X!GrantOwn
  BY DEF X!Inv
<1>2. v3 \in X!Files /\ v10.auth \in X!Files /\ v4 \in X!Tokens
  BY <1>1, CodexPolls DEF X!TypeOK
<1>3. v3.refresh \in X!Tokens \cup {None} /\ v10.auth.refresh \in X!Tokens \cup {None}
  BY <1>2, CodexKinds
<1>4. ASSUME NEW n \in X!Tokens, n <= v4 PROVE n \in 1..v4
  BY <1>2, <1>4, CodexBounds DEF X!Tokens
<1>5. /\ v3.refresh # None => v3.refresh <= v4
      /\ v10.auth.refresh # None => v10.auth.refresh <= v4
  BY <1>1 DEF X!Issued
<1>6. v3.refresh \in 1..v4 \cup {None} /\ v10.auth.refresh \in 1..v4 \cup {None}
  BY <1>3, <1>4, <1>5
<1>7. /\ v8 # None => v8 \in 1..v4
      /\ v9 \in {"save", "fill"} => v10.granted \in 1..v4
  BY <1>1 DEF X!Issued, X!GrantOwn
<1> QED  BY <1>2, <1>6, <1>7, CodexBounds

\* The poll refreshes the login it read.
LEMMA CodexRefreshes ==
    ASSUME X!Inv, X!RefreshOk \/ (X!RefreshFails /\ X!Granted(v10.auth.refresh) /\ v13')
    PROVE  X!Inv'
<1>1. /\ X!TypeOK /\ X!Underway /\ X!LoginRead /\ X!Issued /\ X!GrantOwn
      /\ X!AnswerWhole
  BY DEF X!Inv
<1>2. /\ v9 = "refresh" /\ X!Granted(v10.auth.refresh) /\ v13' \in BOOLEAN
      /\ UNCHANGED <<v1, v2, v3, v7, v8, v11, v12>>
  BY <1>1 DEF X!RefreshOk, X!RefreshFails, X!Working, X!TypeOK
<1>3. /\ v4' \in X!Tokens /\ v4' = v4 + 1 /\ v4 \in Nat /\ v6' = v6
      /\ v5' = (v5 \ {v10.auth.refresh}) \cup {v4'} /\ v5' \in SUBSET X!Tokens
      /\ v5' \subseteq 1..v4' /\ v4' \in v5'
      /\ \A n \in 1..v4 : n # v4'
  BY <1>2, CodexGranted
<1>4. /\ v3.refresh \in 1..v4 \cup {None}
      /\ v10.auth \in X!Files /\ v10.auth.refresh \in 1..v4 \cup {None}
      /\ v8 # None => v8 \in 1..v4
  BY CodexKnown
<1>b. v10 \in X!Poll /\ ~v10.available /\ v10.used = "unavailable"
  BY CodexSteps
<1>c. Len(v10.attempts) = 1
  BY <1>2, CodexSteps
<1>5. /\ v10' \in X!Poll /\ v10'.auth = v10.auth /\ X!Underway'
      /\ v9' \in {"save", "again", "cli"}
      /\ v9' = "save" => v10'.granted = v4'
      /\ v9' # "save" => v13'
  <2>1. CASE X!RefreshOk
    <3>1. PICK q : q = [v10 EXCEPT !.granted = v4']
      OBVIOUS
    <3>2. q \in X!Poll /\ q.granted = v4' /\ q.auth = v10.auth
      BY <1>b, <1>3, <3>1, CodexPolls
    <3>3. q.attempts = v10.attempts /\ q.used = v10.used /\ (~v10.available => ~q.available)
      BY <1>b, <3>1, CodexPolls
    <3>4. /\ v10' = q /\ v9' \in {"save", "again"}
          /\ v9' # "save" => v13'
      BY <2>1, <3>1 DEF X!RefreshOk, X!Goto
    <3>5. X!Underway'
      BY <1>b, <1>c, <3>3, <3>4 DEF X!Underway
    <3> QED  BY <3>2, <3>4, <3>5
  <2>2. CASE X!RefreshFails /\ X!Granted(v10.auth.refresh) /\ v13'
    <3>1. PICK q : q = X!Missed(v10, "oauth", "refused")
      OBVIOUS
    <3>2. Len(v10.attempts) <= 3
      BY CodexLong
    <3>3. "oauth" \in X!Sources /\ "refused" \in X!Errors
      BY DEF X!Sources, X!Errors
    <3>4. /\ q \in X!Poll /\ Len(q.attempts) = Len(v10.attempts) + 1
          /\ ~q.available /\ q.used = v10.used
      BY <1>b, <3>1, <3>2, <3>3, CodexMissed
    <3>5. q.auth = v10.auth
      BY <1>b, <3>1, CodexLogin
    <3>6. v10' = q /\ v9' = "cli"
      BY <2>2, <3>1 DEF X!RefreshFails, X!Goto
    <3>7. X!Underway'
      BY <1>b, <1>c, <3>4, <3>6 DEF X!Underway
    <3> QED  BY <2>2, <3>4, <3>5, <3>6, <3>7
  <2> QED  BY <2>1, <2>2
<1>6. X!TypeOK'
  BY <1>1, <1>2, <1>3, <1>5 DEF X!TypeOK
<1>7. X!ServerUp' /\ X!LoginRead'
  BY <1>1, <1>2, <1>5 DEF X!ServerUp, X!LoginRead
<1>8. X!Issued'
  BY <1>2, <1>3, <1>4, <1>5 DEF X!Issued
<1>9. X!GrantOwn'
  BY <1>1, <1>2, <1>3, <1>4, <1>5, CodexBounds DEF X!GrantOwn
<1>10. X!AnswerWhole'
  BY <1>1, <1>2 DEF X!AnswerWhole, X!Health
<1>11. X!CodexGrantKept'
  BY <1>5 DEF X!CodexGrantKept
<1> QED  BY <1>5, <1>6, <1>7, <1>8, <1>9, <1>10, <1>11 DEF X!Inv

\* The poll writes the login it was granted.
LEMMA CodexSaves ==
    ASSUME X!Inv, \/ X!SaveReads /\ v3.kind \in {"chatgpt", "api-key"}
                  \/ X!SaveFills
    PROVE  X!Inv'
<1>1. /\ X!TypeOK /\ X!Underway /\ X!LoginRead /\ X!Issued /\ X!GrantOwn
      /\ X!AnswerWhole
  BY DEF X!Inv
<1>2. /\ UNCHANGED <<v1, v2, v4, v5, v6, v7, v8, v11, v12, v13>>
      /\ v9 \in {"save", "fill"}
  BY DEF X!SaveReads, X!SaveFills, X!Working, X!service
<1>3. X!AnswerWhole'
  BY <1>1, <1>2 DEF X!AnswerWhole, X!Health
<1>4. v3 \in X!Files /\ v10 \in X!Poll /\ v4 \in X!Tokens
  BY <1>1 DEF X!TypeOK
<1>5. /\ v10.granted \in X!Tokens /\ v10.granted # None
      /\ v10.granted \in v5 /\ v10.granted \notin {v3.refresh, v8}
  BY <1>1, <1>2, CodexBounds DEF X!GrantOwn, X!TypeOK
<1>c. Len(v10.attempts) = 1
  BY <1>2, CodexSteps
<1>b. ~v10.available /\ v10.used = "unavailable"
  BY CodexSteps
<1>6. CASE X!SaveReads /\ v3.kind \in {"chatgpt", "api-key"}
  <2>1. PICK q : q = [v10 EXCEPT !.read = v3]
    OBVIOUS
  <2>2. v3' = X!ShortFile /\ v9 = "save" /\ v9' = "fill" /\ v10' = q
    BY <1>6, <2>1 DEF X!SaveReads, X!Working, X!Goto
  <2>3. /\ q \in X!Poll /\ q.auth = v10.auth /\ q.read = v3 /\ q.granted = v10.granted
    BY <1>4, <2>1, CodexPolls
  <2>4. q.attempts = v10.attempts /\ q.used = v10.used /\ (~v10.available => ~q.available)
    BY <1>4, <2>1, CodexPolls
  <2>5. v3' \in X!Files /\ v3'.kind = "torn" /\ v3'.refresh = None
    BY <2>2, CodexFiles
  <2>6. v3.kind = "chatgpt"
    BY <1>1, <1>6, <2>2 DEF X!LoginRead
  <2>7. X!TypeOK'
    BY <1>1, <1>2, <2>2, <2>3, <2>5 DEF X!TypeOK
  <2>8. X!Underway'
    BY <1>b, <1>c, <2>2, <2>4 DEF X!Underway
  <2>9. X!ServerUp' /\ X!LoginRead'
    BY <1>1, <2>2, <2>3, <2>5, <2>6 DEF X!ServerUp, X!LoginRead
  <2>10. X!Issued'
    BY <1>1, <1>2, <2>2, <2>3, <2>5 DEF X!Issued
  <2>11. X!GrantOwn'
    BY <1>1, <1>2, <1>5, <2>2, <2>3, <2>5 DEF X!GrantOwn
  <2>12. X!CodexGrantKept'
    BY <2>2 DEF X!CodexGrantKept
  <2> QED  BY <1>3, <2>7, <2>8, <2>9, <2>10, <2>11, <2>12 DEF X!Inv
<1>7. CASE X!SaveFills
  <2>1. /\ v3' = [v10.read EXCEPT !.access = v10.granted, !.refresh = v10.granted]
        /\ v9 = "fill" /\ v9' = "again" /\ v10' = v10
    BY <1>7 DEF X!SaveFills, X!Working, X!Goto
  <2>2. v10.read \in X!Files /\ v10.read.kind = "chatgpt"
    BY <1>1, <1>4, <2>1, CodexPolls DEF X!LoginRead
  <2>3. v10.read \in X!LoginFiles
    BY <2>2, CodexKinds
  <2>4. v3' = X!LoginFile(v10.granted, v10.granted)
    BY <1>5, <2>1, <2>3, CodexFiles
  <2>5. v3' \in X!Files /\ v3'.kind = "chatgpt" /\ v3'.refresh = v10.granted
    BY <1>5, <2>4, CodexFiles
  <2>6. v10.granted <= v4
    <3>1. PICK n \in 1..v4 : n = v10.granted
      BY <1>2, CodexKnown
    <3>2. n <= v4
      OBVIOUS
    <3> QED  BY <3>1, <3>2
  <2>7. X!TypeOK'
    BY <1>1, <1>2, <2>1, <2>5 DEF X!TypeOK
  <2>8. X!Underway'
    BY <1>b, <1>c, <2>1 DEF X!Underway
  <2>9. X!ServerUp' /\ X!LoginRead'
    BY <1>1, <2>1, <2>5 DEF X!ServerUp, X!LoginRead
  <2>10. X!Issued'
    BY <1>1, <1>2, <2>1, <2>5, <2>6 DEF X!Issued
  <2>11. X!GrantOwn'
    BY <1>1, <1>2, <1>5, <2>1, <2>5 DEF X!GrantOwn
  <2>12. X!CodexGrantKept'
    BY <1>2, <1>5, <2>5 DEF X!CodexGrantKept
  <2> QED  BY <1>3, <2>7, <2>8, <2>9, <2>10, <2>11, <2>12 DEF X!Inv
<1> QED  BY <1>6, <1>7

\* The app-server exchanges the stored login, stores the new one or ends.
LEMMA CodexServes ==
    ASSUME X!Inv, X!ServerAsks \/ X!ServerStores \/ X!ServerEnds
    PROVE  X!Inv'
<1>1. /\ X!TypeOK /\ X!Underway /\ X!ServerUp /\ X!LoginRead /\ X!Issued /\ X!GrantOwn
      /\ X!AnswerWhole /\ X!CodexGrantKept
  BY DEF X!Inv
<1>2. UNCHANGED <<v1, v2, v9, v10, v11, v12, v13>>
  BY DEF X!ServerAsks, X!ServerStores, X!ServerEnds, X!service
<1>3. X!AnswerWhole' /\ X!Underway'
  BY <1>1, <1>2 DEF X!AnswerWhole, X!Health, X!Underway
<1>4. /\ v3.refresh \in 1..v4 \cup {None}
      /\ v10.auth.refresh \in 1..v4 \cup {None}
      /\ v8 # None => v8 \in 1..v4
      /\ v9 \in {"save", "fill"} => v10.granted \in 1..v4
      /\ None \notin 1..v4
  BY CodexKnown
<1>5. CASE X!ServerAsks
  <2>1. /\ v8 = None /\ X!Granted(v3.refresh) /\ v8' = v4' /\ v3' = v3 /\ v7' = v7
    BY <1>5 DEF X!ServerAsks
  <2>2. /\ v4' \in X!Tokens /\ v4' = v4 + 1 /\ v4 \in Nat /\ v6' = v6
        /\ v5' = (v5 \ {v3.refresh}) \cup {v4'} /\ v5' \in SUBSET X!Tokens
        /\ v5' \subseteq 1..v4' /\ v4' \in v5'
        /\ \A n \in 1..v4 : n # v4'
    BY <2>1, CodexGranted
  <2>3. v4' # None
    BY <2>2, CodexBounds
  <2>4. X!TypeOK'
    BY <1>1, <1>2, <2>1, <2>2 DEF X!TypeOK
  <2>5. X!ServerUp' /\ X!LoginRead'
    BY <1>1, <1>2, <2>1 DEF X!ServerUp, X!LoginRead
  <2>6. X!Issued'
    BY <1>2, <1>4, <2>1, <2>2 DEF X!Issued
  <2>7. X!GrantOwn'
    BY <1>1, <1>2, <1>4, <2>1, <2>2, <2>3 DEF X!GrantOwn
  <2>8. X!CodexGrantKept'
    BY <2>1, <2>3 DEF X!CodexGrantKept
  <2> QED  BY <1>3, <2>4, <2>5, <2>6, <2>7, <2>8 DEF X!Inv
<1>6. CASE X!ServerStores
  <2>1. /\ v8 # None /\ v8' = None /\ v3' = X!LoginFile(v8, v8)
        /\ UNCHANGED <<v4, v5, v6, v7>> /\ v8 \in X!Tokens
    BY <1>1, <1>6 DEF X!ServerStores, X!service, X!TypeOK
  <2>2. v3' \in X!Files /\ v3'.kind = "chatgpt" /\ v3'.refresh = v8
    BY <2>1, CodexFiles
  <2>3. v8 \in v5 /\ v8 <= v4
    BY <1>1, <2>1 DEF X!GrantOwn, X!Issued
  <2>4. X!TypeOK'
    BY <1>1, <1>2, <2>1, <2>2 DEF X!TypeOK
  <2>5. X!ServerUp' /\ X!LoginRead'
    BY <1>1, <1>2, <2>1, <2>2 DEF X!ServerUp, X!LoginRead
  <2>6. X!Issued'
    BY <1>1, <1>2, <2>1, <2>2, <2>3 DEF X!Issued
  <2>7. X!GrantOwn'
    BY <1>1, <1>2, <1>4, <2>1, <2>2 DEF X!GrantOwn
  <2>8. X!CodexGrantKept'
    BY <2>1, <2>2, <2>3 DEF X!CodexGrantKept
  <2> QED  BY <1>3, <2>4, <2>5, <2>6, <2>7, <2>8 DEF X!Inv
<1>7. CASE X!ServerEnds
  <2>1. /\ v7 > 0 /\ v7' = v7 - 1 /\ v9 # "rpc"
        /\ UNCHANGED <<v3, v4, v5, v6, v8>>
    BY <1>7 DEF X!ServerEnds, X!service
  <2>2. v7' \in 0..MaxServers
    BY <1>1, <2>1, CodexBounds DEF X!TypeOK
  <2>3. X!TypeOK'
    BY <1>1, <1>2, <2>1, <2>2 DEF X!TypeOK
  <2>4. X!ServerUp' /\ X!LoginRead' /\ X!Issued' /\ X!GrantOwn' /\ X!CodexGrantKept'
    BY <1>1, <1>2, <2>1
       DEF X!ServerUp, X!LoginRead, X!Issued, X!GrantOwn, X!CodexGrantKept
  <2> QED  BY <1>3, <2>3, <2>4 DEF X!Inv
<1> QED  BY <1>5, <1>6, <1>7

\* The user logs in, or a token runs out.
LEMMA CodexOthers ==
    ASSUME X!Inv, X!Login \/ X!Expire
    PROVE  X!Inv'
<1>1. /\ X!TypeOK /\ X!Underway /\ X!ServerUp /\ X!LoginRead /\ X!Issued /\ X!GrantOwn
      /\ X!AnswerWhole /\ X!CodexGrantKept
  BY DEF X!Inv
<1>2. UNCHANGED <<v1, v2, v7, v8, v9, v10, v11, v12, v13>>
  BY DEF X!Login, X!Expire
<1>3. X!AnswerWhole' /\ X!Underway' /\ X!ServerUp'
  BY <1>1, <1>2 DEF X!AnswerWhole, X!Health, X!Underway, X!ServerUp
<1>4. CASE X!Expire
  <2>1. UNCHANGED <<v3, v4, v5>> /\ v6' = v6 + 1 /\ v6 < v4
    BY <1>4 DEF X!Expire
  <2>2. v6' \in 0..CodexTokens
    BY <1>1, <2>1, CodexBounds DEF X!TypeOK, X!Tokens
  <2>3. X!TypeOK'
    BY <1>1, <1>2, <2>1, <2>2 DEF X!TypeOK
  <2>4. X!LoginRead' /\ X!Issued' /\ X!GrantOwn' /\ X!CodexGrantKept'
    BY <1>1, <1>2, <2>1 DEF X!LoginRead, X!Issued, X!GrantOwn, X!CodexGrantKept
  <2> QED  BY <1>3, <2>3, <2>4 DEF X!Inv
<1>5. CASE X!Login
  <2>1. /\ v4' = v4 + 1 /\ v5' = v5 \cup {v4'} /\ v3' = X!LoginFile(v4', v4')
        /\ v6' = v6 /\ v4 < CodexTokens
    BY <1>5 DEF X!Login
  <2>2. v4' \in X!Tokens /\ v4 \in Nat /\ v5' \in SUBSET X!Tokens
    BY <1>1, <2>1, CodexBounds DEF X!TypeOK, X!Tokens
  <2>3. v3' \in X!Files /\ v3'.kind = "chatgpt" /\ v3'.refresh = v4'
    BY <2>1, <2>2, CodexFiles
  <2>4. /\ v10.auth.refresh \in 1..v4 \cup {None}
        /\ v8 # None => v8 \in 1..v4
        /\ v9 \in {"save", "fill"} => v10.granted \in 1..v4
        /\ v5 \subseteq 1..v4
    BY <1>1, CodexKnown DEF X!Issued
  <2>5. X!TypeOK'
    BY <1>1, <1>2, <2>1, <2>2, <2>3 DEF X!TypeOK
  <2>6. X!LoginRead'
    BY <1>1, <1>2, <2>3 DEF X!LoginRead
  <2>7. X!Issued'
    BY <1>2, <2>1, <2>2, <2>3, <2>4 DEF X!Issued
  <2>8. X!GrantOwn'
    BY <1>1, <1>2, <2>1, <2>2, <2>3, <2>4 DEF X!GrantOwn
  <2>9. X!CodexGrantKept'
    BY <2>1, <2>3 DEF X!CodexGrantKept
  <2> QED  BY <1>3, <2>5, <2>6, <2>7, <2>8, <2>9 DEF X!Inv
<1> QED  BY <1>4, <1>5

LEMMA CodexBegins ==
    ASSUME X!Inv, X!Begin
    PROVE  X!Inv'
<1>1. /\ X!TypeOK /\ X!ServerUp /\ X!LoginRead /\ X!Issued /\ X!GrantOwn
      /\ X!AnswerWhole /\ X!CodexGrantKept
  BY DEF X!Inv
<1>2. /\ UNCHANGED <<v1, v2, v3, v4, v5, v6, v8, v11, v13>> /\ v9 = "idle" /\ v9' = "rpc"
      /\ v7' = v7 + 1 /\ v7 < MaxServers /\ v12' = v12 + 1 /\ v12 < MaxPolls
  BY DEF X!Begin, X!Goto, X!service
<1> DEFINE readable == v3.kind \in {"chatgpt", "api-key"}
           a == IF X!PersistsToFile(X!Store(v1, v3)) /\ readable THEN v3 ELSE X!NoFile
           l == IF X!PersistsToFile(X!Store(v1, v3)) /\ ~readable THEN "load" ELSE None
<1>3. v10' = [X!NoPoll EXCEPT !.auth = a, !.store = X!Store(v1, v3),
                              !.loadError = l, !.error = l]
  BY DEF X!Begin, X!Goto
<1>4. /\ a \in X!Files /\ (a = v3 \/ a = X!NoFile) /\ l \in {None, "load"}
      /\ X!Store(v1, v3) \in {"file", "keyring", "auto-file", "auto-keyring"}
      /\ "load" \in X!Errors
  BY <1>1, CodexFiles DEF X!TypeOK, X!Store, X!Modes, X!Errors
<1> HIDE DEF a, l
<1>5. v10' \in X!Poll /\ v10'.auth = a
  <2>1. PICK q1 : q1 = [X!NoPoll EXCEPT !.auth = a]
    OBVIOUS
  <2>2. q1 \in X!Poll /\ q1.auth = a
    BY <1>4, <2>1, CodexNoPoll, CodexPolls
  <2>3. PICK q2 : q2 = [q1 EXCEPT !.store = X!Store(v1, v3)]
    OBVIOUS
  <2>4. q2 \in X!Poll /\ q2.auth = a
    BY <1>4, <2>2, <2>3, CodexPolls
  <2>5. PICK q3 : q3 = [q2 EXCEPT !.loadError = l]
    OBVIOUS
  <2>6. q3 \in X!Poll /\ q3.auth = a
    BY <1>4, <2>4, <2>5, CodexPolls
  <2>7. v10' = [q3 EXCEPT !.error = l]
    BY <1>3, <2>1, <2>3, <2>5
  <2> QED  BY <1>4, <2>6, <2>7, CodexPolls
<1>6. X!Underway'
  <2>1. /\ v10'.attempts = X!NoPoll.attempts /\ v10'.used = X!NoPoll.used
        /\ (~X!NoPoll.available => ~v10'.available)
    BY <1>3 DEF X!NoPoll
  <2> QED  BY <1>2, <2>1, CodexNoPoll DEF X!Underway
<1>7. v7' \in 0..MaxServers /\ v12' \in 0..MaxPolls /\ v7' > 0
  BY <1>1, <1>2, CodexBounds DEF X!TypeOK
<1>8. X!TypeOK'
  BY <1>1, <1>2, <1>5, <1>7 DEF X!TypeOK
<1>9. X!ServerUp' /\ X!LoginRead'
  BY <1>1, <1>2, <1>4, <1>5, <1>7, CodexFiles DEF X!ServerUp, X!LoginRead
<1>10. X!Issued' /\ X!GrantOwn' /\ X!AnswerWhole' /\ X!CodexGrantKept'
  <2>1. v10'.auth.refresh \in {v3.refresh, None}
    BY <1>4, <1>5, CodexFiles
  <2>2. v8 # None => v8 \notin {v3.refresh, None}
    BY <1>1 DEF X!GrantOwn
  <2>3. X!Issued'
    BY <1>1, <1>2, <2>1 DEF X!Issued
  <2>4. X!GrantOwn'
    BY <1>1, <1>2, <2>1, <2>2 DEF X!GrantOwn
  <2>5. X!AnswerWhole'
    BY <1>1, <1>2 DEF X!AnswerWhole, X!Health
  <2>6. X!CodexGrantKept'
    BY <1>1, <1>2 DEF X!CodexGrantKept
  <2> QED  BY <2>3, <2>4, <2>5, <2>6
<1> QED  BY <1>6, <1>8, <1>9, <1>10 DEF X!Inv

LEMMA CodexStep == X!Inv /\ [X!Next]_(X!vars) => X!Inv'
<1>1. ASSUME X!Inv, X!Next PROVE X!Inv'
  <2>1. CASE X!SaveReads
    BY <1>1, <2>1, CodexSaves, CodexStops
  <2>2. CASE X!RefreshFails
    <3>1. \/ X!Granted(v10.auth.refresh) /\ v13'
          \/ UNCHANGED <<v4, v5, v6, v13>>
      BY <2>2 DEF X!RefreshFails, X!service
    <3> QED  BY <1>1, <2>2, <3>1, CodexRefreshes, CodexFailing
  <2>3. CASE X!FetchAgain
    <3>1. v9' \in {"idle", "cli"}
      BY <2>3 DEF X!FetchAgain, X!Finish, X!Goto
    <3> QED  BY <1>1, <2>3, <3>1, CodexAnswering, CodexFailing
  <2>4. CASE X!Crash
    BY <1>1, <2>4, CodexStops
  <2>5. CASE X!RpcFails \/ X!FetchRefused \/ X!FetchFails \/ X!RefreshRefused
    BY <1>1, <2>5, CodexFailing
  <2> QED  BY <1>1, <2>1, <2>2, <2>3, <2>4, <2>5, CodexAnswering, CodexRefreshes,
              CodexSaves, CodexServes, CodexOthers, CodexBegins
           DEF X!Next, X!Fetch, X!Refresh
<1>2. X!Inv /\ UNCHANGED X!vars => X!Inv'
  BY DEF X!Inv, X!TypeOK, X!Underway, X!ServerUp, X!LoginRead, X!Issued, X!GrantOwn,
         X!AnswerWhole, X!Health, X!CodexGrantKept, X!vars, X!service
<1> QED  BY <1>1, <1>2

-----------------------------------------------------------------------------
(* The status polls *)

LEMMA StatusBounds ==
    /\ Lifetime \in Nat /\ StatusClock \in Nat /\ MaxVersion \in Nat
    /\ Outlooks \subseteq H!Levels /\ Polled \subseteq SUBSET H!Providers
BY Instances DEF H!HealthBounds

\* The steps between taking a lock and giving it back.
Looking == {"claude", "openai", "keep", "notify", "store"}
Asking == {"fetch", "official", "spike", "store"}

LEMMA StatusInit == H!Init => H!Inv
<1> SUFFICES ASSUME H!Init PROVE H!Inv
  OBVIOUS
<1>1. H!Resting \in H!Polls /\ H!Resting.pc = "idle" /\ H!Resting.etag = 0
  BY DEF H!Resting, H!Polls, H!Shows
<1>2. H!Quiet \in H!Asks /\ H!Quiet.pc = "idle"
  <2>1. /\ [p \in H!Providers |-> "unknown"]
             \in [H!Providers -> {"normal", "elevated", "spike", "unknown"}]
        /\ [p \in H!Providers |-> FALSE] \in [H!Providers -> BOOLEAN]
        /\ [p \in H!Providers |-> "absent"] \in [H!Providers -> H!Shows]
    BY DEF H!Shows
  <2> QED  BY <2>1 DEF H!Quiet, H!Asks
<1>3. v5 \in [at : Nat, stored : BOOLEAN, claude : H!Shows, openai : H!Shows, etag : Nat]
      /\ v5.etag = 0 /\ v5.claude = "absent" /\ v5.openai = "absent"
  BY DEF H!Init, H!NoStatus, H!Shows
<1>4. v4 \in [H!Providers -> [version : Nat, level : H!Levels]]
      /\ v4["claude"].version = 1
  BY DEF H!Init, H!Levels, H!Providers
<1>5. H!Types
  <2>1. v1 \in 0..StatusClock /\ v2 \in SUBSET H!Providers
    BY StatusBounds DEF H!Init
  <2>2. v6 \in SUBSET Pollers /\ v7 \in [Pollers -> H!Polls]
        /\ v9 \in SUBSET Askers /\ v10 \in [Askers -> H!Asks]
    BY <1>1, <1>2 DEF H!Init
  <2>3. /\ v11 \in [H!Providers -> {"unset", "yes", "no"}]
        /\ v12 \in [H!Providers -> {"unset", "yes", "no"}]
        /\ v13 \in [H!Providers -> H!Shows] /\ v14 \in [H!Providers -> H!Shows]
        /\ v15 \in [H!Providers -> {"nothing", "degraded", "restored"}]
        /\ v16 \in [H!Providers -> H!Shows]
    BY DEF H!Init, H!Shows
  <2> QED  BY <1>3, <1>4, <2>1, <2>2, <2>3 DEF H!Types
<1>6. H!Locked
  BY <1>1, <1>2 DEF H!Init, H!Locked
<1>7. H!Remembered /\ H!SpikeLeads
  BY DEF H!Init, H!Remembered, H!SpikeLeads, H!Worthy
<1>8. H!Fetched /\ H!TagSeen
  BY <1>1, <1>3, <1>4 DEF H!Init, H!Fetched, H!TagSeen
<1>9. H!KnownCached
  BY <1>2, <1>3 DEF H!Init, H!KnownCached, H!Providers
<1>10. H!StatusKept
  BY <1>3, <1>4 DEF H!StatusKept
<1> QED  BY <1>5, <1>6, <1>7, <1>8, <1>9, <1>10 DEF H!Inv

\* A step of one poll of the status keeps the locks and what the others fetched.
LEMMA StatusPolls ==
    ASSUME H!Types, H!Locked, H!Fetched, NEW c \in Pollers,
           UNCHANGED <<v2, v4, v9, v10>>,
           v7' \in [Pollers -> H!Polls], \A d \in Pollers \ {c} : v7'[d] = v7[d],
           \/ v6' = v6
           \/ v6 = {} /\ v6' = {c}
           \/ v6' = v6 \ {c} /\ v7'[c].pc \notin Looking
           \/ v6 = {c} /\ v6' = {} /\ v7'[c].pc \notin Looking,
           v7'[c].pc \in Looking => v6' = {c},
           v5' = v5 \/ v7[c].pc \in Looking,
           v7'[c].etag <= v4["claude"].version,
           v7'[c].pc = "claude" => v7'[c].etag = v5'.etag,
           v7'[c].pc \in Looking \ {"claude"} =>
             /\ v7'[c].claude # "absent" /\ v7'[c].etag = v4["claude"].version =>
                  v7'[c].claude = v4["claude"].level
             /\ v7'[c].same => v7'[c].claude = "absent" /\ "claude" \in v2,
           v7'[c].pc \in {"keep", "notify", "store"} =>
             /\ v7'[c].openai # "absent" => "openai" \in v2
             /\ v7'[c].pc # "keep" => {v7'[c].claude, v7'[c].openai} # {"absent"}
    PROVE  v6' \in SUBSET Pollers /\ H!Locked' /\ H!Fetched'
<1>1. v6' \in SUBSET Pollers
  BY DEF H!Types
<1>2. H!Locked'
  BY DEF H!Locked, Looking
<1>3. H!Fetched'
  <2>1. ASSUME NEW d \in Pollers, d # c, v7[d].pc = "claude" PROVE v5' = v5
    BY <2>1 DEF H!Locked, Looking
  <2> QED  BY <2>1 DEF H!Fetched, Looking
<1> QED  BY <1>1, <1>2, <1>3

\* A poll that only moves on, waits, fetches or is dropped.
LEMMA StatusMoves ==
    ASSUME H!Inv, UNCHANGED <<v1, v2, v4, v5, v9, v10, v11, v12, v13, v14, v15, v16>>,
           v6' \in SUBSET Pollers, v7' \in [Pollers -> H!Polls], H!Locked', H!Fetched'
    PROVE  H!Inv'
<1>1. /\ H!Types /\ H!Remembered /\ H!TagSeen /\ H!KnownCached /\ H!StatusKept
      /\ (v2 # H!Providers => H!SpikeLeads)
  BY DEF H!Inv
<1>2. H!Types'
  BY <1>1 DEF H!Types
<1>3. H!Remembered' /\ H!TagSeen' /\ H!KnownCached' /\ H!StatusKept'
  BY <1>1 DEF H!Remembered, H!TagSeen, H!KnownCached, H!StatusKept
<1>4. v2' # H!Providers => H!SpikeLeads'
  BY <1>1 DEF H!SpikeLeads
<1> QED  BY <1>2, <1>3, <1>4 DEF H!Inv

LEMMA StatusWaits ==
    ASSUME H!Inv, NEW c \in Pollers,
           H!StartStatus(c) \/ H!LockStatus(c) \/ H!DropStatus(c)
    PROVE  H!Inv'
<1>1. /\ H!Types /\ H!Locked /\ H!Fetched /\ H!TagSeen
      /\ UNCHANGED <<v1, v2, v4, v5, v9, v10, v11, v12, v13, v14, v15, v16>>
  BY DEF H!Inv, H!StartStatus, H!LockStatus, H!DropStatus, H!world, H!crowd, H!hooks,
         H!history
<1>2. /\ v7 \in [Pollers -> H!Polls] /\ v7[c] \in H!Polls
      /\ v5.etag \in Nat /\ v4["claude"].version \in Nat
      /\ v7[c].etag <= v4["claude"].version /\ v5.etag <= v4["claude"].version
  BY <1>1 DEF H!Types, H!Providers, H!Fetched, H!TagSeen
<1>3. H!Resting \in H!Polls /\ H!Resting.pc = "idle" /\ H!Resting.etag = 0
  BY DEF H!Resting, H!Polls, H!Shows
<1>4. CASE H!StartStatus(c) /\ v7' = [v7 EXCEPT ![c].pc = "wait"]
  <2>1. v7' \in [Pollers -> H!Polls] /\ v7'[c].pc = "wait" /\ v7'[c].etag = v7[c].etag
    BY <1>2, <1>4 DEF H!Polls
  <2>2. \A d \in Pollers \ {c} : v7'[d] = v7[d]
    BY <1>2, <1>4
  <2>3. v6' = v6 /\ v7'[c].pc \notin Looking
    BY <1>4, <2>1 DEF H!StartStatus, Looking
  <2>4. v6' \in SUBSET Pollers /\ H!Locked' /\ H!Fetched'
    BY <1>1, <1>2, <2>1, <2>2, <2>3, StatusPolls DEF Looking
  <2> QED  BY <1>1, <2>1, <2>4, StatusMoves
<1>5. CASE UNCHANGED <<v6, v7>>
  <2>1. H!Locked' /\ H!Fetched'
    BY <1>1, <1>5 DEF H!Locked, H!Fetched
  <2> QED  BY <1>1, <1>2, <1>5, <2>1, StatusMoves DEF H!Types
<1>6. CASE v7' = [v7 EXCEPT ![c] = H!Resting] /\ (v6' = v6 \/ v6' = v6 \ {c})
  <2>1. v7' \in [Pollers -> H!Polls] /\ v7'[c].pc = "idle" /\ v7'[c].etag = 0
    BY <1>2, <1>3, <1>6
  <2>2. \A d \in Pollers \ {c} : v7'[d] = v7[d]
    BY <1>2, <1>6
  <2>3. v7'[c].pc \notin Looking /\ v7'[c].etag <= v4["claude"].version
    BY <1>2, <2>1 DEF Looking
  <2>4. v6' \in SUBSET Pollers /\ H!Locked' /\ H!Fetched'
    BY <1>1, <1>6, <2>1, <2>2, <2>3, StatusPolls DEF Looking
  <2> QED  BY <1>1, <2>1, <2>4, StatusMoves
<1>7. CASE /\ H!LockStatus(c) /\ v6' = {c}
           /\ v7' = [v7 EXCEPT ![c].pc = "claude", ![c].etag = v5.etag]
  <2>1. PICK f : f = [v7 EXCEPT ![c].pc = "claude"]
    OBVIOUS
  <2>2. f \in [Pollers -> H!Polls] /\ f[c].pc = "claude" /\ v7' = [f EXCEPT ![c].etag = v5.etag]
    BY <1>2, <1>7, <2>1 DEF H!Polls
  <2>3. v7' \in [Pollers -> H!Polls] /\ v7'[c].pc = "claude" /\ v7'[c].etag = v5.etag
    BY <1>2, <2>2 DEF H!Polls
  <2>4. \A d \in Pollers \ {c} : v7'[d] = v7[d]
    BY <1>2, <2>1, <2>2
  <2>5. v6 = {}
    BY <1>7 DEF H!LockStatus
  <2>6. v6' \in SUBSET Pollers /\ H!Locked' /\ H!Fetched'
    BY <1>1, <1>2, <1>7, <2>3, <2>4, <2>5, StatusPolls DEF Looking
  <2> QED  BY <1>1, <2>3, <2>6, StatusMoves
<1>8. \/ H!StartStatus(c) /\ v7' = [v7 EXCEPT ![c].pc = "wait"]
      \/ UNCHANGED <<v6, v7>>
      \/ v7' = [v7 EXCEPT ![c] = H!Resting] /\ (v6' = v6 \/ v6' = v6 \ {c})
      \/ /\ H!LockStatus(c) /\ v6' = {c}
         /\ v7' = [v7 EXCEPT ![c].pc = "claude", ![c].etag = v5.etag]
  BY DEF H!StartStatus, H!LockStatus, H!DropStatus, H!Ended
<1> QED  BY <1>4, <1>5, <1>6, <1>7, <1>8

LEMMA StatusFetches ==
    ASSUME H!Inv, NEW c \in Pollers, H!FetchClaude(c) \/ H!FetchOpenAI(c)
    PROVE  H!Inv'
<1>1. /\ H!Types /\ H!Locked /\ H!Fetched
      /\ UNCHANGED <<v1, v2, v4, v5, v6, v9, v10, v11, v12, v13, v14, v15, v16>>
  BY DEF H!Inv, H!FetchClaude, H!FetchOpenAI, H!world, H!crowd, H!hooks, H!history
<1>2. /\ v7 \in [Pollers -> H!Polls] /\ v7[c] \in H!Polls
      /\ v4["claude"].version \in Nat /\ v4["claude"].level \in H!Shows
      /\ v4["openai"].level \in H!Shows /\ "absent" \in H!Shows
      /\ v7[c].etag <= v4["claude"].version /\ v7[c].etag \in Nat
  BY <1>1 DEF H!Types, H!Providers, H!Fetched, H!Shows, H!Polls
<1>3. v7[c].pc \in Looking /\ v6 = {c}
  BY <1>1 DEF H!FetchClaude, H!FetchOpenAI, H!At, H!Locked, Looking
<1>4. CASE H!FetchClaude(c)
  <2>1. PICK asked \in BOOLEAN, same \in BOOLEAN :
            /\ same => asked /\ v7[c].etag = v4["claude"].version
            /\ asked /\ ~same => v7[c].etag # v4["claude"].version
            /\ asked => "claude" \in v2
            /\ v7' = [v7 EXCEPT ![c].pc = "openai", ![c].same = same,
                                ![c].claude = IF asked /\ ~same THEN v4["claude"].level
                                              ELSE "absent",
                                ![c].etag = IF asked THEN v4["claude"].version ELSE @]
    BY <1>4 DEF H!FetchClaude
  <2> DEFINE level == IF asked /\ ~same THEN v4["claude"].level ELSE "absent"
             etag == IF asked THEN v4["claude"].version ELSE v7[c].etag
  <2>2. level \in H!Shows /\ etag \in Nat /\ etag <= v4["claude"].version
    BY <1>2
  <2>3. PICK f1 : f1 = [v7 EXCEPT ![c].pc = "openai"]
    OBVIOUS
  <2>4. f1 \in [Pollers -> H!Polls] /\ f1[c].pc = "openai" /\ f1[c].etag = v7[c].etag
    BY <1>2, <2>3 DEF H!Polls
  <2>5. PICK f2 : f2 = [f1 EXCEPT ![c].same = same]
    OBVIOUS
  <2>6. f2 \in [Pollers -> H!Polls] /\ f2[c].pc = "openai" /\ f2[c].etag = v7[c].etag
        /\ f2[c].same = same
    BY <2>4, <2>5 DEF H!Polls
  <2>7. PICK f3 : f3 = [f2 EXCEPT ![c].claude = level]
    OBVIOUS
  <2>8. f3 \in [Pollers -> H!Polls] /\ f3[c].pc = "openai" /\ f3[c].etag = v7[c].etag
        /\ f3[c].same = same /\ f3[c].claude = level
    BY <2>2, <2>6, <2>7 DEF H!Polls
  <2>9. v7' = [f3 EXCEPT ![c].etag = etag]
    BY <1>2, <2>1, <2>3, <2>5, <2>7
  <2>10. v7' \in [Pollers -> H!Polls] /\ v7'[c].pc = "openai" /\ v7'[c].etag = etag
         /\ v7'[c].same = same /\ v7'[c].claude = level
    BY <2>2, <2>8, <2>9 DEF H!Polls
  <2>11. \A d \in Pollers \ {c} : v7'[d] = v7[d]
    BY <1>2, <2>3, <2>5, <2>7, <2>9
  <2>12. /\ level # "absent" /\ etag = v4["claude"].version => level = v4["claude"].level
         /\ same => level = "absent" /\ "claude" \in v2
    BY <2>1
  <2> HIDE DEF level, etag
  <2>13. v6' \in SUBSET Pollers /\ H!Locked' /\ H!Fetched'
    BY <1>1, <1>3, <2>2, <2>10, <2>11, <2>12, StatusPolls DEF Looking
  <2> QED  BY <1>1, <2>10, <2>13, StatusMoves
<1>5. CASE H!FetchOpenAI(c)
  <2>1. PICK level \in H!Shows :
            /\ level # "absent" => "openai" \in v2
            /\ v7' = [v7 EXCEPT ![c].openai = level,
                                ![c].pc = IF {v7[c].claude, level} = {"absent"} THEN "keep"
                                          ELSE "notify"]
    <3>1. PICK answers \in BOOLEAN :
            v7' = [v7 EXCEPT ![c].openai = IF "openai" \in v2 /\ answers
                                           THEN v4["openai"].level ELSE "absent",
                             ![c].pc = IF {v7[c].claude,
                                           IF "openai" \in v2 /\ answers
                                           THEN v4["openai"].level ELSE "absent"} = {"absent"}
                                       THEN "keep" ELSE "notify"]
      BY <1>5 DEF H!FetchOpenAI
    <3> DEFINE level == IF "openai" \in v2 /\ answers THEN v4["openai"].level ELSE "absent"
    <3>2. level \in H!Shows /\ (level # "absent" => "openai" \in v2)
      BY <1>2
    <3> QED  BY <3>1, <3>2
  <2> DEFINE pc == IF {v7[c].claude, level} = {"absent"} THEN "keep" ELSE "notify"
  <2>2. PICK f : f = [v7 EXCEPT ![c].openai = level]
    OBVIOUS
  <2>3. /\ f \in [Pollers -> H!Polls] /\ f[c].openai = level /\ f[c].etag = v7[c].etag
        /\ f[c].claude = v7[c].claude /\ f[c].same = v7[c].same
    BY <1>2, <2>2 DEF H!Polls
  <2>4. v7' = [f EXCEPT ![c].pc = pc] /\ pc \in {"keep", "notify"}
    BY <1>2, <2>1, <2>2
  <2>a. pc # "keep" => {v7[c].claude, level} # {"absent"}
    OBVIOUS
  <2> HIDE DEF pc
  <2>5. /\ v7' \in [Pollers -> H!Polls] /\ v7'[c].pc = pc /\ v7'[c].openai = level
        /\ v7'[c].etag = v7[c].etag /\ v7'[c].claude = v7[c].claude
        /\ v7'[c].same = v7[c].same
    BY <2>3, <2>4 DEF H!Polls
  <2>6. \A d \in Pollers \ {c} : v7'[d] = v7[d]
    BY <1>2, <2>2, <2>4
  <2>7. v7[c].pc = "openai"
    BY <1>5 DEF H!FetchOpenAI, H!At
  <2>8. /\ v7[c].claude # "absent" /\ v7[c].etag = v4["claude"].version =>
             v7[c].claude = v4["claude"].level
        /\ v7[c].same => v7[c].claude = "absent" /\ "claude" \in v2
    BY <1>1, <2>7 DEF H!Fetched
  <2>9. v6' \in SUBSET Pollers /\ H!Locked' /\ H!Fetched'
    BY <1>1, <1>2, <1>3, <2>1, <2>4, <2>a, <2>5, <2>6, <2>8, StatusPolls DEF Looking
  <2> QED  BY <1>1, <2>5, <2>9, StatusMoves
<1> QED  BY <1>4, <1>5

LEMMA StatusNotifies ==
    ASSUME H!Inv, NEW c \in Pollers, H!NotifyStatus(c)
    PROVE  H!Inv'
<1>1. /\ H!Types /\ H!Locked /\ H!Fetched /\ H!Remembered /\ H!TagSeen /\ H!KnownCached
      /\ H!StatusKept /\ (v2 # H!Providers => H!SpikeLeads)
      /\ UNCHANGED <<v1, v2, v4, v5, v6, v9, v10, v12, v13, v16>>
  BY DEF H!Inv, H!NotifyStatus, H!world, H!crowd
<1>2. /\ v7 \in [Pollers -> H!Polls] /\ v7[c] \in H!Polls /\ v7[c].pc = "notify"
      /\ v6 = {c} /\ v7' = [v7 EXCEPT ![c].pc = "store"]
  BY <1>1 DEF H!Types, H!NotifyStatus, H!At, H!Locked
<1>3. /\ v7' \in [Pollers -> H!Polls] /\ v7'[c].pc = "store"
      /\ v7'[c].etag = v7[c].etag /\ v7'[c].claude = v7[c].claude
      /\ v7'[c].openai = v7[c].openai /\ v7'[c].same = v7[c].same
  BY <1>2 DEF H!Polls
<1>4. \A d \in Pollers \ {c} : v7'[d] = v7[d]
  BY <1>2
<1>5. /\ v7[c].etag <= v4["claude"].version
      /\ v7[c].claude # "absent" /\ v7[c].etag = v4["claude"].version =>
           v7[c].claude = v4["claude"].level
      /\ v7[c].same => v7[c].claude = "absent" /\ "claude" \in v2
      /\ v7[c].openai # "absent" => "openai" \in v2
      /\ {v7[c].claude, v7[c].openai} # {"absent"}
  BY <1>1, <1>2 DEF H!Fetched
<1>6. v6' \in SUBSET Pollers /\ H!Locked' /\ H!Fetched'
  BY <1>1, <1>2, <1>3, <1>4, <1>5, StatusPolls DEF Looking
<1> DEFINE bad(p) == IF H!Worthy(H!Found(c, p)) THEN "yes" ELSE "no"
           looked == {p \in H!Providers : H!Found(c, p) # "absent"}
<1>7. /\ v11' = [p \in H!Providers |-> IF p \in looked THEN bad(p) ELSE v11[p]]
      /\ v14' = [p \in H!Providers |-> IF p \in looked THEN H!Found(c, p) ELSE v14[p]]
      /\ v15' = [p \in H!Providers |->
                   IF p \notin looked \/ v11[p] \in {"unset", bad(p)} THEN v15[p]
                   ELSE IF bad(p) = "yes" THEN "degraded" ELSE "restored"]
  BY DEF H!NotifyStatus
<1>8. \A p \in H!Providers : H!Found(c, p) \in H!Shows
  BY <1>2 DEF H!Found, H!Polls
<1>9. /\ v11' \in [H!Providers -> {"unset", "yes", "no"}]
      /\ v14' \in [H!Providers -> H!Shows]
      /\ v15' \in [H!Providers -> {"nothing", "degraded", "restored"}]
  BY <1>1, <1>7, <1>8 DEF H!Types
<1>10. H!Types'
  BY <1>1, <1>3, <1>6, <1>9 DEF H!Types
<1>11. ASSUME NEW p \in H!Providers
       PROVE  /\ v11'[p] = "yes" => H!Worthy(v14'[p])
              /\ v11'[p] = "no" => ~H!Worthy(v14'[p])
              /\ v15'[p] = "degraded" => v11'[p] = "yes"
              /\ v15'[p] = "restored" => v11'[p] = "no"
  <2>1. /\ v11[p] \in {"unset", "yes", "no"}
        /\ v11[p] = "yes" => H!Worthy(v14[p])
        /\ v11[p] = "no" => ~H!Worthy(v14[p])
        /\ v15[p] = "degraded" => v11[p] = "yes"
        /\ v15[p] = "restored" => v11[p] = "no"
    BY <1>1 DEF H!Types, H!Remembered
  <2>2. CASE p \in looked
    <3>1. v11'[p] = bad(p) /\ v14'[p] = H!Found(c, p)
      BY <1>7, <2>2
    <3>2. v15'[p] = IF v11[p] \in {"unset", bad(p)} THEN v15[p]
                    ELSE IF bad(p) = "yes" THEN "degraded" ELSE "restored"
      BY <1>7, <2>2
    <3> QED  BY <2>1, <3>1, <3>2
  <2>3. CASE p \notin looked
    <3>1. v11'[p] = v11[p] /\ v14'[p] = v14[p] /\ v15'[p] = v15[p]
      BY <1>7, <2>3
    <3> QED  BY <2>1, <3>1
  <2> QED  BY <2>2, <2>3
<1>12. H!Remembered'
  BY <1>11 DEF H!Remembered
<1>13. H!TagSeen' /\ H!KnownCached' /\ H!StatusKept' /\ (v2' # H!Providers => H!SpikeLeads')
  BY <1>1 DEF H!TagSeen, H!KnownCached, H!StatusKept, H!SpikeLeads
<1> QED  BY <1>6, <1>10, <1>12, <1>13 DEF H!Inv

\* A poll stores what it found, or keeps what was stored.
LEMMA StatusStores ==
    ASSUME H!Inv, NEW c \in Pollers, H!StoreStatus(c) \/ H!KeepStatus(c)
    PROVE  H!Inv'
<1>1. /\ H!Types /\ H!Locked /\ H!Fetched /\ H!Remembered /\ H!TagSeen /\ H!KnownCached
      /\ H!StatusKept /\ (v2 # H!Providers => H!SpikeLeads)
      /\ UNCHANGED <<v1, v2, v4, v9, v10, v12, v14, v15, v16, v11>>
  BY DEF H!Inv, H!StoreStatus, H!KeepStatus, H!world, H!crowd, H!hooks, H!history
<1>2. /\ v7 \in [Pollers -> H!Polls] /\ v7[c] \in H!Polls
      /\ v7[c].pc \in {"store", "keep"} /\ v7' = [v7 EXCEPT ![c] = H!Resting]
      /\ v6 = {c} /\ v6' = {}
      /\ v4["claude"].version \in Nat
  BY <1>1 DEF H!Types, H!StoreStatus, H!KeepStatus, H!At, H!Ended, H!Locked, H!Providers
<1>3. H!Resting \in H!Polls /\ H!Resting.pc = "idle" /\ H!Resting.etag = 0
  BY DEF H!Resting, H!Polls, H!Shows
<1>4. /\ v7' \in [Pollers -> H!Polls] /\ v7'[c].pc = "idle" /\ v7'[c].etag = 0
      /\ \A d \in Pollers \ {c} : v7'[d] = v7[d]
  BY <1>2, <1>3
<1>5. v7'[c].pc \notin Looking /\ v7[c].pc \in Looking
      /\ v7'[c].etag <= v4["claude"].version
  BY <1>2, <1>4 DEF Looking
<1>6. v6' \in SUBSET Pollers /\ H!Locked' /\ H!Fetched'
  BY <1>1, <1>2, <1>4, <1>5, StatusPolls DEF Looking
<1>7. /\ v7[c].etag <= v4["claude"].version
      /\ v7[c].claude # "absent" /\ v7[c].etag = v4["claude"].version =>
           v7[c].claude = v4["claude"].level
      /\ v7[c].same => v7[c].claude = "absent" /\ "claude" \in v2
      /\ v7[c].openai # "absent" => "openai" \in v2
      /\ v7[c].pc = "store" => {v7[c].claude, v7[c].openai} # {"absent"}
  BY <1>1, <1>2 DEF H!Fetched
<1>8. v1 \in Nat /\ v5 \in [at : Nat, stored : BOOLEAN, claude : H!Shows,
                            openai : H!Shows, etag : Nat]
  BY <1>1, StatusBounds DEF H!Types
<1>9. CASE H!KeepStatus(c)
  <2>1. v5' = [v5 EXCEPT !.at = v1, !.stored = TRUE] /\ v13' = v13
    BY <1>9 DEF H!KeepStatus, H!history
  <2>2. v5'.claude = v5.claude /\ v5'.openai = v5.openai /\ v5'.etag = v5.etag
    BY <1>8, <2>1
  <2>3. v5' \in [at : Nat, stored : BOOLEAN, claude : H!Shows, openai : H!Shows, etag : Nat]
    <3>1. PICK b \in BOOLEAN : b = TRUE
      OBVIOUS
    <3>2. PICK r : r = [v5 EXCEPT !.at = v1]
      OBVIOUS
    <3>3. r \in [at : Nat, stored : BOOLEAN, claude : H!Shows, openai : H!Shows, etag : Nat]
      BY <1>8, <3>2
    <3>4. v5' = [r EXCEPT !.stored = b]
      BY <2>1, <3>1, <3>2
    <3> QED  BY <3>3, <3>4
  <2>4. H!Types'
    BY <1>1, <1>4, <1>6, <2>1, <2>3 DEF H!Types
  <2>5. H!Remembered' /\ H!TagSeen' /\ H!KnownCached' /\ H!StatusKept'
    BY <1>1, <2>1, <2>2 DEF H!Remembered, H!TagSeen, H!KnownCached, H!StatusKept
  <2>6. v2' # H!Providers => H!SpikeLeads'
    BY <1>1 DEF H!SpikeLeads
  <2> QED  BY <1>6, <2>4, <2>5, <2>6 DEF H!Inv
<1>10. CASE H!StoreStatus(c)
  <2>1. /\ v7[c].pc = "store"
        /\ v5' = [at |-> v1, stored |-> TRUE, claude |-> v7[c].claude,
                  openai |-> v7[c].openai, etag |-> v7[c].etag]
        /\ v13' = [p \in H!Providers |->
                     IF p = "claude" /\ v7[c].same THEN v13[p] ELSE H!Found(c, p)]
    BY <1>10 DEF H!StoreStatus, H!At
  <2>2. /\ v5'.claude = v7[c].claude /\ v5'.openai = v7[c].openai /\ v5'.etag = v7[c].etag
        /\ v5' \in [at : Nat, stored : BOOLEAN, claude : H!Shows, openai : H!Shows,
                    etag : Nat]
    BY <1>2, <1>8, <2>1 DEF H!Polls
  <2>3. v13' \in [H!Providers -> H!Shows]
    <3>1. \A p \in H!Providers : H!Found(c, p) \in H!Shows /\ v13[p] \in H!Shows
      BY <1>1, <1>2 DEF H!Found, H!Polls, H!Types
    <3> QED  BY <2>1, <3>1
  <2>4. H!Types'
    BY <1>1, <1>4, <1>6, <2>2, <2>3 DEF H!Types
  <2>5. H!Remembered' /\ H!TagSeen'
    BY <1>1, <1>7, <2>2 DEF H!Remembered, H!TagSeen
  <2>6. H!KnownCached'
    <3>1. ASSUME v2 # H!Providers
          PROVE  v13'["claude"] = v5'.claude /\ v13'["openai"] = v5'.openai
      <4>1. ~v7[c].same
        <5>1. v2 \in SUBSET H!Providers
          BY <1>1 DEF H!Types
        <5> QED  BY <1>7, <2>1, <3>1, <5>1 DEF H!Providers
      <4>2. v13'["claude"] = H!Found(c, "claude") /\ v13'["openai"] = H!Found(c, "openai")
        BY <2>1, <4>1 DEF H!Providers
      <4> QED  BY <2>2, <4>2 DEF H!Found
    <3> QED  BY <1>1, <3>1 DEF H!KnownCached
  <2>7. H!StatusKept'
    BY <1>1, <1>7, <2>1, <2>2 DEF H!StatusKept
  <2>8. v2' # H!Providers => H!SpikeLeads'
    BY <1>1 DEF H!SpikeLeads
  <2> QED  BY <1>6, <2>4, <2>5, <2>6, <2>7, <2>8 DEF H!Inv
<1> QED  BY <1>9, <1>10

\* The clock, and a page that changes.
LEMMA StatusWorld ==
    ASSUME H!Inv, H!Tick \/ \E p \in v2, level \in Outlooks : H!Change(p, level)
    PROVE  H!Inv'
<1>1. /\ H!Types /\ H!Locked /\ H!Fetched /\ H!Remembered /\ H!TagSeen /\ H!KnownCached
      /\ H!StatusKept /\ (v2 # H!Providers => H!SpikeLeads)
      /\ UNCHANGED <<v2, v5, v6, v7, v9, v10, v11, v12, v13, v14, v15, v16>>
  BY DEF H!Inv, H!Tick, H!Change, H!status, H!crowd, H!hooks, H!history
<1>2. H!Locked' /\ H!Remembered' /\ H!KnownCached' /\ (v2' # H!Providers => H!SpikeLeads')
  BY <1>1 DEF H!Locked, H!Remembered, H!KnownCached, H!SpikeLeads
<1>3. CASE H!Tick
  <2>1. v1' \in 0..StatusClock /\ v4' = v4
    BY <1>1, <1>3, StatusBounds DEF H!Tick, H!Types
  <2>2. H!Types' /\ H!Fetched' /\ H!TagSeen' /\ H!StatusKept'
    BY <1>1, <2>1 DEF H!Types, H!Fetched, H!TagSeen, H!StatusKept
  <2> QED  BY <1>2, <2>2 DEF H!Inv
<1>4. ASSUME NEW p \in v2, NEW level \in Outlooks, H!Change(p, level)
      PROVE  H!Inv'
  <2>1. p \in H!Providers /\ level \in H!Levels /\ "claude" \in H!Providers
    BY <1>1, StatusBounds DEF H!Types, H!Providers
  <2>2. v4 \in [H!Providers -> [version : Nat, level : H!Levels]]
    BY <1>1 DEF H!Types
  <2>3. PICK r : r = [version |-> v4[p].version + 1, level |-> level]
    OBVIOUS
  <2>4. v4' = [v4 EXCEPT ![p] = r] /\ v1' = v1
    BY <1>4, <2>2, <2>3 DEF H!Change
  <2>5. r \in [version : Nat, level : H!Levels] /\ r.version = v4[p].version + 1
    BY <2>1, <2>2, <2>3
  <2>6. v4' \in [H!Providers -> [version : Nat, level : H!Levels]]
    BY <2>2, <2>4, <2>5
  <2>7. \/ v4'["claude"] = v4["claude"]
        \/ v4'["claude"].version = v4["claude"].version + 1
    BY <2>1, <2>2, <2>4, <2>5
  <2>8. v4["claude"].version \in Nat
    BY <2>1, <2>2
  <2>9. H!Types'
    BY <1>1, <2>4, <2>6 DEF H!Types
  <2>10. v5.etag \in Nat /\ \A d \in Pollers : v7[d].etag \in Nat
    BY <1>1 DEF H!Types, H!Polls
  <2>11. \/ v4'["claude"] = v4["claude"]
         \/ /\ v4["claude"].version <= v4'["claude"].version
            /\ \A n \in Nat : n <= v4["claude"].version =>
                 n <= v4'["claude"].version /\ n # v4'["claude"].version
    BY <2>7, <2>8
  <2>12. H!Fetched' /\ H!TagSeen'
    BY <1>1, <2>10, <2>11 DEF H!Fetched, H!TagSeen
  <2>13. H!StatusKept'
    BY <1>1, <2>10, <2>11 DEF H!StatusKept, H!TagSeen
  <2> QED  BY <1>2, <2>9, <2>12, <2>13 DEF H!Inv
<1> QED  BY <1>3, <1>4

SignalLevels == {"normal", "elevated", "spike", "unknown"}

LEMMA StatusSignals ==
    /\ H!Signals \subseteq SignalLevels
    /\ H!Quiet.level \in [H!Providers -> SignalLevels]
<1>1. \A says, count : H!LevelOf(says, count) \in SignalLevels
  BY DEF H!LevelOf, SignalLevels
<1>2. H!Signals \subseteq SignalLevels
  BY <1>1 DEF H!Signals
<1>3. H!Quiet.level = [p \in H!Providers |-> "unknown"]
  BY DEF H!Quiet
<1> QED  BY <1>2, <1>3 DEF SignalLevels

\* A step of one poll of the crowd keeps the locks.
LEMMA StatusAsks ==
    ASSUME H!Inv, NEW c \in Askers,
           UNCHANGED <<v1, v2, v4, v5, v6, v7, v11, v13, v14, v15>>,
           v10' \in [Askers -> H!Asks], \A d \in Askers \ {c} : v10'[d] = v10[d],
           \/ v9' = v9
           \/ v9 = {} /\ v9' = {c}
           \/ v9' = v9 \ {c} /\ v10'[c].pc \notin Asking
           \/ v9 = {c} /\ v9' = {} /\ v10'[c].pc \notin Asking,
           v10'[c].pc \in Asking => v9' = {c},
           v2 # H!Providers /\ v10'[c].pc = "spike" =>
             \A p \in H!Providers : ~v10'[c].major[p] => ~H!Worthy(v10'[c].official[p]),
           v12' \in [H!Providers -> {"unset", "yes", "no"}],
           v16' \in [H!Providers -> H!Shows], v2 # H!Providers => H!SpikeLeads'
    PROVE  H!Inv'
<1>1. /\ H!Types /\ H!Locked /\ H!Fetched /\ H!Remembered /\ H!TagSeen /\ H!KnownCached
      /\ H!StatusKept
  BY DEF H!Inv
<1>2. v9' \in SUBSET Askers
  BY <1>1 DEF H!Types
<1>3. H!Types'
  BY <1>1, <1>2 DEF H!Types
<1>4. H!Locked'
  BY <1>1 DEF H!Locked, Asking
<1>5. H!Fetched' /\ H!Remembered' /\ H!TagSeen' /\ H!StatusKept'
  BY <1>1 DEF H!Fetched, H!Remembered, H!TagSeen, H!StatusKept
<1>6. H!KnownCached'
  BY <1>1 DEF H!KnownCached
<1> QED  BY <1>3, <1>4, <1>5, <1>6 DEF H!Inv

LEMMA StatusListens ==
    ASSUME H!Inv, NEW c \in Askers,
           \/ H!StartSignal(c) \/ H!LockSignal(c) \/ H!DropSignal(c) \/ H!StoreSignal(c)
    PROVE  H!Inv'
<1>1. /\ H!Types /\ H!Locked /\ H!KnownCached /\ (v2 # H!Providers => H!SpikeLeads)
      /\ UNCHANGED <<v1, v2, v4, v5, v6, v7, v11, v12, v13, v14, v15, v16>>
  BY DEF H!Inv, H!StartSignal, H!LockSignal, H!DropSignal, H!StoreSignal, H!world,
         H!status, H!hooks, H!history
<1>2. /\ v10 \in [Askers -> H!Asks]
      /\ v12' \in [H!Providers -> {"unset", "yes", "no"}]
      /\ v16' \in [H!Providers -> H!Shows]
      /\ v2 # H!Providers => H!SpikeLeads'
  BY <1>1 DEF H!Types, H!SpikeLeads
<1>3. H!Quiet \in H!Asks /\ H!Quiet.pc = "idle"
  <2>1. /\ [p \in H!Providers |-> "unknown"]
             \in [H!Providers -> {"normal", "elevated", "spike", "unknown"}]
        /\ [p \in H!Providers |-> FALSE] \in [H!Providers -> BOOLEAN]
        /\ [p \in H!Providers |-> "absent"] \in [H!Providers -> H!Shows]
    BY DEF H!Shows
  <2> QED  BY <2>1 DEF H!Quiet, H!Asks
<1>4. CASE UNCHANGED <<v9, v10>>
  <2>1. /\ v10' \in [Askers -> H!Asks] /\ \A d \in Askers \ {c} : v10'[d] = v10[d]
        /\ v10'[c].pc \in Asking => v9' = {c}
    BY <1>1, <1>2, <1>4 DEF H!Locked, Asking
  <2>2. v2 # H!Providers /\ v10'[c].pc = "spike" =>
             \A p \in H!Providers : ~v10'[c].major[p] => ~H!Worthy(v10'[c].official[p])
    BY <1>1, <1>4 DEF H!KnownCached
  <2> QED  BY <1>1, <1>2, <1>4, <2>1, <2>2, StatusAsks
<1>5. CASE v10' = [v10 EXCEPT ![c] = H!Quiet]
           /\ (v9' = v9 \/ v9' = v9 \ {c} \/ (v9 = {c} /\ v9' = {}))
  <2>1. /\ v10' \in [Askers -> H!Asks] /\ v10'[c].pc = "idle"
        /\ \A d \in Askers \ {c} : v10'[d] = v10[d]
    BY <1>2, <1>3, <1>5
  <2>2. v10'[c].pc \notin Asking /\ v10'[c].pc # "spike"
    BY <2>1 DEF Asking
  <2> QED  BY <1>1, <1>2, <1>5, <2>1, <2>2, StatusAsks
<1>6. CASE H!StartSignal(c) /\ v10' = [v10 EXCEPT ![c].pc = "wait"]
  <2>1. v10' \in [Askers -> H!Asks] /\ v10'[c].pc = "wait" /\ v9' = v9
    BY <1>2, <1>6 DEF H!Asks, H!StartSignal
  <2>2. \A d \in Askers \ {c} : v10'[d] = v10[d]
    BY <1>2, <1>6
  <2>3. v10'[c].pc \notin Asking /\ v10'[c].pc # "spike"
    BY <2>1 DEF Asking
  <2> QED  BY <1>1, <1>2, <2>1, <2>2, <2>3, StatusAsks
<1>7. CASE H!LockSignal(c) /\ v10' = [v10 EXCEPT ![c].pc = "fetch"] /\ v9' = {c}
  <2>1. v10' \in [Askers -> H!Asks] /\ v10'[c].pc = "fetch" /\ v9 = {}
    BY <1>2, <1>7 DEF H!Asks, H!LockSignal
  <2>2. \A d \in Askers \ {c} : v10'[d] = v10[d]
    BY <1>2, <1>7
  <2>3. v10'[c].pc # "spike"
    BY <2>1
  <2> QED  BY <1>1, <1>2, <1>7, <2>1, <2>2, <2>3, StatusAsks
<1>8. \/ UNCHANGED <<v9, v10>>
      \/ v10' = [v10 EXCEPT ![c] = H!Quiet]
           /\ (v9' = v9 \/ v9' = v9 \ {c} \/ (v9 = {c} /\ v9' = {}))
      \/ H!StartSignal(c) /\ v10' = [v10 EXCEPT ![c].pc = "wait"]
      \/ H!LockSignal(c) /\ v10' = [v10 EXCEPT ![c].pc = "fetch"] /\ v9' = {c}
  BY <1>1 DEF H!StartSignal, H!LockSignal, H!DropSignal, H!StoreSignal, H!AskEnded,
              H!AskAt, H!Locked
<1> QED  BY <1>4, <1>5, <1>6, <1>7, <1>8

LEMMA StatusHears ==
    ASSUME H!Inv, NEW c \in Askers,
           H!FetchSignal(c) \/ H!ReadOfficial(c) \/ H!NotifySpike(c)
    PROVE  H!Inv'
<1>1. /\ H!Types /\ H!Locked /\ H!KnownCached /\ (v2 # H!Providers => H!SpikeLeads)
      /\ UNCHANGED <<v1, v2, v4, v5, v6, v7, v9, v11, v13, v14, v15>>
  BY DEF H!Inv, H!FetchSignal, H!ReadOfficial, H!NotifySpike, H!world,
         H!status, H!hooks, H!history
<1>2. v10 \in [Askers -> H!Asks] /\ v10[c] \in H!Asks /\ v9 = {c}
  BY <1>1 DEF H!Types, H!FetchSignal, H!ReadOfficial, H!NotifySpike, H!AskAt, H!Locked
<1>3. CASE H!FetchSignal(c) \/ H!ReadOfficial(c)
  <2>1. /\ v12' \in [H!Providers -> {"unset", "yes", "no"}]
        /\ v16' \in [H!Providers -> H!Shows]
        /\ v2 # H!Providers => H!SpikeLeads'
    BY <1>1, <1>3 DEF H!Types, H!SpikeLeads, H!FetchSignal, H!ReadOfficial, H!hooks,
                      H!history
  <2>2. CASE H!FetchSignal(c)
    <3>1. PICK level \in [H!Providers -> SignalLevels] :
              v10' = [v10 EXCEPT ![c].pc = "official", ![c].level = level]
      BY <2>2, StatusSignals DEF H!FetchSignal
    <3>2. PICK f : f = [v10 EXCEPT ![c].pc = "official"]
      OBVIOUS
    <3>3. f \in [Askers -> H!Asks] /\ f[c].pc = "official"
      BY <1>2, <3>2 DEF H!Asks
    <3>4. v10' = [f EXCEPT ![c].level = level]
      BY <1>2, <3>1, <3>2
    <3>5. v10' \in [Askers -> H!Asks] /\ v10'[c].pc = "official"
      BY <3>3, <3>4 DEF H!Asks, SignalLevels
    <3>6. \A d \in Askers \ {c} : v10'[d] = v10[d]
      BY <1>2, <3>2, <3>4
    <3>7. v10'[c].pc # "spike"
      BY <3>5
    <3> QED  BY <1>1, <1>2, <2>1, <3>5, <3>6, <3>7, StatusAsks
  <2>3. CASE H!ReadOfficial(c)
    <3>1. PICK m \in [H!Providers -> BOOLEAN] :
            /\ \A p \in H!Providers :
                 ~m[p] => ~H!Worthy(IF p = "claude" THEN v5.claude ELSE v5.openai)
            /\ v10' = [v10 EXCEPT ![c].pc = "spike", ![c].official = v13, ![c].major = m]
      <4> DEFINE w == [p \in H!Providers |->
                         H!Worthy(IF p = "claude" THEN v5.claude ELSE v5.openai)]
      <4>1. w \in [H!Providers -> BOOLEAN]
        BY DEF H!Worthy
      <4>2. v10' = [v10 EXCEPT ![c].pc = "spike", ![c].official = v13, ![c].major = w]
        BY <2>3 DEF H!ReadOfficial
      <4> QED  BY <4>1, <4>2
    <3>2. PICK f : f = [v10 EXCEPT ![c].pc = "spike"]
      OBVIOUS
    <3>3. f \in [Askers -> H!Asks] /\ f[c].pc = "spike"
      BY <1>2, <3>2 DEF H!Asks
    <3>4. PICK g : g = [f EXCEPT ![c].official = v13]
      OBVIOUS
    <3>5. g \in [Askers -> H!Asks] /\ g[c].pc = "spike" /\ g[c].official = v13
      <4>1. v13 \in [H!Providers -> H!Shows]
        BY <1>1 DEF H!Types
      <4>2. PICK r : r = [f[c] EXCEPT !.official = v13]
        OBVIOUS
      <4>3. r \in H!Asks /\ r.pc = "spike" /\ r.official = v13
        BY <3>3, <4>1, <4>2 DEF H!Asks
      <4>4. g = [f EXCEPT ![c] = r]
        BY <3>3, <3>4, <4>2
      <4> QED  BY <3>3, <4>3, <4>4
    <3>6. v10' = [g EXCEPT ![c].major = m]
      BY <1>2, <3>1, <3>2, <3>4
    <3>7. /\ v10' \in [Askers -> H!Asks] /\ v10'[c].pc = "spike"
          /\ v10'[c].official = v13 /\ v10'[c].major = m
      <4>1. PICK r : r = [g[c] EXCEPT !.major = m]
        OBVIOUS
      <4>2. r \in H!Asks /\ r.pc = "spike" /\ r.official = v13 /\ r.major = m
        BY <3>1, <3>5, <4>1 DEF H!Asks
      <4>3. v10' = [g EXCEPT ![c] = r]
        BY <3>5, <3>6, <4>1
      <4> QED  BY <3>5, <4>2, <4>3
    <3>8. \A d \in Askers \ {c} : v10'[d] = v10[d]
      BY <1>2, <3>2, <3>4, <3>6
    <3>9. v2 # H!Providers =>
             \A p \in H!Providers : ~v10'[c].major[p] => ~H!Worthy(v10'[c].official[p])
      BY <1>1, <3>1, <3>7 DEF H!KnownCached, H!Providers
    <3> QED  BY <1>1, <1>2, <2>1, <3>7, <3>8, <3>9, StatusAsks
  <2> QED  BY <1>3, <2>2, <2>3
<1>4. CASE H!NotifySpike(c)
  <2> DEFINE leads(p) == IF v10[c].level[p] = "spike" /\ ~v10[c].major[p]
                         THEN "yes" ELSE "no"
  <2>1. /\ v10[c].pc = "spike" /\ v10' = [v10 EXCEPT ![c].pc = "store"]
        /\ v12' = [p \in H!Providers |-> leads(p)]
        /\ v16' = [p \in H!Providers |->
                     IF leads(p) = "yes" /\ v12[p] = "no" THEN v10[c].official[p]
                     ELSE v16[p]]
    BY <1>4 DEF H!NotifySpike, H!AskAt
  <2>2. v10' \in [Askers -> H!Asks] /\ v10'[c].pc = "store"
    BY <1>2, <2>1 DEF H!Asks
  <2>3. \A d \in Askers \ {c} : v10'[d] = v10[d]
    BY <1>2, <2>1
  <2>4. v12' \in [H!Providers -> {"unset", "yes", "no"}]
    BY <2>1
  <2>5. \A p \in H!Providers : v10[c].official[p] \in H!Shows /\ v16[p] \in H!Shows
    BY <1>1, <1>2 DEF H!Asks, H!Types
  <2>6. v16' \in [H!Providers -> H!Shows]
    BY <2>1, <2>5
  <2>7. ASSUME v2 # H!Providers PROVE H!SpikeLeads'
    <3>1. ASSUME NEW p \in H!Providers PROVE ~H!Worthy(v16'[p])
      <4>1. ~v10[c].major[p] => ~H!Worthy(v10[c].official[p])
        BY <1>1, <2>1, <2>7 DEF H!KnownCached
      <4>2. ~H!Worthy(v16[p])
        BY <1>1, <2>7 DEF H!SpikeLeads
      <4> QED  BY <2>1, <4>1, <4>2
    <3> QED  BY <3>1 DEF H!SpikeLeads
  <2>8. v10'[c].pc # "spike"
    BY <2>2
  <2> QED  BY <1>1, <1>2, <2>2, <2>3, <2>4, <2>6, <2>7, <2>8, StatusAsks
<1> QED  BY <1>3, <1>4

LEMMA StatusStep == H!Inv /\ [H!Next]_(H!vars) => H!Inv'
<1>1. H!Inv /\ H!Next => H!Inv'
  BY StatusWorld, StatusWaits, StatusFetches, StatusNotifies, StatusStores,
     StatusListens, StatusHears DEF H!Next
<1>2. ASSUME H!Inv, UNCHANGED H!vars PROVE H!Inv'
  <2>1. UNCHANGED <<v1, v2, v4, v5, v6, v7, v9, v10, v11, v12, v13, v14, v15, v16>>
    BY <1>2 DEF H!vars, H!world, H!status, H!crowd, H!hooks, H!history
  <2>2. v6 \in SUBSET Pollers /\ v7 \in [Pollers -> H!Polls] /\ H!Locked /\ H!Fetched
    BY <1>2 DEF H!Inv, H!Types
  <2>3. H!Locked' /\ H!Fetched'
    BY <2>1, <2>2 DEF H!Locked, H!Fetched
  <2> QED  BY <1>2, <2>1, <2>2, <2>3, StatusMoves
<1> QED  BY <1>1, <1>2

-----------------------------------------------------------------------------
(* The quota history: smoothing *)

\* A sum of rows whose caps lie between two bounds; a row in it outweighs a sixth of
\* what a confidence can be.
Between(lo, hi) ==
    {s \in [num : Nat, den : Nat, unit : Nat \ {0}] :
        /\ lo * s.den <= s.num /\ s.num <= hi * s.den
        /\ s.den = 0 \/ 12 * s.unit <= 5 * s.den}

LEMMA WeighedBetween ==
    ASSUME NEW lo \in Nat, NEW hi \in Nat, NEW s \in Between(lo, hi), NEW row,
           row.cap \in lo .. hi, row.confidence \in 48 .. 300
    PROVE  Q!Weigh(s, row) \in Between(lo, hi) /\ Q!Weigh(s, row).den # 0
<1> DEFINE w == s.unit * row.confidence
           t == Q!Weigh(s, row)
<1>1. s.num \in Nat /\ s.den \in Nat /\ s.unit \in Nat \ {0}
      /\ lo * s.den <= s.num /\ s.num <= hi * s.den
  BY DEF Between
<1>2. w \in Nat \ {0} /\ 48 * s.unit <= w
  <2>1. row.confidence \in Nat /\ 48 <= row.confidence
    OBVIOUS
  <2>2. 48 * s.unit <= row.confidence * s.unit
    BY <1>1, <2>1, Products
  <2>3. row.confidence * s.unit = s.unit * row.confidence /\ s.unit * row.confidence \in Nat
    BY <1>1, <2>1
  <2> QED  BY <1>1, <2>2, <2>3
<1>3. /\ t.num = 17 * s.num + w * row.cap /\ t.den = 17 * s.den + w /\ t.unit = 20 * s.unit
      /\ t = [num |-> t.num, den |-> t.den, unit |-> t.unit]
  BY DEF Q!Weigh
<1> HIDE DEF w, t
<1>4. row.cap \in Nat /\ lo <= row.cap /\ row.cap <= hi
  OBVIOUS
<1>5. lo * w <= w * row.cap /\ w * row.cap <= hi * w /\ w * row.cap \in Nat
  <2>1. lo * w <= row.cap * w /\ row.cap * w <= hi * w /\ row.cap * w \in Nat
    BY <1>2, <1>4, Products
  <2>2. row.cap * w = w * row.cap
    BY <1>2, <1>4
  <2> QED  BY <2>1, <2>2
<1>6. t \in [num : Nat, den : Nat, unit : Nat \ {0}]
  <2>1. t.num \in Nat /\ t.den \in Nat /\ t.unit \in Nat \ {0}
    BY <1>1, <1>2, <1>3, <1>5
  <2> QED  BY <1>3, <2>1
<1>7. lo * t.den <= t.num /\ t.num <= hi * t.den
  <2>1. /\ lo * (17 * s.den + w) = 17 * (lo * s.den) + lo * w
        /\ hi * (17 * s.den + w) = 17 * (hi * s.den) + hi * w
    BY <1>1, <1>2
  <2>2. lo * s.den \in Nat /\ hi * s.den \in Nat /\ lo * w \in Nat /\ hi * w \in Nat
    BY <1>1, <1>2
  <2> QED  BY <1>1, <1>3, <1>5, <2>1, <2>2
<1>8. 12 * t.unit <= 5 * t.den /\ t.den # 0
  BY <1>1, <1>2, <1>3
<1> QED  BY <1>6, <1>7, <1>8 DEF Between, t

\* Whichever rows are weighed, their sum lies between the bounds of their caps.
LEMMA EmaBetween ==
    ASSUME NEW lo \in Nat, NEW hi \in Nat, NEW rows, Len(v3) \in Nat,
           \A i \in rows : v3[i].cap \in lo .. hi /\ v3[i].confidence \in 48 .. 300
    PROVE  Q!Ema(rows) \in Between(lo, hi)
<1> DEFINE n == Len(v3)
           base == [num |-> 0, den |-> 0, unit |-> 1]
           Follows(f) == f = [i \in 0 .. n |->
               IF i = 0 THEN base
               ELSE IF i \in rows THEN Q!Weigh(f[i - 1], v3[i]) ELSE f[i - 1]]
           step == [x \in Between(lo, hi) \X (1 .. n) |->
               IF x[2] \in rows THEN Q!Weigh(x[1], v3[x[2]]) ELSE x[1]]
<1>1. base \in Between(lo, hi)
  BY DEF Between
<1>2. \A p \in Between(lo, hi) : \A k \in 1 .. n :
        step[<<p, k>>] = IF k \in rows THEN Q!Weigh(p, v3[k]) ELSE p
  OBVIOUS
<1>3. \A p \in Between(lo, hi) : \A k \in 1 .. n :
        (IF k \in rows THEN Q!Weigh(p, v3[k]) ELSE p) \in Between(lo, hi)
  BY WeighedBetween
<1>4. \A p \in Between(lo, hi) : \A k \in 1 .. n : step[<<p, k>>] \in Between(lo, hi)
  BY <1>2, <1>3
<1>5. n \in Nat
  OBVIOUS
<1> HIDE DEF base, step, n
<1>a. PICK g : Iterates(g, n, Between(lo, hi), base, step)
  BY <1>1, <1>4, <1>5, Iteration
<1>6. /\ g \in [0 .. n -> Between(lo, hi)] /\ g[0] = base
      /\ \A k \in 1 .. n : g[k] = step[<<g[k - 1], k>>]
  BY <1>a DEF Iterates
<1>7. \A k \in 1 .. n : g[k] = IF k \in rows THEN Q!Weigh(g[k - 1], v3[k]) ELSE g[k - 1]
  <2>1. \A k \in 1 .. n : k - 1 \in 0 .. n
    BY <1>5
  <2>2. \A k \in 1 .. n : g[k - 1] \in Between(lo, hi)
    BY <1>6, <2>1
  <2> QED  BY <1>2, <1>6, <2>2
<1>8. Follows(g)
  BY <1>5, <1>6, <1>7
<1> DEFINE f == CHOOSE f : Follows(f)
<1>9. Follows(f)
  BY <1>8
<1>10. Q!Ema(rows) = f[n]
  BY DEF Q!Ema, base, n
<1> HIDE DEF f
<1>11. f[0] = base
  BY <1>5, <1>9
<1>12. ASSUME NEW k \in 1 .. n, f[k - 1] \in Between(lo, hi) PROVE f[k] \in Between(lo, hi)
  <2>1. f[k] = IF k \in rows THEN Q!Weigh(f[k - 1], v3[k]) ELSE f[k - 1]
    BY <1>5, <1>9
  <2> QED  BY <1>3, <1>12, <2>1
<1>13. f[0] \in Between(lo, hi)
  BY <1>1, <1>11
<1>b. PICK h : h = f
  OBVIOUS
<1>14. f[n] \in Between(lo, hi)
  <2> DEFINE Y == Between(lo, hi)
  <2>1. h[0] \in Y /\ \A k \in 1 .. n : h[k - 1] \in Y => h[k] \in Y
    BY <1>12, <1>13, <1>b
  <2> HIDE DEF Y
  <2>2. h[n] \in Y
    BY <1>5, <2>1, KeptByIteration
  <2> QED  BY <1>b, <2>2 DEF Y
<1> QED  BY <1>10, <1>14

\* A shift is told from a fifth on, and the new cap weighs no more than its
\* confidence: rounding does not turn the smoothed cap to the other side of it, when
\* the cap is of 26 tokens or more.
LEMMA ShiftTrails ==
    ASSUME NEW lo \in Nat, NEW hi \in Nat, NEW past \in Between(lo, hi),
           NEW now, now.cap \in Nat, 26 <= now.cap, now.confidence \in 48 .. 300,
           NEW shown, LET all == Q!Weigh(past, now) IN
                      shown = (2 * all.num + all.den) \div (2 * all.den)
    PROVE  /\ 5 * now.cap * past.den > 6 * past.num => shown < now.cap
           /\ 5 * now.cap * past.den < 4 * past.num => shown > now.cap
<1> DEFINE c == now.cap
           w == past.unit * now.confidence
           p == c * past.den
           num == 17 * past.num + w * c
           den == 17 * past.den + w
<1>1. /\ past.num \in Nat /\ past.den \in Nat /\ past.unit \in Nat \ {0}
      /\ lo * past.den <= past.num /\ past.num <= hi * past.den
      /\ past.den = 0 \/ 12 * past.unit <= 5 * past.den
  BY DEF Between
<1>2. c \in Nat /\ p \in Nat /\ 26 * past.den <= p
  <2>1. c \in Nat /\ 26 <= c
    OBVIOUS
  <2> HIDE DEF c
  <2> QED  BY <1>1, <2>1, Products
<1>3. w \in Nat \ {0} /\ w <= 300 * past.unit
  <2>1. now.confidence \in Nat \ {0} /\ now.confidence <= 300
    OBVIOUS
  <2>2. now.confidence * past.unit <= 300 * past.unit
    BY <1>1, <2>1, Products
  <2>3. now.confidence * past.unit = past.unit * now.confidence
        /\ now.confidence * past.unit \in Nat \ {0}
    BY <1>1, <2>1
  <2> QED  BY <2>2, <2>3
<1>4. 5 * c * past.den = 5 * p
  <2> HIDE DEF c
  <2> QED  BY <1>1, <1>2 DEF p
<1>5. shown = (2 * num + den) \div (2 * den)
  BY DEF Q!Weigh
<1> HIDE DEF c, w
<1>6. w * c \in Nat /\ num \in Nat /\ den \in Nat \ {0}
  <2>1. w * c \in Nat
    BY <1>2, <1>3
  <2> DEFINE x == w * c
  <2>2. x \in Nat
    BY <2>1
  <2> HIDE DEF x
  <2>3. 17 * past.num + x \in Nat /\ 17 * past.den + w \in Nat \ {0}
    <3>1. past.num \in Nat /\ past.den \in Nat /\ w \in Nat \ {0}
      BY <1>1, <1>3
    <3> QED  BY <2>2, <3>1
  <2> QED  BY <2>1, <2>3 DEF x
<1>7. c * (2 * den) = 34 * p + 2 * (w * c) /\ 2 * num + den \in Nat /\ 2 * den \in Nat \ {0}
  <2>1. c * (2 * (17 * past.den + w)) = 34 * (c * past.den) + 2 * (c * w) /\ c * w = w * c
    BY <1>1, <1>2, <1>3
  <2> QED  BY <1>6, <2>1
<1>8. shown \in Nat /\ shown * (2 * den) <= 2 * num + den /\ 2 * num + den < (shown + 1) * (2 * den)
  <2> HIDE DEF num, den
  <2> QED  BY <1>5, <1>7, Division
<1>9. (c + 1) * (2 * den) = c * (2 * den) + 2 * den
  BY <1>2, <1>6
<1>10. past.den = 0 => p = 0 /\ past.num = 0
  BY <1>1, <1>2
<1> HIDE DEF p
<1>11. ASSUME 5 * p > 6 * past.num PROVE shown < c
  <2>1. 12 * past.unit <= 5 * past.den
    BY <1>1, <1>2, <1>10, <1>11
  <2>2. w <= 125 * past.den
    BY <1>1, <1>3, <2>1
  <2>3. 2 * num + den < c * (2 * den)
    BY <1>1, <1>2, <1>3, <1>6, <1>7, <1>11, <2>2
  <2> HIDE DEF num, den
  <2>4. shown * (2 * den) < c * (2 * den)
    <3>1. shown * (2 * den) \in Nat
      BY <1>7, <1>8
    <3>2. c * (2 * den) \in Nat
      BY <1>2, <1>7
    <3> QED  BY <1>7, <1>8, <2>3, <3>1, <3>2
  <2> QED  BY <1>2, <1>7, <1>8, <2>4, Products
<1>12. ASSUME 5 * p < 4 * past.num PROVE shown > c
  <2>1. 12 * past.unit <= 5 * past.den
    BY <1>1, <1>2, <1>10, <1>12
  <2>2. w <= 125 * past.den
    BY <1>1, <1>3, <2>1
  <2>3. (c + 1) * (2 * den) <= 2 * num + den
    BY <1>1, <1>2, <1>3, <1>6, <1>7, <1>9, <1>12, <2>2
  <2> HIDE DEF num, den
  <2>4. (c + 1) * (2 * den) < (shown + 1) * (2 * den)
    <3>1. (c + 1) * (2 * den) \in Nat /\ (shown + 1) * (2 * den) \in Nat
      BY <1>2, <1>7, <1>8
    <3> QED  BY <1>7, <1>8, <2>3, <3>1
  <2>5. c + 1 < shown + 1
    BY <1>2, <1>7, <1>8, <2>4, Products
  <2> QED  BY <1>2, <1>8, <2>5
<1> QED  BY <1>4, <1>11, <1>12 DEF c

-----------------------------------------------------------------------------
(* The quota history: what is recorded *)

LEMMA QuotaFacts ==
    /\ TurnTokens \in Nat \ {0} /\ MaxTurns \in Nat /\ QuotaClock \in Nat /\ None \notin Nat
    /\ {"five_hour", "seven_day", "seven_day_opus", "seven_day_sonnet",
        "codex_primary", "codex_secondary"} \subseteq Q!Windows
BY Instances DEF Q!QuotaAssumption

LEMMA QuotaSizes == \A Y : Q!Cardinality(Y) = Cardinality(Y)
BY Zenon DEF Cardinality, Q!Cardinality, IsFiniteSet, Q!IsFiniteSet

LEMMA OneSpec ==
    ASSUME NEW provider \in {"claude", "codex"}, NEW window \in Q!Windows,
           NEW reading \in Q!Readings \cup {None}, NEW pattern \in {"any", "opus", "sonnet"}
    PROVE  Q!Spec1(provider, window, reading, pattern) \in Seq(Q!WindowSpec)
<1>1. CASE reading = None
  BY <1>1, EmptySeq DEF Q!Spec1
<1>2. CASE reading # None
  <2>1. reading \in Q!Readings
    BY <1>2
  <2>2. [provider |-> provider, window |-> window, used |-> reading.used,
         resets |-> reading.resets, pattern |-> pattern] \in Q!WindowSpec
    BY <2>1 DEF Q!Readings, Q!WindowSpec
  <2> QED  BY <1>2, <2>2 DEF Q!Spec1
<1> QED  BY <1>1, <1>2

LEMMA SpecsTyped ==
    ASSUME NEW said \in Says
    PROVE  Q!Specs(said) \in Seq(Q!WindowSpec)
<1> DEFINE claude ==
               IF said.claude = None THEN <<>>
               ELSE Q!Spec1("claude", "five_hour", said.claude.primary, "any")
                    \o Q!Spec1("claude", "seven_day", said.claude.secondary, "any")
                    \o Q!Spec1("claude", "seven_day_opus", said.claude.tertiary, "opus")
                    \o Q!Spec1("claude", "seven_day_sonnet", said.claude.tertiary, "sonnet")
           codex ==
               IF said.codex = None THEN <<>>
               ELSE Q!Spec1("codex", "codex_primary", said.codex.primary, "any")
                    \o Q!Spec1("codex", "codex_secondary", said.codex.secondary, "any")
<1>1. claude \in Seq(Q!WindowSpec)
  <2>1. CASE said.claude = None
    BY <2>1, EmptySeq
  <2>2. CASE said.claude # None
    <3>1. {said.claude.primary, said.claude.secondary, said.claude.tertiary}
            \subseteq Q!Readings \cup {None}
      BY <2>2, Instances DEF Q!QuotaAssumption
    <3>2. /\ Q!Spec1("claude", "five_hour", said.claude.primary, "any") \in Seq(Q!WindowSpec)
          /\ Q!Spec1("claude", "seven_day", said.claude.secondary, "any") \in Seq(Q!WindowSpec)
          /\ Q!Spec1("claude", "seven_day_opus", said.claude.tertiary, "opus") \in Seq(Q!WindowSpec)
          /\ Q!Spec1("claude", "seven_day_sonnet", said.claude.tertiary, "sonnet")
               \in Seq(Q!WindowSpec)
      BY <3>1, OneSpec, QuotaFacts
    <3> QED  BY <2>2, <3>2, ConcatProperties
  <2> QED  BY <2>1, <2>2
<1>2. codex \in Seq(Q!WindowSpec)
  <2>1. CASE said.codex = None
    BY <2>1, EmptySeq
  <2>2. CASE said.codex # None
    <3>1. {said.codex.primary, said.codex.secondary} \subseteq Q!Readings \cup {None}
      BY <2>2, Instances DEF Q!QuotaAssumption
    <3>2. /\ Q!Spec1("codex", "codex_primary", said.codex.primary, "any") \in Seq(Q!WindowSpec)
          /\ Q!Spec1("codex", "codex_secondary", said.codex.secondary, "any") \in Seq(Q!WindowSpec)
      BY <3>1, OneSpec, QuotaFacts
    <3> QED  BY <2>2, <3>2, ConcatProperties
  <2> QED  BY <2>1, <2>2
<1>3. Q!Specs(said) = claude \o codex
  BY DEF Q!Specs
<1> HIDE DEF claude, codex
<1> QED  BY <1>1, <1>2, <1>3, ConcatProperties

\* What the turns of a window come to: nothing, or at least one turn and at most all.
LEMMA ObservedBounds ==
    ASSUME Q!Types, NEW spec
    PROVE  /\ Q!Observed(spec) \in Nat /\ Q!Observed(spec) <= TurnTokens * MaxTurns
           /\ Q!Observed(spec) = 0 \/ TurnTokens <= Q!Observed(spec)
<1> DEFINE ends == IF spec.resets = None THEN v1 + 1 ELSE spec.resets
           from == IF spec.resets = None THEN v1 ELSE spec.resets
           own == {i \in DOMAIN v2 :
                     /\ v2[i].provider = spec.provider /\ spec.pattern \in {"any", v2[i].model}
                     /\ v2[i].at + Length[spec.window] >= from /\ v2[i].at < ends}
<1>1. Len(v2) \in Nat /\ Len(v2) <= MaxTurns /\ DOMAIN v2 = 1 .. Len(v2)
  BY LenProperties DEF Q!Types
<1>2. own \subseteq 1 .. Len(v2)
  BY <1>1
<1>3. Q!Observed(spec) = TurnTokens * Cardinality(own)
  BY QuotaSizes DEF Q!Observed
<1> HIDE DEF own
<1>4. Cardinality(own) \in Nat /\ Cardinality(own) <= MaxTurns
  <2>1. IsFiniteSet(1 .. Len(v2)) /\ Cardinality(1 .. Len(v2)) = Len(v2)
    <3> DEFINE n == Len(v2)
    <3>1. n \in Nat
      BY <1>1
    <3> HIDE DEF n
    <3>2. IsFiniteSet(1 .. n) /\ Cardinality(1 .. n) = IF 1 > n THEN 0 ELSE n - 1 + 1
      BY <3>1, FS_Interval
    <3>3. Cardinality(1 .. n) = n
      BY <3>1, <3>2
    <3> QED  BY <3>2, <3>3 DEF n
  <2>2. Cardinality(own) \in Nat /\ Cardinality(own) <= Len(v2)
    BY <1>2, <2>1, FS_Subset, FS_CardinalityType
  <2> QED  BY <1>1, <2>2, QuotaFacts
<1> DEFINE k == Cardinality(own)
<1>5. k \in Nat /\ k <= MaxTurns /\ Q!Observed(spec) = TurnTokens * k
  BY <1>3, <1>4
<1> HIDE DEF k
<1>6. TurnTokens * k \in Nat /\ TurnTokens * k <= TurnTokens * MaxTurns
  <2>1. k * TurnTokens \in Nat /\ k * TurnTokens <= MaxTurns * TurnTokens
    BY <1>5, QuotaFacts, Products
  <2>2. k * TurnTokens = TurnTokens * k /\ MaxTurns * TurnTokens = TurnTokens * MaxTurns
    BY <1>5, QuotaFacts
  <2> QED  BY <2>1, <2>2
<1>7. k = 0 => TurnTokens * k = 0
  BY QuotaFacts
<1>8. 1 <= k => TurnTokens <= TurnTokens * k
  <2>1. 1 <= k => 1 * TurnTokens <= k * TurnTokens
    BY <1>5, QuotaFacts, Products
  <2>2. k * TurnTokens = TurnTokens * k /\ 1 * TurnTokens = TurnTokens
    BY <1>5, QuotaFacts
  <2> QED  BY <2>1, <2>2
<1> QED  BY <1>5, <1>6, <1>7, <1>8

\* A cap that is derived is sound.
LEMMA EstimateSound ==
    ASSUME NEW used \in Nat, NEW o \in Nat, o <= TurnTokens * MaxTurns, o = 0 \/ TurnTokens <= o
    PROVE  \/ Q!Estimate(used, o) = None
           \/ /\ Q!Estimate(used, o) =
                   [cap |-> Q!Estimate(used, o).cap, confidence |-> Q!Estimate(used, o).confidence]
              /\ Q!SoundCap(Q!Estimate(used, o).cap, Q!Estimate(used, o).confidence)
<1> SUFFICES ASSUME ~(used < 10 \/ o = 0)
             PROVE  /\ Q!Estimate(used, o) = [cap |-> Q!Estimate(used, o).cap,
                                              confidence |-> Q!Estimate(used, o).confidence]
                    /\ Q!SoundCap(Q!Estimate(used, o).cap, Q!Estimate(used, o).confidence)
  BY DEF Q!Estimate
<1> DEFINE portion == IF used > 200 THEN 200 ELSE used
           cap == (400 * o + portion) \div (2 * portion)
           confidence == IF portion >= 199 THEN 150 ELSE Q!Max({48, Q!Min({300, 5 * portion})})
<1>1. Q!Estimate(used, o) = [cap |-> cap, confidence |-> confidence]
  BY DEF Q!Estimate
<1>2. portion \in 10 .. 200
  OBVIOUS
<1> HIDE DEF portion
<1>3. confidence \in 48 .. 300
  <2>1. \A a, b \in Nat : Q!Min({a, b}) \in {a, b} /\ Q!Min({a, b}) <= a /\ Q!Min({a, b}) <= b
    <3> SUFFICES ASSUME NEW a \in Nat, NEW b \in Nat
                 PROVE  Q!Min({a, b}) \in {a, b} /\ Q!Min({a, b}) <= a /\ Q!Min({a, b}) <= b
      OBVIOUS
    <3>1. {a, b} \subseteq Nat /\ {a, b} # {}
      OBVIOUS
    <3>2. Q!Min({a, b}) \in {a, b} /\ \A n \in {a, b} : Q!Min({a, b}) <= n
      BY <3>1, QuotaMin
    <3> QED  BY <3>2
  <2> DEFINE n == 5 * portion
             low == Q!Min({300, n})
  <2>2. n \in Nat /\ 50 <= n
    BY <1>2
  <2>3. low \in 50 .. 300
    <3> HIDE DEF n
    <3>1. low \in {300, n} /\ low <= 300
      BY <2>1, <2>2
    <3> HIDE DEF low
    <3> QED  BY <2>2, <3>1
  <2> HIDE DEF low
  <2>4. Q!Max({48, low}) \in {48, low}
    <3>1. {48, low} \subseteq Nat /\ {48, low} # {} /\ \A m \in {48, low} : m <= 300
      BY <2>3
    <3> QED  BY <3>1, QuotaMax
  <2> QED  BY <2>3, <2>4 DEF low
<1>4. cap \in TurnTokens .. 400 * (TurnTokens * MaxTurns) + 200
  <2> DEFINE x == 400 * o + portion
             y == 2 * portion
  <2>1. x \in Nat /\ y \in Nat \ {0} /\ y <= 400 /\ x <= 400 * (TurnTokens * MaxTurns) + 200
        /\ TurnTokens * MaxTurns \in Nat
    BY <1>2, QuotaFacts
  <2>2. cap \in Nat /\ cap * y <= x /\ x < (cap + 1) * y
    <3> HIDE DEF x, y
    <3>1. x \div y \in Nat /\ (x \div y) * y <= x /\ x < (x \div y + 1) * y
      BY <2>1, Division
    <3> QED  BY <3>1 DEF x, y
  <2> HIDE DEF cap
  <2>3. o * y <= 400 * o
    <3>1. y * o <= 400 * o
      BY <2>1, Products
    <3>2. y * o = o * y
      BY <2>1
    <3> QED  BY <3>1, <3>2
  <2>4. o * y < (cap + 1) * y
    <3>1. o * y \in Nat /\ (cap + 1) * y \in Nat
      BY <2>1, <2>2
    <3> QED  BY <1>2, <2>1, <2>2, <2>3, <3>1
  <2>5. o < cap + 1
    <3> HIDE DEF y
    <3> QED  BY <2>1, <2>2, <2>4, Products
  <2>6. cap <= x
    <3>1. 1 * cap <= y * cap
      <4> HIDE DEF y
      <4> QED  BY <2>1, <2>2, Products
    <3>2. y * cap = cap * y
      BY <2>1, <2>2
    <3> QED  BY <2>1, <2>2, <3>1, <3>2
  <2> QED  BY <2>1, <2>2, <2>5, <2>6, QuotaFacts
<1> HIDE DEF cap, confidence
<1> QED  BY <1>1, <1>3, <1>4 DEF Q!SoundCap

LEMMA EstimateNow ==
    ASSUME Q!Types, NEW spec \in Q!WindowSpec
    PROVE  LET now == Q!Estimate(spec.used, Q!Observed(spec)) IN
           \/ now = None
           \/ /\ now = [cap |-> now.cap, confidence |-> now.confidence]
              /\ Q!SoundCap(now.cap, now.confidence)
<1>1. spec.used \in Nat
  BY DEF Q!WindowSpec
<1> QED  BY <1>1, ObservedBounds, EstimateSound

LEMMA SoundRows ==
    ASSUME NEW at \in Nat, NEW spec \in Q!WindowSpec \cup Q!FileEntry,
           NEW source \in LimitFiles \cup {"oauth"}, NEW estimate,
           \/ estimate = None
           \/ Q!SoundCap(estimate.cap, estimate.confidence)
    PROVE  LET row == Q!Row(at, spec.window, spec.used, spec.resets, source, estimate) IN
           /\ row \in Q!Rows /\ Q!SoundRow(row)
           /\ row.window = spec.window /\ row.used = spec.used /\ row.at = at
<1> DEFINE row == Q!Row(at, spec.window, spec.used, spec.resets, source, estimate)
           cap == IF estimate = None THEN None ELSE estimate.cap
           confidence == IF estimate = None THEN None ELSE estimate.confidence
<1>1. row = [at |-> at, window |-> spec.window, used |-> spec.used, resets |-> spec.resets,
             source |-> source, cap |-> cap, confidence |-> confidence]
  BY DEF Q!Row
<1>2. spec.window \in Q!Windows /\ spec.used \in Nat /\ spec.resets \in Nat \cup {None}
  BY DEF Q!WindowSpec, Q!FileEntry
<1>3. (cap = None /\ confidence = None) \/ Q!SoundCap(cap, confidence)
  OBVIOUS
<1> HIDE DEF cap, confidence
<1>4. cap \in Nat \cup {None} /\ confidence \in Nat \cup {None}
  BY <1>3, QuotaFacts DEF Q!SoundCap
<1> HIDE DEF row
<1>5. row \in Q!Rows
  BY <1>1, <1>2, <1>4 DEF Q!Rows
<1>6. Q!SoundRow(row)
  BY <1>1, <1>3 DEF Q!SoundRow
<1> QED  BY <1>1, <1>5, <1>6 DEF row

LEMMA QuotaInit == Q!Init => Q!Inv
<1> SUFFICES ASSUME Q!Init PROVE Q!Inv
  OBVIOUS
<1>1. Q!Types
  BY QuotaFacts, EmptySeq DEF Q!Init, Q!Types
<1> QED  BY <1>1 DEF Q!Init, Q!Inv, Q!Prepared, Q!HistoryTracks

\* The table only grows: what was noted stays covered, and a row that is added is
\* as sound as the others.
LEMMA HistoryGrows ==
    ASSUME Q!Inv, NEW row \in Q!Rows, Q!SoundRow(row), v3' = Append(v3, row)
    PROVE  /\ v3' \in Seq(Q!Rows) /\ \A i \in DOMAIN v3' : Q!SoundRow(v3'[i])
           /\ Len(v3) + 1 \in DOMAIN v3' /\ v3'[Len(v3) + 1] = row
           /\ \A i \in DOMAIN v3 : i \in DOMAIN v3' /\ v3'[i] = v3[i]
<1>1. v3 \in Seq(Q!Rows) /\ \A i \in DOMAIN v3 : Q!SoundRow(v3[i])
  BY DEF Q!Inv, Q!Types
<1>2. /\ v3' \in Seq(Q!Rows) /\ Len(v3') = Len(v3) + 1 /\ v3'[Len(v3) + 1] = row
      /\ \A i \in 1 .. Len(v3) : v3'[i] = v3[i]
  BY <1>1, AppendProperties
<1>3. Len(v3) \in Nat /\ DOMAIN v3 = 1 .. Len(v3) /\ DOMAIN v3' = 1 .. Len(v3')
  BY <1>1, <1>2, LenProperties
<1>4. \A i \in DOMAIN v3' : i \in DOMAIN v3 \/ i = Len(v3) + 1
  BY <1>2, <1>3
<1>5. Len(v3) + 1 \in DOMAIN v3' /\ \A i \in DOMAIN v3 : i \in DOMAIN v3'
  BY <1>2, <1>3
<1> QED  BY <1>1, <1>2, <1>3, <1>4, <1>5

LEMMA HistoryKept ==
    ASSUME Q!Inv, \A i \in DOMAIN v3 : i \in DOMAIN v3' /\ v3'[i] = v3[i]
    PROVE  \A n \in v7 : \E i \in DOMAIN v3' :
               /\ v3'[i].window = n.window /\ Q!AbsDiff(v3'[i].used, n.used) <= 1
               /\ v3'[i].at + 1 >= n.at
BY DEF Q!Inv, Q!HistoryTracks

\* A task goes on to its next window.
LEMMA TaskGoesOn ==
    ASSUME Q!Inv, NEW t \in Tasks, v4[t].pc # "idle", Q!Done(t, Head(v4[t].specs))
    PROVE  /\ v4' \in [Tasks -> [pc : {"idle", "look", "insert"}, specs : Seq(Q!WindowSpec),
                                 row : Q!Rows \cup {None}]]
           /\ Q!Prepared'
<1> DEFINE rest == Tail(v4[t].specs)
           next == [pc |-> IF rest = <<>> THEN "idle" ELSE "look", specs |-> rest, row |-> None]
<1>1. v4 \in [Tasks -> [pc : {"idle", "look", "insert"}, specs : Seq(Q!WindowSpec),
                        row : Q!Rows \cup {None}]] /\ Q!Prepared
  BY DEF Q!Inv, Q!Types
<1>2. v4' = [v4 EXCEPT ![t] = next]
  BY DEF Q!Done
<1>3. rest \in Seq(Q!WindowSpec)
  <2>1. v4[t].specs \in Seq(Q!WindowSpec) /\ v4[t].specs # <<>>
    BY <1>1 DEF Q!Prepared
  <2> QED  BY <2>1, HeadTailProperties
<1> HIDE DEF rest
<1>4. next \in [pc : {"idle", "look", "insert"}, specs : Seq(Q!WindowSpec), row : Q!Rows \cup {None}]
      /\ (next.pc = "idle" <=> next.specs = <<>>) /\ next.pc # "insert"
  BY <1>3
<1> HIDE DEF next
<1>5. \A u \in Tasks : v4'[u] = IF u = t THEN next ELSE v4[u]
  BY <1>1, <1>2
<1>6. Q!Prepared'
  BY <1>1, <1>4, <1>5 DEF Q!Prepared
<1> QED  BY <1>1, <1>2, <1>4, <1>6

LEMMA QuotaTurns ==
    ASSUME Q!Inv, Q!Tick \/ \E kind \in Kinds : Q!StoreTurn(kind)
    PROVE  Q!Inv'
<1>1. UNCHANGED <<v3, v4, v5, v6, v7>>
  BY DEF Q!Tick, Q!StoreTurn
<1>2. v1' \in 0 .. QuotaClock
  <2>1. v1 \in 0 .. QuotaClock
    BY DEF Q!Inv, Q!Types
  <2>2. v1' = v1 \/ (v1 < QuotaClock /\ v1' = v1 + 1)
    BY DEF Q!Tick, Q!StoreTurn
  <2> QED  BY <2>1, <2>2, QuotaFacts
<1>3. /\ v2' \in Seq([at : Nat, provider : {k.provider : k \in Kinds},
                      model : {k.model : k \in Kinds}])
      /\ Len(v2') <= MaxTurns
  <2> DEFINE Turn == [at : Nat, provider : {k.provider : k \in Kinds},
                      model : {k.model : k \in Kinds}]
  <2>1. v2 \in Seq(Turn) /\ Len(v2) <= MaxTurns /\ v1 \in Nat
    BY QuotaFacts DEF Q!Inv, Q!Types
  <2>2. CASE Q!Tick
    BY <2>1, <2>2 DEF Q!Tick
  <2>3. ASSUME NEW kind \in Kinds, Q!StoreTurn(kind) PROVE v2' \in Seq(Turn) /\ Len(v2') <= MaxTurns
    <3>1. [at |-> v1, provider |-> kind.provider, model |-> kind.model] \in Turn
      BY <2>1
    <3>2. Len(v2) < MaxTurns
          /\ v2' = Append(v2, [at |-> v1, provider |-> kind.provider, model |-> kind.model])
      BY <2>3 DEF Q!StoreTurn
    <3> HIDE DEF Turn
    <3>3. v2' \in Seq(Turn) /\ Len(v2') = Len(v2) + 1 /\ Len(v2) \in Nat
      BY <2>1, <3>1, <3>2, AppendProperties, LenProperties
    <3> QED  BY <3>2, <3>3, QuotaFacts
  <2> QED  BY <2>2, <2>3
<1>4. Q!Types'
  BY <1>1, <1>2, <1>3 DEF Q!Inv, Q!Types
<1> QED  BY <1>1, <1>4 DEF Q!Inv, Q!Prepared, Q!HistoryTracks

LEMMA QuotaResponds ==
    ASSUME Q!Inv, NEW t \in Tasks, Q!Respond(t)
    PROVE  Q!Inv'
<1>1. PICK said \in Says :
        /\ Q!Specs(said) # <<>>
        /\ v4' = [v4 EXCEPT ![t] = [pc |-> "look", specs |-> Q!Specs(said), row |-> None]]
  BY DEF Q!Respond
<1> DEFINE next == [pc |-> "look", specs |-> Q!Specs(said), row |-> None]
<1>2. UNCHANGED <<v1, v2, v3, v5, v6, v7>>
  BY DEF Q!Respond
<1>3. next \in [pc : {"idle", "look", "insert"}, specs : Seq(Q!WindowSpec), row : Q!Rows \cup {None}]
      /\ next.pc = "look" /\ next.specs # <<>>
  BY <1>1, SpecsTyped
<1>4. v4' = [v4 EXCEPT ![t] = next]
  BY <1>1
<1> HIDE DEF next
<1>5. Q!Types'
  BY <1>2, <1>3, <1>4 DEF Q!Inv, Q!Types
<1>6. \A u \in Tasks : v4'[u] = IF u = t THEN next ELSE v4[u]
  BY <1>4 DEF Q!Inv, Q!Types
<1>7. Q!Prepared'
  BY <1>3, <1>6 DEF Q!Inv, Q!Prepared
<1> QED  BY <1>2, <1>5, <1>7 DEF Q!Inv, Q!HistoryTracks

LEMMA QuotaLooks ==
    ASSUME Q!Inv, NEW t \in Tasks, Q!Look(t)
    PROVE  Q!Inv'
<1> DEFINE spec == Head(v4[t].specs)
           row == Q!Row(v1, spec.window, spec.used, spec.resets, "oauth",
                        Q!Estimate(spec.used, Q!Observed(spec)))
           clear == [v4 EXCEPT ![t].pc = "insert", ![t].row = row]
<1>1. UNCHANGED <<v1, v2, v3, v5, v6>> /\ v4[t].pc = "look"
  BY DEF Q!Look
<1>2. \/ v4' = clear /\ UNCHANGED v7
      \/ \E i \in Q!LastRecent(spec.window) :
            /\ Q!AbsDiff(v3[i].used, spec.used) <= 1
            /\ Q!Done(t, spec) /\ Q!Note(spec, v1)
  BY DEF Q!Look
<1>3. v4 \in [Tasks -> [pc : {"idle", "look", "insert"}, specs : Seq(Q!WindowSpec),
                        row : Q!Rows \cup {None}]]
      /\ Q!Types /\ Q!Prepared
  BY DEF Q!Inv, Q!Types
<1>4. v4[t].specs \in Seq(Q!WindowSpec) /\ v4[t].specs # <<>> /\ spec \in Q!WindowSpec
  <2>1. v4[t].specs \in Seq(Q!WindowSpec) /\ v4[t].specs # <<>>
    BY <1>1, <1>3 DEF Q!Prepared
  <2> QED  BY <2>1, HeadTailProperties
<1>5. v1 \in Nat
  BY <1>3, QuotaFacts DEF Q!Types
<1>6. CASE v4' = clear /\ UNCHANGED v7
  <2>1. row \in Q!Rows /\ Q!SoundRow(row) /\ row.window = spec.window /\ row.used = spec.used
    <3> DEFINE estimate == Q!Estimate(spec.used, Q!Observed(spec))
    <3>1. estimate = None \/ Q!SoundCap(estimate.cap, estimate.confidence)
      BY <1>3, <1>4, EstimateNow
    <3> HIDE DEF estimate
    <3>2. spec \in Q!WindowSpec \cup Q!FileEntry /\ "oauth" \in LimitFiles \cup {"oauth"}
      BY <1>4
    <3> HIDE DEF spec
    <3>3. LET r == Q!Row(v1, spec.window, spec.used, spec.resets, "oauth", estimate) IN
             r \in Q!Rows /\ Q!SoundRow(r) /\ r.window = spec.window /\ r.used = spec.used
      BY <1>5, <3>1, <3>2, SoundRows
    <3> QED  BY <3>3 DEF estimate
  <2> HIDE DEF row
  <2>2. /\ v4'[t].pc = "insert" /\ v4'[t].row = row /\ v4'[t].specs = v4[t].specs
        /\ v4'[t] \in [pc : {"idle", "look", "insert"}, specs : Seq(Q!WindowSpec),
                       row : Q!Rows \cup {None}]
        /\ \A u \in Tasks : u # t => v4'[u] = v4[u]
    BY <1>3, <1>6, <2>1
  <2>3. v4' \in [Tasks -> [pc : {"idle", "look", "insert"}, specs : Seq(Q!WindowSpec),
                           row : Q!Rows \cup {None}]]
    BY <1>3, <1>6, <2>1
  <2>4. Q!Types'
    BY <1>1, <1>3, <1>6, <2>3 DEF Q!Types
  <2>5. Q!Prepared'
    <3> SUFFICES ASSUME NEW u \in Tasks
                 PROVE  /\ v4'[u].pc = "idle" <=> v4'[u].specs = <<>>
                        /\ v4'[u].pc = "insert" =>
                            /\ v4'[u].row \in Q!Rows /\ Q!SoundRow(v4'[u].row)
                            /\ v4'[u].row.window = Head(v4'[u].specs).window
                            /\ v4'[u].row.used = Head(v4'[u].specs).used
      BY DEF Q!Prepared, Q!SoundRow, Q!SoundCap, Q!Rows, Q!Windows
    <3>1. CASE u = t
      BY <1>4, <2>1, <2>2, <3>1
    <3>2. CASE u # t
      BY <1>3, <2>2, <3>2 DEF Q!Prepared
    <3> QED  BY <3>1, <3>2
  <2> QED  BY <1>1, <1>6, <2>4, <2>5 DEF Q!Inv, Q!HistoryTracks
<1>7. ASSUME NEW i \in Q!LastRecent(spec.window), Q!AbsDiff(v3[i].used, spec.used) <= 1,
             Q!Done(t, spec), Q!Note(spec, v1)
      PROVE  Q!Inv'
  <2>1. i \in DOMAIN v3 /\ v3[i].window = spec.window /\ v3[i].at + 1 >= v1
    BY <1>7 DEF Q!LastRecent
  <2>2. /\ v4' \in [Tasks -> [pc : {"idle", "look", "insert"}, specs : Seq(Q!WindowSpec),
                              row : Q!Rows \cup {None}]]
        /\ Q!Prepared'
    BY <1>1, <1>7, TaskGoesOn
  <2> DEFINE n == [window |-> spec.window, used |-> spec.used, at |-> v1]
  <2>3. v7' = v7 \cup {n}
    BY <1>7 DEF Q!Note
  <2>4. n \in [window : Q!Windows, used : Nat, at : Nat]
    BY <1>4, <1>5 DEF Q!WindowSpec
  <2>5. v3[i].window = n.window /\ Q!AbsDiff(v3[i].used, n.used) <= 1 /\ v3[i].at + 1 >= n.at
    BY <1>7, <2>1
  <2> HIDE DEF n
  <2>6. Q!Types'
    BY <1>1, <1>3, <2>2, <2>3, <2>4 DEF Q!Types
  <2>7. Q!HistoryTracks'
    BY <1>1, <2>1, <2>3, <2>5 DEF Q!Inv, Q!HistoryTracks
  <2> QED  BY <1>1, <2>2, <2>6, <2>7 DEF Q!Inv
<1> QED  BY <1>2, <1>6, <1>7

LEMMA QuotaInserts ==
    ASSUME Q!Inv, NEW t \in Tasks, Q!Insert(t)
    PROVE  Q!Inv'
<1> DEFINE spec == Head(v4[t].specs)
           row == [v4[t].row EXCEPT !.at = v1]
           n == [window |-> spec.window, used |-> spec.used, at |-> v1]
<1>1. /\ UNCHANGED <<v1, v2, v5, v6>> /\ v4[t].pc = "insert"
      /\ v3' = Append(v3, row) /\ Q!Done(t, spec) /\ v7' = v7 \cup {n}
  BY DEF Q!Insert, Q!Note
<1>2. Q!Types /\ Q!Prepared /\ v1 \in Nat
  BY QuotaFacts DEF Q!Inv, Q!Types
<1>3. /\ v4[t].row \in Q!Rows /\ Q!SoundRow(v4[t].row)
      /\ v4[t].row.window = spec.window /\ v4[t].row.used = spec.used
  BY <1>1, <1>2 DEF Q!Prepared
<1>4. row \in Q!Rows /\ Q!SoundRow(row) /\ row.window = spec.window /\ row.used = spec.used
      /\ row.at = v1
  <2>1. row \in Q!Rows /\ row.window = v4[t].row.window /\ row.used = v4[t].row.used
        /\ row.at = v1 /\ row.cap = v4[t].row.cap /\ row.confidence = v4[t].row.confidence
    BY <1>2, <1>3 DEF Q!Rows
  <2> QED  BY <1>3, <2>1 DEF Q!SoundRow
<1>5. n \in [window : Q!Windows, used : Nat, at : Nat] /\ n.used \in Nat
      /\ n.window = spec.window /\ n.used = spec.used /\ n.at = v1
  <2>1. spec.window \in Q!Windows /\ spec.used \in Nat
    BY <1>3, <1>4 DEF Q!Rows
  <2> QED  BY <1>2, <2>1
<1>6. /\ v4' \in [Tasks -> [pc : {"idle", "look", "insert"}, specs : Seq(Q!WindowSpec),
                            row : Q!Rows \cup {None}]]
      /\ Q!Prepared'
  BY <1>1, TaskGoesOn
<1> HIDE DEF row, n
<1>7. /\ v3' \in Seq(Q!Rows) /\ \A i \in DOMAIN v3' : Q!SoundRow(v3'[i])
      /\ Len(v3) + 1 \in DOMAIN v3' /\ v3'[Len(v3) + 1] = row
      /\ \A i \in DOMAIN v3 : i \in DOMAIN v3' /\ v3'[i] = v3[i]
  BY <1>1, <1>4, HistoryGrows
<1>8. Q!Types'
  BY <1>1, <1>2, <1>5, <1>6, <1>7 DEF Q!Types
<1>9. Q!HistoryTracks'
  <2>1. \E i \in DOMAIN v3' :
          /\ v3'[i].window = n.window /\ Q!AbsDiff(v3'[i].used, n.used) <= 1
          /\ v3'[i].at + 1 >= n.at
    <3> DEFINE i == Len(v3) + 1
    <3>1. i \in DOMAIN v3' /\ v3'[i].window = n.window /\ v3'[i].used = n.used /\ v3'[i].at = v1
      BY <1>4, <1>5, <1>7
    <3> HIDE DEF i
    <3>2. Q!AbsDiff(v3'[i].used, n.used) <= 1
      BY <1>5, <3>1 DEF Q!AbsDiff
    <3>3. v3'[i].at + 1 >= n.at
      BY <1>2, <1>5, <3>1
    <3> QED  BY <3>1, <3>2, <3>3
  <2>2. \A m \in v7 : \E i \in DOMAIN v3' :
          /\ v3'[i].window = m.window /\ Q!AbsDiff(v3'[i].used, m.used) <= 1
          /\ v3'[i].at + 1 >= m.at
    BY <1>7, HistoryKept
  <2> QED  BY <1>1, <2>1, <2>2 DEF Q!HistoryTracks, Q!AbsDiff
<1>10. \A i \in DOMAIN v3' : Q!SoundRow(v3'[i])
  BY <1>7
<1> QED  BY <1>6, <1>8, <1>9, <1>10 DEF Q!Inv, Q!SoundRow, Q!SoundCap

LEMMA QuotaFails ==
    ASSUME Q!Inv, NEW t \in Tasks, Q!Fail(t)
    PROVE  Q!Inv'
<1>1. UNCHANGED <<v1, v2, v3, v5, v6, v7>> /\ v4[t].pc # "idle"
  BY DEF Q!Fail
<1>2. CASE Q!Done(t, Head(v4[t].specs))
  <2>1. /\ v4' \in [Tasks -> [pc : {"idle", "look", "insert"}, specs : Seq(Q!WindowSpec),
                              row : Q!Rows \cup {None}]]
        /\ Q!Prepared'
    BY <1>1, <1>2, TaskGoesOn
  <2>2. Q!Types'
    BY <1>1, <2>1 DEF Q!Inv, Q!Types
  <2> QED  BY <1>1, <2>1, <2>2 DEF Q!Inv, Q!HistoryTracks
<1>3. CASE v4' = [v4 EXCEPT ![t] = [pc |-> "idle", specs |-> <<>>, row |-> None]]
  <2>1. \A u \in Tasks : v4'[u] = IF u = t THEN [pc |-> "idle", specs |-> <<>>, row |-> None]
                                  ELSE v4[u]
    BY <1>3 DEF Q!Inv, Q!Types
  <2>2. v4' \in [Tasks -> [pc : {"idle", "look", "insert"}, specs : Seq(Q!WindowSpec),
                           row : Q!Rows \cup {None}]]
    BY <1>3, EmptySeq DEF Q!Inv, Q!Types
  <2>3. Q!Types'
    BY <1>1, <2>2 DEF Q!Inv, Q!Types
  <2>4. Q!Prepared'
    BY <2>1 DEF Q!Inv, Q!Prepared
  <2> QED  BY <1>1, <2>3, <2>4 DEF Q!Inv, Q!HistoryTracks
<1> QED  BY <1>2, <1>3 DEF Q!Fail

LEMMA EntryTyped ==
    ASSUME Q!Types, NEW f \in LimitFiles, NEW window \in {"five_hour", "seven_day"}
    PROVE  Q!Entry(f, window) \in Seq(Q!FileEntry)
<1>1. CASE v5[f] = None \/ v5[f][window] = None
  BY <1>1, EmptySeq DEF Q!Entry
<1>2. CASE ~(v5[f] = None \/ v5[f][window] = None)
  <2>1. v5[f] \in Limits
    BY <1>2 DEF Q!Types
  <2>2. {v5[f].five_hour, v5[f].seven_day} \subseteq Q!Readings \cup {None}
    BY <2>1, Instances DEF Q!QuotaAssumption
  <2>3. v5[f][window] \in Q!Readings
    BY <1>2, <2>2
  <2> DEFINE entry == [file |-> f, window |-> window, used |-> v5[f][window].used,
                       resets |-> v5[f][window].resets]
  <2>4. entry \in Q!FileEntry
    BY <2>3, QuotaFacts DEF Q!FileEntry, Q!Readings
  <2>5. Q!Entry(f, window) = <<entry>>
    BY <1>2 DEF Q!Entry
  <2> HIDE DEF entry
  <2> QED  BY <2>4, <2>5
<1> QED  BY <1>1, <1>2

LEMMA QuotaSweeps ==
    ASSUME Q!Inv, NEW s \in Sweeps,
           Q!StartSweep(s) \/ Q!ReadLimits(s) \/ Q!StoreLimit(s) \/ Q!FailLimit(s)
    PROVE  Q!Inv'
<1> DEFINE Swept == [at : Nat, files : SUBSET LimitFiles, left : Seq(Q!FileEntry)]
<1>1. UNCHANGED <<v1, v2, v4, v5, v7>>
  BY DEF Q!StartSweep, Q!ReadLimits, Q!StoreLimit, Q!FailLimit
<1>2. v6 \in [Sweeps -> Swept] /\ Q!Types /\ v1 \in Nat
  BY QuotaFacts DEF Q!Inv, Q!Types
<1>3. v6[s].at \in Nat /\ v6[s].files \subseteq LimitFiles /\ v6[s].left \in Seq(Q!FileEntry)
  BY <1>2
<1>4. v6' \in [Sweeps -> Swept]
  <2>1. CASE Q!StartSweep(s)
    BY <1>2, <2>1 DEF Q!StartSweep
  <2>2. CASE Q!ReadLimits(s)
    <3>1. PICK f \in v6[s].files :
            v6' = [v6 EXCEPT ![s].files = @ \ {f},
                             ![s].left = Q!Entry(f, "five_hour") \o Q!Entry(f, "seven_day")]
      BY <2>2 DEF Q!ReadLimits
    <3>2. Q!Entry(f, "five_hour") \o Q!Entry(f, "seven_day") \in Seq(Q!FileEntry)
      BY <1>2, <1>3, EntryTyped, ConcatProperties
    <3> QED  BY <1>2, <1>3, <3>1, <3>2
  <2>3. CASE Q!StoreLimit(s)
    <3>1. v6' = [v6 EXCEPT ![s].left = Tail(@)] /\ v6[s].left # <<>>
      BY <2>3 DEF Q!StoreLimit
    <3>2. Tail(v6[s].left) \in Seq(Q!FileEntry)
      BY <1>3, <3>1, HeadTailProperties
    <3> QED  BY <1>2, <3>1, <3>2
  <2>4. CASE Q!FailLimit(s)
    <3>1. v6' = [v6 EXCEPT ![s].left = <<>>]
      BY <2>4 DEF Q!FailLimit
    <3> QED  BY <1>2, <3>1, EmptySeq
  <2> QED  BY <2>1, <2>2, <2>3, <2>4
<1>5. CASE v3' = v3
  <2>1. Q!Types'
    BY <1>1, <1>2, <1>4, <1>5 DEF Q!Types
  <2> QED  BY <1>1, <1>5, <2>1 DEF Q!Inv, Q!Prepared, Q!HistoryTracks
<1>6. CASE v3' # v3
  <2> DEFINE entry == Head(v6[s].left)
             row == Q!Row(v6[s].at, entry.window, entry.used, entry.resets, entry.file, None)
  <2>1. Q!StoreLimit(s)
    BY <1>6 DEF Q!StartSweep, Q!ReadLimits, Q!FailLimit
  <2>2. v3' = Append(v3, row) /\ v6[s].left # <<>>
    BY <1>6, <2>1 DEF Q!StoreLimit
  <2>3. entry \in Q!FileEntry /\ entry.file \in LimitFiles \cup {"oauth"}
    <3>1. entry \in Q!FileEntry
      BY <1>3, <2>2, HeadTailProperties
    <3> QED  BY <3>1 DEF Q!FileEntry
  <2>4. row \in Q!Rows /\ Q!SoundRow(row)
    <3> HIDE DEF entry
    <3> QED  BY <1>3, <2>3, SoundRows
  <2> HIDE DEF row
  <2>5. /\ v3' \in Seq(Q!Rows) /\ \A i \in DOMAIN v3' : Q!SoundRow(v3'[i])
        /\ \A i \in DOMAIN v3 : i \in DOMAIN v3' /\ v3'[i] = v3[i]
    BY <2>2, <2>4, HistoryGrows
  <2>6. Q!Types'
    BY <1>1, <1>2, <1>4, <2>5 DEF Q!Types
  <2>7. Q!HistoryTracks'
    BY <1>1, <2>5, HistoryKept DEF Q!HistoryTracks, Q!AbsDiff
  <2> QED  BY <1>1, <2>5, <2>6, <2>7 DEF Q!Inv, Q!Prepared, Q!SoundRow, Q!SoundCap
<1> QED  BY <1>5, <1>6

LEMMA QuotaStep == Q!Inv /\ [Q!Next]_(Q!vars) => Q!Inv'
<1> SUFFICES ASSUME Q!Inv, [Q!Next]_(Q!vars) PROVE Q!Inv'
  OBVIOUS
<1>1. CASE Q!Next
  <2>1. CASE Q!Tick \/ \E kind \in Kinds : Q!StoreTurn(kind)
    BY <2>1, QuotaTurns
  <2>2. CASE \E t \in Tasks : Q!Respond(t) \/ Q!Look(t) \/ Q!Insert(t) \/ Q!Fail(t)
    BY <2>2, QuotaResponds, QuotaLooks, QuotaInserts, QuotaFails
  <2>3. CASE \E f \in LimitFiles, limits \in Limits : Q!WriteLimits(f, limits)
    <3>1. PICK f \in LimitFiles, limits \in Limits : Q!WriteLimits(f, limits)
      BY <2>3
    <3>2. UNCHANGED <<v1, v2, v3, v4, v6, v7>> /\ v5' = [v5 EXCEPT ![f] = limits]
      BY <3>1 DEF Q!WriteLimits
    <3>3. Q!Types'
      BY <3>2 DEF Q!Inv, Q!Types
    <3> QED  BY <3>2, <3>3 DEF Q!Inv, Q!Prepared, Q!HistoryTracks
  <2>4. CASE \E s \in Sweeps : Q!StartSweep(s) \/ Q!ReadLimits(s) \/ Q!StoreLimit(s) \/ Q!FailLimit(s)
    BY <2>4, QuotaSweeps
  <2> QED  BY <1>1, <2>1, <2>2, <2>3, <2>4 DEF Q!Next
<1>2. CASE UNCHANGED Q!vars
  <2>1. UNCHANGED <<v1, v2, v3, v4, v5, v6, v7, v8>>
    BY <1>2 DEF Q!vars
  <2>2. Q!Types'
    BY <2>1 DEF Q!Inv, Q!Types
  <2> QED  BY <2>1, <2>2 DEF Q!Inv, Q!Prepared, Q!HistoryTracks
<1> QED  BY <1>1, <1>2

\* What the dashboard shows of any answer is sound in any state with sound rows.
LEMMA QuotaSmooths ==
    ASSUME Q!Inv, TurnTokens >= 26
    PROVE  Q!SmoothedSound
<1> SUFFICES ASSUME NEW said \in Says, NEW i \in DOMAIN Q!Specs(said)
             PROVE  LET spec == Q!Specs(said)[i]
                        now == Q!Estimate(spec.used, Q!Observed(spec))
                        shown == Q!Shown(spec)
                        caps == {now.cap} \cup {v3[j].cap : j \in Q!Caps(spec.window)}
                    IN now # None =>
                        /\ shown.cap \in Q!Min(caps) .. Q!Max(caps)
                        /\ shown.shift = "increase" => shown.cap < now.cap
                        /\ shown.shift = "decrease" => shown.cap > now.cap
  BY DEF Q!SmoothedSound
<1> DEFINE spec == Q!Specs(said)[i]
           now == Q!Estimate(spec.used, Q!Observed(spec))
           rows == Q!Caps(spec.window)
           shown == Q!Smooth(now, rows)
           caps == {now.cap} \cup {v3[j].cap : j \in rows}
           past == Q!Ema(rows)
           all == Q!Weigh(past, now)
           most == 400 * (TurnTokens * MaxTurns) + 200
<1> SUFFICES ASSUME now # None
             PROVE  /\ shown.cap \in Q!Min(caps) .. Q!Max(caps)
                    /\ shown.shift = "increase" => shown.cap < now.cap
                    /\ shown.shift = "decrease" => shown.cap > now.cap
  BY DEF Q!Shown
<1>1. Q!Types /\ v3 \in Seq(Q!Rows) /\ Len(v3) \in Nat /\ \A j \in DOMAIN v3 : Q!SoundRow(v3[j])
  BY LenProperties DEF Q!Inv, Q!Types
<1>2. spec \in Q!WindowSpec
  BY SpecsTyped, ElementOfSeq, LenProperties
<1>3. Q!SoundCap(now.cap, now.confidence)
  BY <1>1, <1>2, EstimateNow
<1>4. \A j \in rows : Q!SoundCap(v3[j].cap, v3[j].confidence)
  BY <1>1 DEF Q!Caps, Q!SoundRow
<1>5. /\ shown.shift = "increase" => 5 * now.cap * past.den > 6 * past.num
      /\ shown.shift = "decrease" => 5 * now.cap * past.den < 4 * past.num
  BY DEF Q!Smooth
<1>6. shown.cap = (2 * all.num + all.den) \div (2 * all.den)
  BY DEF Q!Smooth
<1>7. most \in Nat /\ TurnTokens \in Nat
  BY QuotaFacts
<1> HIDE DEF spec, now, rows, shown, most
<1>8. caps \subseteq Nat /\ caps # {} /\ \A c \in caps : c <= most
  BY <1>3, <1>4, <1>7 DEF Q!SoundCap, most
<1> DEFINE lo == Q!Min(caps)
           hi == Q!Max(caps)
<1>9. lo \in Nat /\ hi \in Nat /\ \A c \in caps : lo <= c /\ c <= hi
  <2> HIDE DEF caps
  <2>1. lo \in caps /\ \A c \in caps : lo <= c
    BY <1>8, QuotaMin
  <2>2. hi \in caps /\ \A c \in caps : c <= hi
    BY <1>7, <1>8, QuotaMax
  <2> QED  BY <1>8, <2>1, <2>2
<1>10. now.cap \in caps /\ \A j \in rows : v3[j].cap \in caps
  OBVIOUS
<1> HIDE DEF caps, lo, hi
<1>11. /\ now.cap \in lo .. hi /\ now.confidence \in 48 .. 300
       /\ \A j \in rows : v3[j].cap \in lo .. hi /\ v3[j].confidence \in 48 .. 300
  BY <1>3, <1>4, <1>8, <1>9, <1>10 DEF Q!SoundCap
<1>12. past \in Between(lo, hi)
  BY <1>1, <1>9, <1>11, EmaBetween
<1> HIDE DEF past
<1>13. all \in Between(lo, hi) /\ all.den # 0
  BY <1>9, <1>11, <1>12, WeighedBetween
<1>14. shown.cap \in lo .. hi
  <2> HIDE DEF all
  <2>1. all.num \in Nat /\ all.den \in Nat \ {0} /\ lo * all.den <= all.num /\ all.num <= hi * all.den
    BY <1>13 DEF Between
  <2> QED  BY <1>6, <1>9, <2>1, Rounded
<1>15. now.cap \in Nat /\ 26 <= now.cap
  BY <1>3, <1>7 DEF Q!SoundCap
<1>16. /\ 5 * now.cap * past.den > 6 * past.num => shown.cap < now.cap
       /\ 5 * now.cap * past.den < 4 * past.num => shown.cap > now.cap
  BY <1>6, <1>9, <1>11, <1>12, <1>15, ShiftTrails
<1> QED  BY <1>5, <1>14, <1>16 DEF lo, hi

-----------------------------------------------------------------------------
(* The caches of the Claude usage: v1 is oauthOn, v3 usageCache, v6 adminCache,  *)
(* v11 windows and v12 shown.                                                   *)

LEMMA UsageInit == U!Init => U!Inv
<1> SUFFICES ASSUME U!Init PROVE U!Inv
  OBVIOUS
<1>1. /\ v12 = [c \in U!Callers |-> None] /\ v11 = [c \in U!Callers |-> U!Unavailable]
      /\ v3 = None /\ v6 = None
  BY DEF U!Init
<1>2. U!Unavailable \in U!Answers /\ ~U!Unavailable.available
  BY DEF U!Unavailable, U!Answers
<1>3. U!Types
  BY <1>1, <1>2 DEF U!Types
<1>4. U!Cached
  BY <1>1, <1>2 DEF U!Cached, U!LoginShown, U!OfLogin
<1> QED  BY <1>3, <1>4 DEF U!Inv

\* What a caller is answered: the cached answer, or at start-up one of the analytics,
\* or one without usage where no usage of the login was shown.
LEMMA UsageAnswers ==
    ASSUME U!Inv, NEW c \in U!Callers, U!Answered(c)
    PROVE  \E a \in U!Answers :
             /\ v12' = [v12 EXCEPT ![c] = a] /\ (U!LoginShown => a.available)
             /\ v3' \in U!Answers \cup {None} /\ (U!OfLogin(a) => v3' = a)
             /\ (U!LoginShown => v3' # None /\ v3'.available)
             /\ (v3' # None /\ U!OfLogin(v3') => v1)
             /\ UNCHANGED <<v1, v6, v11>>
<1>1. /\ v11 \in [U!Callers -> U!Answers] /\ v3 \in U!Answers \cup {None}
      /\ v6 \in {None, "data", "failed"} /\ U!Cached
  BY DEF U!Inv, U!Types
<1>2. U!Unavailable \in U!Answers /\ ~U!OfLogin(U!Unavailable)
  BY DEF U!Unavailable, U!Answers, U!OfLogin
<1>3. CASE U!UsageOff(c)
  <2>1. /\ v12' = [v12 EXCEPT ![c] = U!Unavailable] /\ ~v1 /\ UNCHANGED <<v1, v3, v6, v11>>
    BY <1>3 DEF U!UsageOff, U!Answer, U!config, U!usage, U!admin
  <2> QED  BY <1>1, <1>2, <2>1 DEF U!Cached
<1>4. CASE U!UsageHit(c)
  <2>1. v3 # None /\ v12' = [v12 EXCEPT ![c] = v3] /\ UNCHANGED <<v1, v3, v6, v11>>
    BY <1>4 DEF U!UsageHit, U!Answer, U!config, U!usage, U!admin
  <2> QED  BY <1>1, <2>1 DEF U!Cached
<1>5. CASE U!StoreUsage(c)
  <2>1. PICK a : /\ v12' = [v12 EXCEPT ![c] = a] /\ v3' = a /\ UNCHANGED <<v1, v6, v11>>
                 /\ a = IF v11[c].available \/ v3 = None THEN v11[c] ELSE v3
    BY <1>5 DEF U!StoreUsage, U!Answer, U!config, U!admin
  <2>2. v11[c] \in U!Answers /\ (U!OfLogin(v11[c]) => v1)
    BY <1>1 DEF U!Cached
  <2>3. a \in U!Answers /\ (U!LoginShown => a.available) /\ (U!OfLogin(a) => v1)
    BY <1>1, <2>1, <2>2 DEF U!Cached
  <2>4. a # None
    BY <2>3, Instances DEF U!UsageAssumption
  <2> QED  BY <2>1, <2>3, <2>4
<1>6. CASE c \in Requests /\ U!Startup(c)
  <2>1. /\ v12' = [v12 EXCEPT ![c] = IF v3 # None THEN v3
                                     ELSE IF v6 # None THEN U!FromAdmin(v6)
                                     ELSE U!Unavailable]
        /\ UNCHANGED <<v1, v3, v6, v11>>
    BY <1>6 DEF U!Startup, U!Answer, U!config, U!usage, U!admin
  <2>2. v6 # None => U!FromAdmin(v6) \in U!Answers /\ ~U!OfLogin(U!FromAdmin(v6))
    BY <1>1 DEF U!FromAdmin, U!Unavailable, U!Answers, U!OfLogin
  <2> QED  BY <1>1, <1>2, <2>1, <2>2 DEF U!Cached
<1> QED  BY <1>3, <1>4, <1>5, <1>6 DEF U!Answered

LEMMA UsageStep ==
    ASSUME U!Inv, U!Next \/ UNCHANGED U!vars
    PROVE  U!Inv' /\ U!UsageStays
<1>1. /\ v11 \in [U!Callers -> U!Answers] /\ v12 \in [U!Callers -> U!Answers \cup {None}]
      /\ v3 \in U!Answers \cup {None} /\ v6 \in {None, "data", "failed"} /\ U!Cached
  BY DEF U!Inv, U!Types
<1>2. U!UsageStays
  <2> SUFFICES ASSUME U!LoginShown, NEW c \in U!Callers, U!Answered(c)
      PROVE  v12'[c].available
    BY DEF U!UsageStays
  <2>1. PICK a : v12' = [v12 EXCEPT ![c] = a] /\ a.available
    BY UsageAnswers
  <2>2. v12'[c] = a
    BY <1>1, <2>1
  <2> QED  BY <2>1, <2>2
<1>3. ASSUME NEW c \in U!Callers, U!Answered(c) PROVE U!Inv'
  <2>1. PICK a \in U!Answers :
          /\ v12' = [v12 EXCEPT ![c] = a] /\ (U!LoginShown => a.available)
          /\ v3' \in U!Answers \cup {None} /\ (U!OfLogin(a) => v3' = a)
          /\ (U!LoginShown => v3' # None /\ v3'.available)
          /\ (v3' # None /\ U!OfLogin(v3') => v1)
          /\ UNCHANGED <<v1, v6, v11>>
    BY <1>3, UsageAnswers
  <2>2. U!Types'
    <3>1. v12' \in [U!Callers -> U!Answers \cup {None}]
      BY <1>1, <2>1
    <3> QED  BY <1>1, <2>1, <3>1 DEF U!Types
  <2>3. a # None
    BY Instances DEF U!UsageAssumption
  <2>4. U!LoginShown' => U!LoginShown \/ U!OfLogin(a)
    <3> SUFFICES ASSUME NEW d \in U!Callers, v12'[d] # None, v12'[d].available,
                        v12'[d].source = "oauth"
        PROVE  U!LoginShown \/ U!OfLogin(a)
      BY DEF U!LoginShown
    <3>1. CASE d = c
      <4>1. v12'[d] = a
        BY <1>1, <2>1, <3>1
      <4> QED  BY <4>1 DEF U!OfLogin
    <3>2. CASE d # c
      <4>1. v12'[d] = v12[d]
        BY <1>1, <2>1, <3>2
      <4> QED  BY <4>1 DEF U!LoginShown
    <3> QED  BY <3>1, <3>2
  <2>5. U!OfLogin(a) => v3' # None /\ v3'.available /\ v1
    <3> SUFFICES ASSUME U!OfLogin(a) PROVE v3' # None /\ v3'.available /\ v1
      OBVIOUS
    <3>1. v3' = a
      BY <2>1
    <3>2. v3' # None /\ v3'.available
      BY <2>3, <3>1 DEF U!OfLogin
    <3> QED  BY <2>1, <3>1, <3>2
  <2>6. U!Cached'
    BY <1>1, <2>1, <2>4, <2>5 DEF U!Cached
  <2> QED  BY <2>2, <2>6 DEF U!Inv
\* The steps of a poll: an answer that is of the login is had where it may be used.
<1>4. ASSUME NEW c \in U!Callers, NEW a \in U!Answers, U!OfLogin(a) => v1,
             v11' \in {v11, [v11 EXCEPT ![c] = a]}, UNCHANGED <<v1, v3, v12>>,
             v6' \in {None, "data", "failed"}
      PROVE  U!Inv'
  <2>1. U!Types'
    BY <1>1, <1>4 DEF U!Types
  <2>2. U!LoginShown' = U!LoginShown
    BY <1>4 DEF U!LoginShown
  <2>3. \A d \in U!Callers : U!OfLogin(v11'[d]) => v1
    BY <1>1, <1>4 DEF U!Cached
  <2>4. U!Cached'
    BY <1>1, <1>4, <2>2, <2>3 DEF U!Cached
  <2> QED  BY <2>1, <2>4 DEF U!Inv
<1>5. ASSUME NEW c \in U!Callers, U!PollUsage(c) PROVE U!Inv'
  <2>1. PICK a \in IF v1 THEN {U!Windows, U!WithError} ELSE {U!Unavailable} :
          v11' = [v11 EXCEPT ![c] = a] /\ UNCHANGED <<v1, v3, v6, v12>>
    BY <1>5 DEF U!PollUsage, U!config, U!usage, U!admin
  <2>2. /\ U!Windows \in U!Answers /\ U!WithError \in U!Answers /\ U!Unavailable \in U!Answers
        /\ ~U!OfLogin(U!Unavailable)
    BY DEF U!Windows, U!WithError, U!Unavailable, U!Answers, U!OfLogin
  <2>3. a \in U!Answers /\ (U!OfLogin(a) => v1)
    BY <2>1, <2>2
  <2> QED  BY <1>1, <1>4, <2>1, <2>3
<1>6. ASSUME NEW c \in U!Callers, U!AdminHit(c) \/ U!StoreAdmin(c) PROVE U!Inv'
  <2>1. PICK summary \in {"data", "failed"} :
          /\ v6' = summary /\ U!AfterAdmin(c, summary) /\ UNCHANGED <<v1, v3, v12>>
    BY <1>1, <1>6 DEF U!AdminHit, U!StoreAdmin, U!config, U!usage, U!admin
  <2>2. U!FromAdmin(summary) \in U!Answers /\ ~U!OfLogin(U!FromAdmin(summary))
    BY DEF U!FromAdmin, U!Unavailable, U!Answers, U!OfLogin
  <2>3. v11' \in {v11, [v11 EXCEPT ![c] = U!FromAdmin(summary)]}
    <3>1. v11 = [v11 EXCEPT ![c] = v11[c]]
      BY <1>1
    <3> QED  BY <1>1, <2>1, <3>1 DEF U!AfterAdmin
  <2> QED  BY <1>4, <2>1, <2>2, <2>3
<1>7. ASSUME \/ \E c \in U!Callers : U!WantUsage(c) \/ U!LockUsage(c) \/ U!LockAdmin(c)
             \/ \E c \in Requests : U!HangUp(c)
             \/ U!WantAdmin \/ U!Age \/ U!StoreFactors \/ UNCHANGED U!vars
      PROVE  U!Inv'
  <2>1. UNCHANGED <<v1, v3, v6, v11, v12>>
    BY <1>7 DEF U!WantUsage, U!LockUsage, U!LockAdmin, U!HangUp, U!WantAdmin, U!Age,
                U!StoreFactors, U!vars, U!config, U!usage, U!admin
  <2> QED  BY <1>1, <2>1 DEF U!Inv, U!Types, U!Cached, U!LoginShown
<1> QED  BY <1>2, <1>3, <1>5, <1>6, <1>7
            DEF U!Next, U!RefreshUsage, U!RefreshAdmin, U!Answered, U!Callers

-----------------------------------------------------------------------------
(* The theorems *)

\* A step of the whole is a step of the part, or leaves it alone.
LEMMA PartSteps ==
    [Next]_vars =>
        /\ part' = part
        /\ part = "claude" => [T!Next]_(T!vars)
        /\ part = "codex" => [X!Next]_(X!vars)
        /\ part = "usage" => [U!Next]_(U!vars)
        /\ part = "status" => [H!Next]_(H!vars)
        /\ part = "quota" => [Q!Next]_(Q!vars)
<1>1. CASE Next
  BY <1>1 DEF Next, Claude, Codex, Usage, Status, Quota
<1>2. CASE UNCHANGED vars
  BY <1>2 DEF vars, T!vars, T!setup, T!service, X!vars, X!service, U!vars,
              U!config, U!usage, U!admin, H!vars, H!world,
              H!status, H!crowd, H!hooks, H!history, Q!vars
<1> QED  BY <1>1, <1>2

LEMMA PartStarts ==
    Init => /\ part = "claude" => T!Init
            /\ part = "codex" => X!Init
            /\ part = "status" => H!Init
            /\ part = "quota" => Q!Init
BY DEF Init

\* However processes, the app-server of Codex and the tools themselves take turns
\* with a login, and whichever of them are cut off, as long as no answer was lost
\* a store of it holds a refresh token the service still takes, and a poll of
\* Codex answers with a reading or with an error, as its trace says: for any
\* number of processes, tokens and app-servers, if a refresh replaces the token
\* (oauth/credentials.rs, live_providers/codex.rs).
THEOREM LoginsStayKept ==
    ASSUME Rotates
    PROVE  Spec => []LoginsKept
<1> DEFINE LInv == (part = "claude" => T!Inv) /\ (part = "codex" => X!Inv)
<1>1. Init => LInv
  BY PartStarts, ClaudeInit, CodexInit
<1>2. LInv /\ [Next]_vars => LInv'
  BY PartSteps, ClaudeStep, CodexStep
<1>3. LInv => LoginsKept
  <2>1. T!Inv => T!TypeOK /\ T!GrantKept
    BY DEF T!Inv, T!LiveSomewhere, T!GrantKept, T!Saving
  <2>2. X!Inv => X!TypeOK /\ X!CodexGrantKept /\ X!AnswerWhole
    BY DEF X!Inv
  <2> QED  BY <2>1, <2>2 DEF LoginsKept
<1> QED  BY <1>1, <1>2, <1>3, PTL DEF Spec

\* However polls of the official status and of the crowd overlap, fail and are
\* dropped, the last alert about a provider says what its page said when an alert
\* last looked; an answer without a body keeps what the cache shows; and, with one
\* provider polled, a spike is told only while the status last known is below
\* major: for any tasks, lifetimes and answers (poll_agent_status, webhooks.rs).
THEOREM AlertsStayTrue == Spec => []HealthTrue
<1> DEFINE SInv == part = "status" => H!Inv
<1>1. Init => SInv
  BY PartStarts, StatusInit
<1>2. SInv /\ [Next]_vars => SInv'
  BY PartSteps, StatusStep
<1>3. H!Inv => H!TypeOK /\ H!HealthTrue
  <2> SUFFICES ASSUME H!Inv PROVE H!TypeOK /\ H!HealthTrue
    OBVIOUS
  <2>1. H!Types /\ H!Locked /\ H!Remembered /\ H!StatusKept
        /\ (v2 # H!Providers => H!SpikeLeads)
    BY DEF H!Inv
  <2>2. (\A a, b \in v6 : a = b) /\ (\A a, b \in v9 : a = b)
    BY <2>1 DEF H!Locked
  <2>4. H!TypeOK
    <3>1. {v5.claude, v5.openai} \subseteq H!Levels \cup {"absent"}
      BY <2>1 DEF H!Types, H!Shows
    <3>2. \A p \in H!Providers :
            /\ v11[p] \in {"unset", "yes", "no"} /\ v12[p] \in {"unset", "yes", "no"}
            /\ v15[p] \in {"nothing", "degraded", "restored"}
      BY <2>1 DEF H!Types
    <3>3. v1 \in 0..StatusClock
      BY <2>1 DEF H!Types
    <3> QED  BY <2>2, <3>1, <3>2, <3>3 DEF H!TypeOK
  <2>3. H!AlertsTrue
    BY <2>1 DEF H!Remembered, H!AlertsTrue
  <2> QED  BY <2>1, <2>3, <2>4 DEF H!HealthTrue
<1>4. SInv => HealthTrue
  BY <1>3 DEF HealthTrue
<1> QED  BY <1>1, <1>2, <1>4, PTL DEF Spec

\* Once a caller was answered with the usage of the login, no one is answered without
\* usage again, whichever polls fail, wait for each other or are dropped, and at
\* start-up too: for any requests (refresh_usage_windows_with,
\* cached_or_unavailable_claude_usage).
THEOREM GoodUsageIsKept == Spec => GoodUsageStays
<1> DEFINE UInv == part = "usage" => U!Inv
<1>1. Init => UInv
  BY UsageInit DEF Init
<1>2. UInv /\ [Next]_vars => UInv'
  BY PartSteps, UsageStep
<1>3. UInv /\ [Next]_vars => [part = "usage" => U!UsageStays]_vars
  BY PartSteps, UsageStep
<1> QED  BY <1>1, <1>2, <1>3, PTL DEF Spec, GoodUsageStays

\* Whatever tasks and scans overlap or fail, of each observation that was recorded
\* or passed over the table has a row that says the same to half a percent and is
\* not more than five minutes older; and whatever a provider says, in whichever
\* state of the table, the smoothed cap lies among those it was made from and a
\* shift is told in the direction in which it trails the new one: for any tasks,
\* files and histories, if a turn counts 26 tokens or more.  With fewer, rounding to
\* whole tokens may hide a shift (record_rate_window_snapshot, smooth_with_history).
THEOREM QuotaStaysTrue ==
    ASSUME TurnTokens >= 26
    PROVE  Spec => []QuotaTrue
<1> DEFINE QInv == part = "quota" => Q!Inv
<1>1. Init => QInv
  BY PartStarts, QuotaInit
<1>2. QInv /\ [Next]_vars => QInv'
  BY PartSteps, QuotaStep
<1>3. Q!Inv => Q!TypeOK /\ Q!QuotaTrue
  <2> SUFFICES ASSUME Q!Inv PROVE Q!TypeOK /\ Q!HistoryTracks /\ Q!SmoothedSound
    BY DEF Q!QuotaTrue
  <2>1. Q!TypeOK
    <3>1. Q!Types /\ Q!Prepared /\ \A i \in DOMAIN v3 : v3[i] \in Q!Rows /\ Q!SoundRow(v3[i])
      BY ElementOfSeq, LenProperties DEF Q!Inv, Q!Types
    <3>2. \A i \in DOMAIN v3 : v3[i].window \in Q!Windows
                               /\ (v3[i].cap = None <=> v3[i].confidence = None)
      BY <3>1, QuotaFacts DEF Q!Rows, Q!SoundRow, Q!SoundCap
    <3>3. \A t \in Tasks : v4[t].pc \in {"idle", "look", "insert"}
                           /\ (v4[t].pc = "idle" <=> v4[t].specs = <<>>)
      BY <3>1 DEF Q!Types, Q!Prepared
    <3> QED  BY <3>1, <3>2, <3>3 DEF Q!TypeOK, Q!Types
  <2> QED  BY <2>1, QuotaSmooths DEF Q!Inv
<1>4. QInv => QuotaTrue
  BY <1>3 DEF QuotaTrue
<1> QED  BY <1>1, <1>2, <1>4, PTL DEF Spec

=============================================================================
