------------------------------ MODULE RowsProofs ------------------------------
(* Proofs about what is stored and what is computed from it.  Each part of    *)
(* Rows has an invariant, kept by its steps and proved here by itself; the    *)
(* parts share no state, so a step of the whole is a step of one of them.     *)
(* RowsTerms has the terms, and says which variable of a part is which.       *)
EXTENDS RowsTerms, Functions, FiniteSetTheorems, WellFoundedInduction, SequenceTheorems, TLAPS

-----------------------------------------------------------------------------
(* Sums over finite sets *)

\* Every set of numbers has a least one: what an induction rests on.
LEMMA LeastNumber ==
    ASSUME NEW X, X \subseteq Nat, X # {}
    PROVE  \E m \in X : \A n \in X : m <= n
<1> DEFINE R == OpToRel(<, Nat)
<1>1. IsWellFoundedOn(R, Nat)
  BY NatLessThanWellFounded
<1>2. PICK m \in X : \A n \in X : <<n, m>> \notin R
  BY <1>1, WFMin
<1>3. \A n \in X : ~(n < m)
  BY <1>2 DEF OpToRel
<1> QED  BY <1>3

\* Induction on a finite set, with the set of the parts that are good.
LEMMA SetInduction ==
    ASSUME NEW X, IsFiniteSet(X), NEW Good, {} \in Good,
           \A T \in SUBSET X : \A x \in X \ T : T \in Good => T \cup {x} \in Good
    PROVE  X \in Good
<1> DEFINE Bad == {T \in SUBSET X : T \notin Good}
           Counts == {Cardinality(T) : T \in Bad}
<1> SUFFICES ASSUME X \notin Good PROVE FALSE
  OBVIOUS
<1>1. \A T \in SUBSET X : IsFiniteSet(T) /\ Cardinality(T) \in Nat
  BY FS_Subset, FS_CardinalityType
<1>2. X \in Bad
  OBVIOUS
<1>3. Counts \subseteq Nat /\ Counts # {}
  BY <1>1, <1>2
<1>4. PICK T \in Bad : \A U \in Bad : Cardinality(T) <= Cardinality(U)
  <2>1. PICK m \in Counts : \A n \in Counts : m <= n
    <3> HIDE DEF Counts
    <3> QED  BY <1>3, LeastNumber
  <2> QED  BY <2>1
<1>5. PICK x \in T : TRUE
  BY <1>4
<1>6. Cardinality(T \ {x}) = Cardinality(T) - 1
  BY <1>1, <1>4, <1>5, FS_RemoveElement
<1>7. T \ {x} \in Good
  BY <1>1, <1>4, <1>6
<1>8. (T \ {x}) \cup {x} = T /\ x \in X \ (T \ {x}) /\ T \ {x} \in SUBSET X
  BY <1>4, <1>5
<1> QED  BY <1>4, <1>7, <1>8

-----------------------------------------------------------------------------
(* Sums over finite sets *)

LEMMA PickIsMember == \A s : s # {} => Pick(s) \in s
BY DEF Pick

LEMMA SummingExists ==
    ASSUME NEW X, IsFiniteSet(X), NEW f
    PROVE  \E g : Summing(g, f, X)
<1> DEFINE Small(k) == {s \in SUBSET X : Cardinality(s) <= k}
           Sums(g, k) == g = [s \in Small(k) |-> IF s = {} THEN 0
                                                 ELSE f[Pick(s)] + g[s \ {Pick(s)}]]
           Missed == {k \in Nat : ~ \E g : Sums(g, k)}
<1>1. \A T \in SUBSET X : IsFiniteSet(T) /\ Cardinality(T) \in Nat
                          /\ Cardinality(T) <= Cardinality(X)
  BY FS_Subset, FS_CardinalityType
<1>2. \A T \in SUBSET X : T # {} => /\ Pick(T) \in T /\ T \ {Pick(T)} \in SUBSET X
                                    /\ Cardinality(T \ {Pick(T)}) = Cardinality(T) - 1
  BY <1>1, PickIsMember, FS_RemoveElement
<1>3. Missed = {}
  <2> SUFFICES ASSUME Missed # {} PROVE FALSE
    OBVIOUS
  <2>1. PICK m \in Missed : \A k \in Missed : m <= k
    <3>1. Missed \subseteq Nat
      OBVIOUS
    <3> HIDE DEF Missed
    <3> QED  BY <3>1, LeastNumber
  <2>2. CASE m = 0
    <3> DEFINE g == [s \in Small(0) |-> 0]
    <3>1. \A s \in Small(0) : s = {}
      <4>1. \A s \in Small(0) : IsFiniteSet(s) /\ Cardinality(s) = 0
        BY <1>1
      <4> QED  BY <4>1, FS_EmptySet
    <3>2. Sums(g, 0)
      BY <3>1
    <3> QED  BY <2>1, <2>2, <3>2
  <2>3. CASE m # 0
    <3>0. m \in Nat
      BY <2>1
    <3>1. m - 1 \in Nat /\ m - 1 \notin Missed
      <4> HIDE DEF Missed
      <4> QED  BY <2>1, <2>3, <3>0
    <3>2. PICK g : Sums(g, m - 1)
      BY <3>1
    <3> DEFINE h == [s \in Small(m) |-> IF s = {} THEN 0
                                        ELSE f[Pick(s)] + g[s \ {Pick(s)}]]
    <3>3. \A s \in Small(m) : s # {} => s \ {Pick(s)} \in Small(m - 1)
      BY <1>1, <1>2, <2>1
    <3>4. \A s \in Small(m - 1) : s \in Small(m) /\ h[s] = g[s]
      <4>1. \A s \in Small(m - 1) : s \in Small(m)
        BY <1>1, <2>1
      <4>2. \A s \in Small(m - 1) :
                g[s] = IF s = {} THEN 0 ELSE f[Pick(s)] + g[s \ {Pick(s)}]
        <5> HIDE DEF Small
        <5> QED  BY <3>2
      <4> HIDE DEF Small
      <4> QED  BY <4>1, <4>2
    <3>5. \A s \in Small(m) : s # {} => h[s \ {Pick(s)}] = g[s \ {Pick(s)}]
      <4> HIDE DEF Small, h
      <4> QED  BY <3>3, <3>4
    <3>6. \A s \in Small(m) : (IF s = {} THEN 0 ELSE f[Pick(s)] + g[s \ {Pick(s)}])
                              = (IF s = {} THEN 0 ELSE f[Pick(s)] + h[s \ {Pick(s)}])
      <4> HIDE DEF Small, h
      <4> QED  BY <3>5
    <3>7. Sums(h, m)
      <4> HIDE DEF Small
      <4> QED  BY <3>6
    <3> QED  BY <2>1, <3>7
  <2> QED  BY <2>2, <2>3
<1>4. PICK g : Sums(g, Cardinality(X))
  <2>1. Cardinality(X) \in Nat
    BY FS_CardinalityType
  <2> QED  BY <1>3, <2>1
<1>5. Small(Cardinality(X)) = SUBSET X
  BY <1>1
<1>6. Summing(g, f, X)
  <2> HIDE DEF Small
  <2> QED  BY <1>4, <1>5 DEF Summing
<1> QED  BY <1>6

\* The sum is the value for the whole of any such function.
LEMMA SumIs ==
    ASSUME NEW X, IsFiniteSet(X), NEW f
    PROVE  \E g : Summing(g, f, X) /\ SumFunctionOnSet(f, X) = g[X]
<1> DEFINE g == CHOOSE g : Summing(g, f, X)
<1>1. Summing(g, f, X)
  BY SummingExists
<1>2. SumFunctionOnSet(f, X) = g[X]
  BY DEF SumFunctionOnSet, FoldFunctionOnSet, MapThenFoldSet, Summing, Pick
<1> QED  BY <1>1, <1>2

\* Whatever element is taken out first.
LEMMA SummingAny ==
    ASSUME NEW X, IsFiniteSet(X), NEW f, \A x \in X : f[x] \in Int, NEW g, Summing(g, f, X)
    PROVE  \A s \in SUBSET X : /\ g[s] \in Int
                               /\ \A x \in s : g[s] = f[x] + g[s \ {x}]
<1> DEFINE Same(s) == g[s] \in Int /\ \A x \in s : g[s] = f[x] + g[s \ {x}]
           Bad == {s \in SUBSET X : ~Same(s)}
           Counts == {Cardinality(s) : s \in Bad}
<1> SUFFICES ASSUME Bad # {} PROVE FALSE
  OBVIOUS
<1>1. \A T \in SUBSET X : IsFiniteSet(T) /\ Cardinality(T) \in Nat
  BY FS_Subset, FS_CardinalityType
<1>2. \A s \in SUBSET X : g[s] = IF s = {} THEN 0 ELSE f[Pick(s)] + g[s \ {Pick(s)}]
  BY Zenon DEF Summing
<1>3. PICK s \in Bad : \A t \in Bad : Cardinality(s) <= Cardinality(t)
  <2>1. Counts \subseteq Nat /\ Counts # {}
    BY <1>1
  <2>2. PICK m \in Counts : \A n \in Counts : m <= n
    <3> HIDE DEF Counts
    <3> QED  BY <2>1, LeastNumber
  <2> HIDE DEF Bad
  <2> QED  BY <2>2
<1>4. s \in SUBSET X /\ ~Same(s)
  BY <1>3
<1>5. \A t \in SUBSET X : \A y \in t :
          /\ t \ {y} \in SUBSET X /\ Cardinality(t) \in Nat
          /\ Cardinality(t \ {y}) = Cardinality(t) - 1
  BY <1>1, FS_RemoveElement
<1>6. \A t \in SUBSET X : Cardinality(t) < Cardinality(s) => t \notin Bad
  <2> HIDE DEF Bad
  <2> QED  BY <1>1, <1>3, <1>4
<1>7. \A t \in SUBSET X : Cardinality(t) < Cardinality(s) =>
          g[t] \in Int /\ \A x \in t : g[t] = f[x] + g[t \ {x}]
  BY <1>6
<1>8. CASE s = {}
  <2>1. g[s] = 0 /\ \A x \in s : FALSE
    BY <1>2, <1>4, <1>8
  <2> QED  BY <1>4, <2>1
<1>9. CASE s # {}
  <2> DEFINE p == Pick(s)
  <2>1. p \in s /\ g[s] = f[p] + g[s \ {p}]
    BY <1>2, <1>4, <1>9, PickIsMember
  <2> HIDE DEF p
  <2>2. f[p] \in Int /\ g[s \ {p}] \in Int
        /\ \A x \in s \ {p} : g[s \ {p}] = f[x] + g[(s \ {p}) \ {x}]
    <3>1. s \ {p} \in SUBSET X /\ Cardinality(s \ {p}) < Cardinality(s)
      BY <1>4, <1>5, <2>1
    <3> QED  BY <1>4, <1>7, <2>1, <3>1
  <2>3. ASSUME NEW x \in s, x # p PROVE g[s] = f[x] + g[s \ {x}]
    <3>1. /\ s \ {x} \in SUBSET X /\ Cardinality(s \ {x}) < Cardinality(s)
          /\ p \in s \ {x} /\ f[x] \in Int
      BY <1>4, <1>5, <2>1, <2>3
    <3>2. g[s \ {x}] = f[p] + g[(s \ {x}) \ {p}]
      BY <1>7, <3>1
    <3>3. (s \ {p}) \ {x} = (s \ {x}) \ {p}
      OBVIOUS
    <3>4. (s \ {x}) \ {p} \in SUBSET X /\ Cardinality((s \ {x}) \ {p}) < Cardinality(s)
      <4>1. /\ (s \ {x}) \ {p} \in SUBSET X /\ Cardinality(s \ {x}) \in Nat
            /\ Cardinality((s \ {x}) \ {p}) = Cardinality(s \ {x}) - 1
        BY <1>5, <3>1
      <4>2. Cardinality(s) \in Nat
        BY <1>1, <1>4
      <4> QED  BY <3>1, <4>1, <4>2
    <3>5. g[(s \ {x}) \ {p}] \in Int
      BY <1>7, <3>4
    <3>6. g[s \ {p}] = f[x] + g[(s \ {x}) \ {p}]
      BY <2>2, <2>3, <3>3
    <3> QED  BY <2>1, <2>2, <3>1, <3>2, <3>5, <3>6
  <2>4. g[s] \in Int
    BY <2>1, <2>2
  <2>5. \A x \in s : g[s] = f[x] + g[s \ {x}]
    BY <2>1, <2>3
  <2> QED  BY <1>4, <2>4, <2>5
<1> QED  BY <1>8, <1>9

\* The functions for a set and for a part of it agree on that part.
LEMMA SummingPart ==
    ASSUME NEW X, IsFiniteSet(X), NEW T \in SUBSET X, NEW f, NEW g, NEW h,
           \A x \in X : f[x] \in Int, Summing(g, f, X), Summing(h, f, T)
    PROVE  h[T] = g[T]
<1> DEFINE Good == {s \in SUBSET T : h[s] = g[s]}
<1>1. IsFiniteSet(T)
  BY FS_Subset
<1>2. {} \in Good
  <2>1. g[{}] = 0 /\ h[{}] = 0
    BY DEF Summing
  <2> QED  BY <2>1
<1>3. ASSUME NEW s \in SUBSET T, NEW x \in T \ s, s \in Good PROVE s \cup {x} \in Good
  <2>1. s \cup {x} \in SUBSET T /\ s \cup {x} \in SUBSET X /\ x \in s \cup {x}
        /\ (s \cup {x}) \ {x} = s
    BY <1>3
  <2>2. g[s \cup {x}] = f[x] + g[s]
    BY <2>1, SummingAny
  <2>3. \A y \in T : f[y] \in Int
    OBVIOUS
  <2>4. h[s \cup {x}] = f[x] + h[s]
    BY <1>1, <2>1, <2>3, SummingAny
  <2> QED  BY <1>3, <2>1, <2>2, <2>4
<1>4. T \in Good
  <2> HIDE DEF Good
  <2> QED  BY <1>1, <1>2, <1>3, SetInduction
<1> QED  BY <1>4

LEMMA SumEmpty == \A f : SumFunctionOnSet(f, {}) = 0
<1> SUFFICES ASSUME NEW f PROVE SumFunctionOnSet(f, {}) = 0
  OBVIOUS
<1>1. PICK g : Summing(g, f, {}) /\ SumFunctionOnSet(f, {}) = g[{}]
  BY SumIs, FS_EmptySet
<1> QED  BY <1>1 DEF Summing

LEMMA SumRemoves ==
    ASSUME NEW X, IsFiniteSet(X), NEW f, \A x \in X : f[x] \in Int
    PROVE  /\ SumFunctionOnSet(f, X) \in Int
           /\ \A x \in X : SumFunctionOnSet(f, X) = f[x] + SumFunctionOnSet(f, X \ {x})
<1>1. PICK g : Summing(g, f, X) /\ SumFunctionOnSet(f, X) = g[X]
  BY SumIs
<1>2. ASSUME NEW x \in X PROVE SumFunctionOnSet(f, X \ {x}) = g[X \ {x}]
  <2>1. IsFiniteSet(X \ {x})
    BY FS_RemoveElement
  <2>2. PICK h : Summing(h, f, X \ {x}) /\ SumFunctionOnSet(f, X \ {x}) = h[X \ {x}]
    BY <2>1, SumIs
  <2> QED  BY <1>1, <2>2, SummingPart
<1>3. X \in SUBSET X
  OBVIOUS
<1>4. g[X] \in Int /\ \A x \in X : g[X] = f[x] + g[X \ {x}]
  BY <1>1, <1>3, SummingAny
<1> QED  BY <1>1, <1>2, <1>4

\* One more element.
LEMMA SumAdds ==
    ASSUME NEW X, IsFiniteSet(X), NEW y, y \notin X, NEW f, \A x \in X \cup {y} : f[x] \in Int
    PROVE  SumFunctionOnSet(f, X \cup {y}) = SumFunctionOnSet(f, X) + f[y]
<1>1. IsFiniteSet(X \cup {y}) /\ (X \cup {y}) \ {y} = X /\ y \in X \cup {y}
  BY FS_AddElement
<1>2. SumFunctionOnSet(f, X \cup {y}) = f[y] + SumFunctionOnSet(f, X)
  BY <1>1, SumRemoves
<1>3. SumFunctionOnSet(f, X) \in Int
  BY SumRemoves
<1> QED  BY <1>2, <1>3

LEMMA SumNat ==
    ASSUME NEW X, IsFiniteSet(X), NEW f, \A x \in X : f[x] \in Nat
    PROVE  SumFunctionOnSet(f, X) \in Nat
<1> DEFINE Good == {T \in SUBSET X : SumFunctionOnSet(f, T) \in Nat}
<1>1. {} \in Good
  BY SumEmpty
<1>2. ASSUME NEW T \in SUBSET X, NEW x \in X \ T, T \in Good PROVE T \cup {x} \in Good
  <2>0. IsFiniteSet(T) /\ \A z \in T \cup {x} : f[z] \in Int
    BY FS_Subset
  <2>1. SumFunctionOnSet(f, T \cup {x}) = SumFunctionOnSet(f, T) + f[x]
    BY <2>0, SumAdds
  <2> QED  BY <1>2, <2>1
<1>3. X \in Good
  <2> HIDE DEF Good
  <2> QED  BY <1>1, <1>2, SetInduction
<1> QED  BY <1>3

\* Only the values on the set matter.
LEMMA SumAgrees ==
    ASSUME NEW X, IsFiniteSet(X), NEW f, NEW h, \A x \in X : f[x] \in Int /\ h[x] = f[x]
    PROVE  SumFunctionOnSet(h, X) = SumFunctionOnSet(f, X)
<1> DEFINE Good == {T \in SUBSET X : SumFunctionOnSet(h, T) = SumFunctionOnSet(f, T)}
<1>1. {} \in Good
  BY SumEmpty
<1>2. ASSUME NEW T \in SUBSET X, NEW x \in X \ T, T \in Good PROVE T \cup {x} \in Good
  <2>0. IsFiniteSet(T)
    BY FS_Subset
  <2>1. SumFunctionOnSet(f, T \cup {x}) = SumFunctionOnSet(f, T) + f[x]
    BY <2>0, SumAdds
  <2>2. SumFunctionOnSet(h, T \cup {x}) = SumFunctionOnSet(h, T) + h[x]
    BY <2>0, SumAdds
  <2> QED  BY <1>2, <2>1, <2>2
<1>3. X \in Good
  <2> HIDE DEF Good
  <2> QED  BY <1>1, <1>2, SetInduction
<1> QED  BY <1>3

LEMMA SumZero ==
    ASSUME NEW X, IsFiniteSet(X), NEW f, \A x \in X : f[x] = 0
    PROVE  SumFunctionOnSet(f, X) = 0
<1> DEFINE Good == {T \in SUBSET X : SumFunctionOnSet(f, T) = 0}
<1>1. {} \in Good
  BY SumEmpty
<1>2. ASSUME NEW T \in SUBSET X, NEW x \in X \ T, T \in Good PROVE T \cup {x} \in Good
  <2>0. IsFiniteSet(T) /\ \A z \in T \cup {x} : f[z] \in Int
    BY FS_Subset
  <2>1. SumFunctionOnSet(f, T \cup {x}) = SumFunctionOnSet(f, T) + f[x]
    BY <2>0, SumAdds
  <2> QED  BY <1>2, <2>1
<1>3. X \in Good
  <2> HIDE DEF Good
  <2> QED  BY <1>1, <1>2, SetInduction
<1> QED  BY <1>3

\* A change at one place changes the sum by as much.
LEMMA SumBumps ==
    ASSUME NEW X, IsFiniteSet(X), NEW c \in X, NEW v \in Int, NEW f, NEW h,
           \A x \in X : f[x] \in Int, h[c] = f[c] + v, \A x \in X \ {c} : h[x] = f[x]
    PROVE  SumFunctionOnSet(h, X) = SumFunctionOnSet(f, X) + v
<1>1. IsFiniteSet(X \ {c}) /\ \A x \in X : h[x] \in Int
  BY FS_RemoveElement
<1>2. SumFunctionOnSet(h, X \ {c}) = SumFunctionOnSet(f, X \ {c})
  BY <1>1, SumAgrees
<1>3. /\ SumFunctionOnSet(f, X) = f[c] + SumFunctionOnSet(f, X \ {c})
      /\ SumFunctionOnSet(h, X) = h[c] + SumFunctionOnSet(h, X \ {c})
      /\ SumFunctionOnSet(f, X \ {c}) \in Int
  BY <1>1, SumRemoves
<1> QED  BY <1>2, <1>3

\* The sums of the classes add up to the sum of all.
LEMMA SumByClass ==
    ASSUME NEW X, IsFiniteSet(X), NEW C, IsFiniteSet(C), NEW key, NEW f,
           \A x \in X : f[x] \in Int /\ key[x] \in C
    PROVE  SumFunctionOnSet([k \in C |-> SumFunctionOnSet(f, {x \in X : key[x] = k})], C)
               = SumFunctionOnSet(f, X)
<1> DEFINE By(T) == [k \in C |-> SumFunctionOnSet(f, {x \in T : key[x] = k})]
           Good == {T \in SUBSET X : SumFunctionOnSet(By(T), C) = SumFunctionOnSet(f, T)}
<1>1. {} \in Good
  <2>1. \A k \in C : {x \in {} : key[x] = k} = {}
    OBVIOUS
  <2>2. \A k \in C : By({})[k] = 0
    BY <2>1, SumEmpty
  <2>3. SumFunctionOnSet(By({}), C) = 0
    <3> HIDE DEF By
    <3> QED  BY <2>2, SumZero
  <2> QED  BY <2>3, SumEmpty
<1>2. ASSUME NEW T \in SUBSET X, NEW y \in X \ T, T \in Good PROVE T \cup {y} \in Good
  <2>1. IsFiniteSet(T)
    BY FS_Subset
  <2>2. SumFunctionOnSet(f, T \cup {y}) = SumFunctionOnSet(f, T) + f[y]
    BY <2>1, SumAdds
  <2>3. \A k \in C : /\ IsFiniteSet({x \in T : key[x] = k})
                     /\ {x \in T : key[x] = k} \in SUBSET X
    BY <2>1, FS_Subset
  <2>4. \A k \in C : By(T)[k] = SumFunctionOnSet(f, {x \in T : key[x] = k})
    OBVIOUS
  <2>5. \A k \in C : By(T)[k] \in Int
    BY <2>3, <2>4, SumRemoves
  <2>6. \A k \in C : By(T \cup {y})[k] = SumFunctionOnSet(f, {x \in T \cup {y} : key[x] = k})
    OBVIOUS
  <2>7. ASSUME NEW k \in C \ {key[y]} PROVE By(T \cup {y})[k] = By(T)[k]
    <3>1. {x \in T \cup {y} : key[x] = k} = {x \in T : key[x] = k}
      BY <2>7
    <3> QED  BY <2>4, <2>6, <3>1
  <2>8. By(T \cup {y})[key[y]] = By(T)[key[y]] + f[y]
    <3> DEFINE mine == {x \in T : key[x] = key[y]}
    <3>1. {x \in T \cup {y} : key[x] = key[y]} = mine \cup {y} /\ y \notin mine
      OBVIOUS
    <3>2. IsFiniteSet(mine) /\ \A x \in mine \cup {y} : f[x] \in Int
      BY <2>3
    <3>3. SumFunctionOnSet(f, mine \cup {y}) = SumFunctionOnSet(f, mine) + f[y]
      <4> HIDE DEF mine
      <4> QED  BY <3>1, <3>2, SumAdds
    <3> QED  BY <2>4, <2>6, <3>1, <3>3
  <2>9. SumFunctionOnSet(By(T \cup {y}), C) = SumFunctionOnSet(By(T), C) + f[y]
    <3> DEFINE g == By(T)
               h == By(T \cup {y})
    <3>1. \A k \in C : g[k] \in Int
      BY <2>5
    <3>2. \A k \in C \ {key[y]} : h[k] = g[k]
      BY <2>7
    <3>3. h[key[y]] = g[key[y]] + f[y]
      BY <2>8
    <3>4. key[y] \in C /\ f[y] \in Int
      OBVIOUS
    <3> HIDE DEF g, h
    <3>5. SumFunctionOnSet(h, C) = SumFunctionOnSet(g, C) + f[y]
      BY <3>1, <3>2, <3>3, <3>4, SumBumps
    <3> QED  BY <3>5 DEF g, h
  <2> QED  BY <1>2, <2>2, <2>9
<1>3. X \in Good
  <2> HIDE DEF Good
  <2> QED  BY <1>1, <1>2, SetInduction
<1> QED  BY <1>3

\* A set counts as many elements as it adds up ones.
LEMMA SumOfOnes ==
    ASSUME NEW X, IsFiniteSet(X), NEW f, \A x \in X : f[x] = 1
    PROVE  SumFunctionOnSet(f, X) = Cardinality(X)
<1> DEFINE Good == {T \in SUBSET X : SumFunctionOnSet(f, T) = Cardinality(T)}
<1>1. {} \in Good
  BY SumEmpty, FS_EmptySet
<1>2. ASSUME NEW T \in SUBSET X, NEW x \in X \ T, T \in Good PROVE T \cup {x} \in Good
  <2>0. IsFiniteSet(T) /\ \A z \in T \cup {x} : f[z] \in Int /\ f[x] = 1
    BY FS_Subset
  <2>1. SumFunctionOnSet(f, T \cup {x}) = SumFunctionOnSet(f, T) + f[x]
    BY <2>0, SumAdds
  <2>2. Cardinality(T \cup {x}) = Cardinality(T) + 1
    BY <2>0, FS_AddElement
  <2> QED  BY <1>2, <2>0, <2>1, <2>2
<1>3. X \in Good
  <2> HIDE DEF Good
  <2> QED  BY <1>1, <1>2, SetInduction
<1> QED  BY <1>3

LEMMA CountByClass ==
    ASSUME NEW X, IsFiniteSet(X), NEW C, IsFiniteSet(C), NEW key, \A x \in X : key[x] \in C
    PROVE  SumFunctionOnSet([k \in C |-> Cardinality({x \in X : key[x] = k})], C)
               = Cardinality(X)
<1> DEFINE f == [x \in X |-> 1]
<1>1. \A T \in SUBSET X : SumFunctionOnSet(f, T) = Cardinality(T)
  <2>1. \A T \in SUBSET X : IsFiniteSet(T) /\ \A x \in T : f[x] = 1
    BY FS_Subset
  <2> HIDE DEF f
  <2> QED  BY <2>1, SumOfOnes
<1>2. \A k \in C : {x \in X : key[x] = k} \in SUBSET X
  OBVIOUS
<1>3. [k \in C |-> Cardinality({x \in X : key[x] = k})]
        = [k \in C |-> SumFunctionOnSet(f, {x \in X : key[x] = k})]
  <2> HIDE DEF f
  <2> QED  BY <1>1, <1>2
<1>4. \A x \in X : f[x] \in Int /\ key[x] \in C
  OBVIOUS
<1> HIDE DEF f
<1>5. SumFunctionOnSet([k \in C |-> SumFunctionOnSet(f, {x \in X : key[x] = k})], C)
        = SumFunctionOnSet(f, X)
  BY <1>4, SumByClass
<1> QED  BY <1>1, <1>3, <1>5

LEMMA ImageFinite ==
    ASSUME NEW X, IsFiniteSet(X), NEW f
    PROVE  IsFiniteSet({f[x] : x \in X})
<1> DEFINE T == {f[x] : x \in X}
           g == [x \in X |-> f[x]]
<1>1. g \in Surjection(X, T)
  BY DEF Surjection
<1> HIDE DEF T, g
<1>2. IsFiniteSet(T)
  BY <1>1, FS_Surjection
<1> QED  BY <1>2 DEF T

\* What is left out and what is kept add up.
LEMMA SumSplits ==
    ASSUME NEW X, IsFiniteSet(X), NEW T \in SUBSET X, NEW f, \A x \in X : f[x] \in Int
    PROVE  SumFunctionOnSet(f, X) = SumFunctionOnSet(f, X \ T) + SumFunctionOnSet(f, T)
<1> DEFINE Good == {U \in SUBSET T : SumFunctionOnSet(f, (X \ T) \cup U)
                          = SumFunctionOnSet(f, X \ T) + SumFunctionOnSet(f, U)}
<1>0. /\ IsFiniteSet(T) /\ IsFiniteSet(X \ T)
      /\ \A U \in SUBSET T : IsFiniteSet(U) /\ IsFiniteSet((X \ T) \cup U)
  BY FS_Subset
<1>1. {} \in Good
  <2>1. SumFunctionOnSet(f, X \ T) \in Int /\ (X \ T) \cup {} = X \ T
    BY <1>0, SumRemoves
  <2> QED  BY <2>1, SumEmpty
<1>2. ASSUME NEW U \in SUBSET T, NEW x \in T \ U, U \in Good PROVE U \cup {x} \in Good
  <2>1. SumFunctionOnSet(f, U \cup {x}) = SumFunctionOnSet(f, U) + f[x]
    BY <1>0, SumAdds
  <2>2. ((X \ T) \cup U) \cup {x} = (X \ T) \cup (U \cup {x}) /\ x \notin (X \ T) \cup U
        /\ \A y \in ((X \ T) \cup U) \cup {x} : f[y] \in Int
    OBVIOUS
  <2>3. SumFunctionOnSet(f, ((X \ T) \cup U) \cup {x})
          = SumFunctionOnSet(f, (X \ T) \cup U) + f[x]
    BY <1>0, <2>2, SumAdds
  <2>4. SumFunctionOnSet(f, X \ T) \in Int /\ SumFunctionOnSet(f, U) \in Int /\ f[x] \in Int
    BY <1>0, SumRemoves
  <2>5. SumFunctionOnSet(f, (X \ T) \cup U) = SumFunctionOnSet(f, X \ T) + SumFunctionOnSet(f, U)
    BY <1>2
  <2>6. SumFunctionOnSet(f, (X \ T) \cup (U \cup {x}))
          = SumFunctionOnSet(f, X \ T) + SumFunctionOnSet(f, U \cup {x})
    <3>1. SumFunctionOnSet(f, (X \ T) \cup (U \cup {x}))
            = SumFunctionOnSet(f, ((X \ T) \cup U) \cup {x})
      BY <2>2
    <3> QED  BY <2>1, <2>3, <2>4, <2>5, <3>1
  <2> QED  BY <2>6
<1>3. T \in Good
  <2> HIDE DEF Good
  <2> QED  BY <1>0, <1>1, <1>2, SetInduction
<1>4. (X \ T) \cup T = X
  OBVIOUS
<1> QED  BY <1>3, <1>4

-----------------------------------------------------------------------------
(* Prices: what a turn costs *)

LEMMA Division ==
    ASSUME NEW x \in Nat, NEW y \in Nat \ {0}
    PROVE  /\ x \div y \in Nat /\ (x \div y) * y <= x /\ x < (x \div y + 1) * y
OBVIOUS

\* What lies below the limit, of an amount and of a total that grow.
LEMMA BelowBounds ==
    ASSUME NEW a \in Nat, NEW t \in Nat, a <= t, NEW l \in Nat, l < t, l > 0
    PROVE  P!Below(a, t, l) \in Nat /\ P!Below(a, t, l) <= a /\ P!Below(a, t, l) <= l
<1> DEFINE b == (a * l) \div t
<1>1. a * l \in Nat /\ t \in Nat \ {0}
  OBVIOUS
<1>2. b \in Nat /\ b * t <= a * l
  BY <1>1, Division
<1> HIDE DEF b
<1>3. a * l <= a * t /\ a * l <= t * l
  OBVIOUS
<1>4. b * t <= a * t /\ b * t <= l * t
  BY <1>1, <1>2, <1>3
<1>5. \A n \in Nat : b * t <= n * t => b <= n
  <2> SUFFICES ASSUME NEW n \in Nat, b > n PROVE b * t > n * t
    BY <1>2
  <2>1. b - n \in Nat \ {0} /\ b * t = n * t + (b - n) * t
    BY <1>2
  <2>2. (b - n) * t >= t
    BY <2>1
  <2> QED  BY <2>1, <2>2, <1>2
<1> QED  BY <1>2, <1>4, <1>5 DEF P!Below, b

LEMMA BelowGrows ==
    ASSUME NEW a \in Nat, NEW t \in Nat, a <= t, NEW l \in Nat, l < t, l > 0
    PROVE  /\ P!Below(a + 1, t + 1, l) \in {P!Below(a, t, l), P!Below(a, t, l) + 1}
           /\ P!Below(a, t + 1, l) <= P!Below(a, t, l)
<1> DEFINE b == (a * l) \div t
           c == ((a + 1) * l) \div (t + 1)
           d == (a * l) \div (t + 1)
<1>1. /\ b \in Nat /\ b * t <= a * l /\ a * l < (b + 1) * t
      /\ c \in Nat /\ c * (t + 1) <= (a + 1) * l /\ (a + 1) * l < (c + 1) * (t + 1)
      /\ d \in Nat /\ d * (t + 1) <= a * l
  <2>1. a * l \in Nat /\ (a + 1) * l \in Nat /\ t \in Nat \ {0} /\ t + 1 \in Nat \ {0}
    OBVIOUS
  <2> QED  BY <2>1, Division
<1>2. b <= l
  BY BelowBounds DEF P!Below
<1> HIDE DEF b, c, d
<1>3. ~(c >= b + 2)
  <2> SUFFICES ASSUME c >= b + 2 PROVE FALSE
    OBVIOUS
  <2>1. (b + 2) * (t + 1) <= c * (t + 1)
    BY <1>1
  <2>2. (b + 2) * (t + 1) = (b + 1) * t + b + t + 2 /\ (a + 1) * l = a * l + l
    BY <1>1
  <2> QED  BY <1>1, <2>1, <2>2
<1>4. ~(c < b)
  <2> SUFFICES ASSUME c + 1 <= b PROVE FALSE
    BY <1>1
  <2>1. (c + 1) * (t + 1) <= b * (t + 1)
    BY <1>1
  <2>2. b * (t + 1) = b * t + b /\ (a + 1) * l = a * l + l
    BY <1>1
  <2> QED  BY <1>1, <1>2, <2>1, <2>2
<1>5. ~(d > b)
  <2> SUFFICES ASSUME d >= b + 1 PROVE FALSE
    BY <1>1
  <2>1. (b + 1) * (t + 1) <= d * (t + 1)
    BY <1>1
  <2>2. (b + 1) * (t + 1) = (b + 1) * t + b + 1
    BY <1>1
  <2> QED  BY <1>1, <2>1, <2>2
<1>6. c \in {b, b + 1} /\ d <= b
  BY <1>1, <1>3, <1>4, <1>5
<1> QED  BY <1>6 DEF P!Below, b, c, d

\* A part split at the limit, when it or what is below the limit changes.
LEMMA SplitGrows ==
    ASSUME NEW a \in Nat, NEW b \in Nat, b <= a, NEW r \in Nat, NEW k \in Nat, k > 0
    PROVE  LET Split(x, y) == y * r + (x - y) * r * k IN
           /\ a * r <= Split(a, b)
           /\ \A c \in {b, b + 1} : Split(a, b) <= Split(a + 1, c)
           /\ \A c \in Nat : c <= b => Split(a, b) <= Split(a, c)
<1> DEFINE Split(x, y) == y * r + (x - y) * r * k
<1>1. \A n \in Nat : n * r \in Nat /\ n * r <= n * r * k
  <2> SUFFICES ASSUME NEW n \in Nat PROVE n * r \in Nat /\ n * r <= n * r * k
    OBVIOUS
  <2>1. n * r \in Nat
    OBVIOUS
  <2>2. \A m \in Nat : m <= m * k
    OBVIOUS
  <2> QED  BY <2>1, <2>2
<1>2. a * r <= Split(a, b)
  <2>1. a - b \in Nat /\ a * r = b * r + (a - b) * r
    OBVIOUS
  <2>2. b * r \in Nat /\ (a - b) * r * k \in Nat
    BY <2>1
  <2> QED  BY <1>1, <2>1, <2>2
<1>3. Split(a, b) <= Split(a + 1, b)
  <2>1. a - b \in Nat /\ (a + 1 - b) * r = (a - b) * r + r
    OBVIOUS
  <2>2. \A m \in Nat : (m + r) * k = m * k + r * k /\ r * k \in Nat
    OBVIOUS
  <2>3. (a - b) * r \in Nat /\ b * r \in Nat /\ (a - b) * r * k \in Nat
    BY <2>1
  <2> QED  BY <2>1, <2>2, <2>3
<1>4. Split(a, b) <= Split(a + 1, b + 1)
  <2>1. (a + 1) - (b + 1) = a - b /\ a - b \in Nat /\ (b + 1) * r = b * r + r
    OBVIOUS
  <2>2. b * r \in Nat /\ (a - b) * r \in Nat /\ (a - b) * r * k \in Nat
    BY <2>1
  <2> QED  BY <2>1, <2>2
<1>5. ASSUME NEW c \in Nat, c <= b PROVE Split(a, b) <= Split(a, c)
  <2>1. b - c \in Nat /\ a - b \in Nat /\ a - c \in Nat
        /\ (a - c) * r = (a - b) * r + (b - c) * r /\ b * r = c * r + (b - c) * r
    BY <1>5
  <2>2. (a - b) * r \in Nat /\ (b - c) * r \in Nat /\ c * r \in Nat
    BY <2>1
  <2>3. \A m, n \in Nat : (m + n) * k = m * k + n * k /\ m * k \in Nat
    OBVIOUS
  <2>4. (b - c) * r <= (b - c) * r * k
    BY <1>1, <2>1
  <2> QED  BY <2>1, <2>2, <2>3, <2>4
<1> QED  BY <1>2, <1>3, <1>4, <1>5

LEMMA PartGrows ==
    ASSUME NEW a \in Nat, NEW t \in Nat, a <= t, NEW p, P!Sound(p), NEW r \in Nat
    PROVE  /\ P!Part(a, t, r, p) \in Nat
           /\ P!Part(a, t, r, p) <= P!Part(a + 1, t + 1, r, p)
           /\ P!Part(a, t, r, p) <= P!Part(a, t + 1, r, p)
<1> DEFINE l == p.limit
           k == p.above
           Split(x, y) == y * r + (x - y) * r * k
<1>1. l \in Nat /\ k \in Nat /\ (l = 0 \/ k > 0)
  BY DEF P!Sound
<1>2. \A x, u : P!Part(x, u, r, p) = IF l = 0 \/ u <= l THEN x * r
                                     ELSE Split(x, P!Below(x, u, l))
  BY DEF P!Part
<1> HIDE DEF l, k
<1>3. a * r \in Nat /\ a * r <= (a + 1) * r
  OBVIOUS
<1>4. CASE l = 0 \/ t + 1 <= l
  <2>1. /\ P!Part(a, t, r, p) = a * r /\ P!Part(a, t + 1, r, p) = a * r
        /\ P!Part(a + 1, t + 1, r, p) = (a + 1) * r
    BY <1>1, <1>2, <1>4
  <2> QED  BY <1>3, <2>1
<1>5. CASE l # 0 /\ t = l
  <2>1. /\ P!Part(a, t, r, p) = a * r
        /\ P!Part(a, t + 1, r, p) = Split(a, P!Below(a, t + 1, l))
        /\ P!Part(a + 1, t + 1, r, p) = Split(a + 1, P!Below(a + 1, t + 1, l))
    BY <1>1, <1>2, <1>5
  <2>2. /\ P!Below(a, t + 1, l) \in Nat /\ P!Below(a, t + 1, l) <= a
        /\ P!Below(a + 1, t + 1, l) \in Nat /\ P!Below(a + 1, t + 1, l) <= a + 1
    BY <1>1, <1>5, BelowBounds
  <2>3. a * r <= Split(a, P!Below(a, t + 1, l))
    BY <1>1, <1>5, <2>2, SplitGrows
  <2>4. (a + 1) * r <= Split(a + 1, P!Below(a + 1, t + 1, l))
    BY <1>1, <1>5, <2>2, SplitGrows
  <2>5. \A x, y \in Nat : y <= x => Split(x, y) \in Int
    BY <1>1
  <2>6. /\ Split(a, P!Below(a, t + 1, l)) \in Int
        /\ Split(a + 1, P!Below(a + 1, t + 1, l)) \in Int
    <3> HIDE DEF Split
    <3> QED  BY <2>2, <2>5
  <2> HIDE DEF Split
  <2> QED  BY <1>3, <2>1, <2>3, <2>4, <2>6
<1>6. CASE l # 0 /\ l < t
  <2> DEFINE b == P!Below(a, t, l)
  <2>1. /\ P!Part(a, t, r, p) = Split(a, b)
        /\ P!Part(a, t + 1, r, p) = Split(a, P!Below(a, t + 1, l))
        /\ P!Part(a + 1, t + 1, r, p) = Split(a + 1, P!Below(a + 1, t + 1, l))
    BY <1>1, <1>2, <1>6
  <2>2. /\ b \in Nat /\ b <= a /\ P!Below(a, t + 1, l) \in Nat
    BY <1>1, <1>6, BelowBounds
  <2>3. /\ P!Below(a + 1, t + 1, l) \in {b, b + 1} /\ P!Below(a, t + 1, l) <= b
    BY <1>1, <1>6, BelowGrows
  <2> HIDE DEF b
  <2>4. /\ Split(a, b) <= Split(a + 1, P!Below(a + 1, t + 1, l))
        /\ Split(a, b) <= Split(a, P!Below(a, t + 1, l))
    BY <1>1, <1>6, <2>2, <2>3, SplitGrows
  <2>5. Split(a, b) \in Nat
    <3>1. a - b \in Nat
      BY <2>2
    <3>2. b * r \in Nat /\ (a - b) * r * k \in Nat
      BY <1>1, <2>2, <3>1
    <3> QED  BY <3>2
  <2> QED  BY <2>1, <2>4, <2>5
<1> QED  BY <1>1, <1>4, <1>5, <1>6

\* One more token in or out.
LEMMA CostMonotonic ==
    ASSUME NEW p, P!Sound(p), NEW u \in [in : Nat, out : Nat]
    PROVE  /\ P!CalcCost(p, u) <= P!CalcCost(p, [u EXCEPT !.in = @ + 1])
           /\ P!CalcCost(p, u) <= P!CalcCost(p, [u EXCEPT !.out = @ + 1])
<1> DEFINE i == u.in
           o == u.out
<1>1. i \in Nat /\ o \in Nat /\ p.in \in Nat /\ p.out \in Nat
  BY DEF P!Sound
<1>2. /\ P!CalcCost(p, u) = P!Part(i, i + o, p.in, p) + P!Part(o, i + o, p.out, p)
      /\ P!CalcCost(p, [u EXCEPT !.in = @ + 1])
           = P!Part(i + 1, i + 1 + o, p.in, p) + P!Part(o, i + 1 + o, p.out, p)
      /\ P!CalcCost(p, [u EXCEPT !.out = @ + 1])
           = P!Part(i, i + (o + 1), p.in, p) + P!Part(o + 1, i + (o + 1), p.out, p)
  BY DEF P!CalcCost
<1>3. i + 1 + o = i + o + 1 /\ i + (o + 1) = i + o + 1 /\ i + o \in Nat
      /\ i <= i + o /\ o <= i + o
  BY <1>1
<1> HIDE DEF i, o
<1>4. /\ P!Part(i, i + o, p.in, p) \in Nat
      /\ P!Part(i, i + o, p.in, p) <= P!Part(i + 1, i + o + 1, p.in, p)
      /\ P!Part(i, i + o, p.in, p) <= P!Part(i, i + o + 1, p.in, p)
  BY <1>1, <1>3, PartGrows
<1>5. /\ P!Part(o, i + o, p.out, p) \in Nat
      /\ P!Part(o, i + o, p.out, p) <= P!Part(o + 1, i + o + 1, p.out, p)
      /\ P!Part(o, i + o, p.out, p) <= P!Part(o, i + o + 1, p.out, p)
  BY <1>1, <1>3, PartGrows
<1>6. /\ P!Part(i + 1, i + o + 1, p.in, p) \in Nat /\ P!Part(o + 1, i + o + 1, p.out, p) \in Nat
      /\ P!Part(i, i + o + 1, p.in, p) \in Nat /\ P!Part(o, i + o + 1, p.out, p) \in Nat
  <2> DEFINE t == i + o + 1
  <2>1. t \in Nat /\ i + 1 \in Nat /\ o + 1 \in Nat
        /\ i + 1 <= t /\ o + 1 <= t /\ i <= t /\ o <= t
    BY <1>1, <1>3
  <2> HIDE DEF t
  <2>2. /\ P!Part(i + 1, t, p.in, p) \in Nat /\ P!Part(o + 1, t, p.out, p) \in Nat
        /\ P!Part(i, t, p.in, p) \in Nat /\ P!Part(o, t, p.out, p) \in Nat
    BY <1>1, <2>1, PartGrows
  <2> QED  BY <2>2 DEF t
<1> QED  BY <1>2, <1>3, <1>4, <1>5, <1>6

-----------------------------------------------------------------------------
(* Prices: which price a turn gets *)

\* Every bounded set of numbers has a greatest one.
LEMMA GreatestNumber ==
    ASSUME NEW X, X \subseteq Nat, X # {}, NEW k \in Nat, \A n \in X : n <= k
    PROVE  \E m \in X : \A n \in X : n <= m
<1> DEFINE Bounds == {m \in Nat : \A n \in X : n <= m}
<1>1. Bounds \subseteq Nat /\ Bounds # {}
  OBVIOUS
<1>2. PICK m \in Bounds : \A n \in Bounds : m <= n
  <2> HIDE DEF Bounds
  <2> QED  BY <1>1, LeastNumber
<1>3. CASE m \in X
  BY <1>3
<1>4. CASE m \notin X
  <2>1. \A n \in X : n < m
    BY <1>4
  <2>2. PICK n \in X : m \in Nat /\ n \in Nat /\ n < m
    BY <2>1
  <2>3. m > 0 /\ m - 1 \in Bounds
    BY <2>1, <2>2
  <2> HIDE DEF Bounds
  <2> QED  BY <1>2, <2>2, <2>3
<1> QED  BY <1>3, <1>4

LEMMA PriceFacts ==
    /\ Models \subseteq Seq(STRING) /\ DOMAIN BuiltIn \subseteq Seq(STRING) \ {<<>>}
    /\ \A c \in {BuiltIn} \cup Overrides \cup Listings : \A n \in DOMAIN c : P!Sound(c[n])
    /\ \A i \in DOMAIN Families : Standard[Families[i]] \in DOMAIN BuiltIn
    /\ Families \in Seq(STRING) /\ Slugs \in Seq(STRING) \ {<<>>}
    /\ \A s \in P!Range(Slugs) : <<>> \notin Offers[s]
    /\ Amounts \subseteq [in : Nat, out : Nat] /\ PricedTurns \in Nat
BY Instances DEF P!PricesAssumption

\* Of two prefixes of a name, the shorter is one of the longer.
LEMMA PrefixOfPrefix ==
    ASSUME NEW m \in Seq(STRING), NEW n \in Seq(STRING), NEW o \in Seq(STRING),
           P!IsPrefix(n, m), P!IsPrefix(o, m), Len(o) <= Len(n)
    PROVE  P!IsPrefix(o, n)
<1>1. Len(o) <= Len(m) /\ Len(n) <= Len(m) /\ Len(o) \in Nat /\ Len(n) \in Nat /\ Len(m) \in Nat
  BY DEF P!IsPrefix
<1>2. \A i \in 1 .. Len(n) : n[i] = m[i]
  <2>1. SubSeq(n, 1, Len(n)) = SubSeq(m, 1, Len(n))
    BY DEF P!IsPrefix
  <2>2. \A i \in 1 .. Len(n) : SubSeq(n, 1, Len(n))[i] = n[i] /\ SubSeq(m, 1, Len(n))[i] = m[i]
    BY <1>1
  <2> QED  BY <2>1, <2>2
<1>3. SubSeq(o, 1, Len(o)) = SubSeq(m, 1, Len(o))
  BY DEF P!IsPrefix
<1>4. SubSeq(n, 1, Len(o)) = SubSeq(m, 1, Len(o))
  <2>1. /\ SubSeq(n, 1, Len(o)) = [i \in 1 .. Len(o) |-> n[i]]
        /\ SubSeq(m, 1, Len(o)) = [i \in 1 .. Len(o) |-> m[i]]
    BY <1>1
  <2>2. \A i \in 1 .. Len(o) : n[i] = m[i]
    BY <1>1, <1>2
  <2> QED  BY <2>1, <2>2
<1> QED  BY <1>3, <1>4 DEF P!IsPrefix

LEMMA LongestFits ==
    ASSUME NEW m \in Seq(STRING), P!Fitting(m, BuiltIn) # {}
    PROVE  /\ P!LongestPrefix(m, BuiltIn) \in DOMAIN BuiltIn
           /\ \A n \in DOMAIN BuiltIn : P!IsPrefix(n, m) =>
                P!IsPrefix(n, P!LongestPrefix(m, BuiltIn))
<1> DEFINE Fit == P!Fitting(m, BuiltIn)
           Lengths1 == {Len(n) : n \in Fit}
<1>1. \A n \in Fit : n \in Seq(STRING) /\ Len(n) \in Nat /\ Len(n) <= Len(m) /\ P!IsPrefix(n, m)
  BY PriceFacts DEF P!Fitting, P!IsPrefix
<1>2. PICK k \in Lengths1 : \A j \in Lengths1 : j <= k
  <2>1. Lengths1 \subseteq Nat /\ Lengths1 # {} /\ \A j \in Lengths1 : j <= Len(m)
    BY <1>1
  <2>2. Len(m) \in Nat
    OBVIOUS
  <2> HIDE DEF Lengths1
  <2> QED  BY <2>1, <2>2, GreatestNumber
<1>3. \E n \in Fit : \A o \in Fit : Len(o) <= Len(n)
  BY <1>2
<1>4. P!LongestPrefix(m, BuiltIn) \in Fit
      /\ \A o \in Fit : Len(o) <= Len(P!LongestPrefix(m, BuiltIn))
  BY <1>3 DEF P!LongestPrefix
<1>5. \A n \in DOMAIN BuiltIn : P!IsPrefix(n, m) => n \in Fit
  BY DEF P!Fitting
<1>6. P!LongestPrefix(m, BuiltIn) \in DOMAIN BuiltIn
  BY <1>4 DEF P!Fitting
<1> HIDE DEF Fit
<1> QED  BY <1>1, <1>4, <1>5, <1>6, PrefixOfPrefix

LEMMA FamilyIsKnown ==
    ASSUME NEW m, P!FamilyOf(m) # "none"
    PROVE  Standard[P!FamilyOf(m)] \in DOMAIN BuiltIn
<1> DEFINE in == {i \in DOMAIN Families : Families[i] \in P!Range(m)}
<1>1. in # {} /\ P!FamilyOf(m) = Families[P!Min(in)]
  BY DEF P!FamilyOf
<1>2. in \subseteq Nat
  BY PriceFacts
<1>3. PICK i \in in : \A j \in in : i <= j
  <2> HIDE DEF in
  <2> QED  BY <1>1, <1>2, LeastNumber
<1>4. P!Min(in) \in in
  <2> HIDE DEF in
  <2> QED  BY <1>3 DEF P!Min
<1> QED  BY <1>1, <1>4, PriceFacts

\* What a scan finds for a model.
LEMMA LookupSound ==
    ASSUME NEW m \in Models, P!Types
    PROVE  LET f == P!LookupPricing(m) IN
           /\ P!Sound(f.price)
           /\ m \in DOMAIN v1 => f.price = v1[m]
           /\ m \notin DOMAIN v1 => \A n \in DOMAIN BuiltIn : P!IsPrefix(n, m) =>
                f.name # <<>> /\ P!IsPrefix(n, f.name)
           /\ P!FamilyOf(m) # "none" /\ m \notin DOMAIN v1 => f.confidence # "low"
<1> DEFINE f == P!LookupPricing(m)
<1>0. v1 \in Overrides /\ v3 \in Listings \cup {<<>>}
  BY DEF P!Types
<1>1. m \in Seq(STRING) /\ \A n \in DOMAIN BuiltIn : P!IsPrefix(n, m) => n \in P!Fitting(m, BuiltIn)
  BY PriceFacts DEF P!Fitting
<1>2. CASE m \in DOMAIN v1
  <2>1. f = P!Found(v1[m], m, "high")
    BY <1>2 DEF P!LookupPricing
  <2>2. P!Sound(v1[m])
    BY <1>0, <1>2, PriceFacts
  <2> QED  BY <1>2, <2>1, <2>2 DEF P!Found
<1>3. CASE m \notin DOMAIN v1 /\ P!Fitting(m, BuiltIn) # {}
  <2> DEFINE n == P!LongestPrefix(m, BuiltIn)
  <2>1. f = P!Found(BuiltIn[n], n, "high")
    BY <1>3 DEF P!LookupPricing
  <2>2. n \in DOMAIN BuiltIn
        /\ \A o \in DOMAIN BuiltIn : P!IsPrefix(o, m) => P!IsPrefix(o, n)
    BY <1>1, <1>3, LongestFits
  <2>3. P!Sound(BuiltIn[n]) /\ n # <<>>
    BY <2>2, PriceFacts
  <2> HIDE DEF n
  <2> QED  BY <1>3, <2>1, <2>2, <2>3 DEF P!Found
<1>4. CASE m \notin DOMAIN v1 /\ P!Fitting(m, BuiltIn) = {} /\ P!FamilyOf(m) # "none"
  <2> DEFINE n == Standard[P!FamilyOf(m)]
  <2>1. f = P!Found(BuiltIn[n], n, "medium")
    BY <1>4 DEF P!LookupPricing
  <2>2. P!Sound(BuiltIn[n])
    BY <1>4, FamilyIsKnown, PriceFacts
  <2> HIDE DEF n
  <2> QED  BY <1>1, <1>4, <2>1, <2>2 DEF P!Found
<1>5. CASE m \notin DOMAIN v1 /\ P!Fitting(m, BuiltIn) = {} /\ P!FamilyOf(m) = "none"
  <2>1. f = IF m \in DOMAIN v3 THEN P!Found(v3[m], m, "low") ELSE P!Unknown
    BY <1>5 DEF P!LookupPricing
  <2>2. P!Sound(P!Price(0, 0, 0, 0))
    BY DEF P!Sound, P!Price
  <2>3. ASSUME m \in DOMAIN v3 PROVE P!Sound(v3[m])
    <3>1. v3 # <<>>
      BY <2>3
    <3> QED  BY <1>0, <2>3, <3>1, PriceFacts
  <2>4. P!Sound(f.price)
    BY <2>1, <2>2, <2>3 DEF P!Found, P!Unknown
  <2> QED  BY <1>1, <1>5, <2>4
<1> QED  BY <1>2, <1>3, <1>4, <1>5

-----------------------------------------------------------------------------
(* Prices: the pages and the catalogue *)

\* A run that failed, or turns and syncs alone, leave the rows in force.
LEMMA RunFails ==
    ASSUME v4 \in Seq(Statuses), NEW s \in P!Range(Slugs), v5' = v5,
           v4' = Append(v4, [slug |-> s, status |-> "error"])
    PROVE  P!Latest' = P!Latest
<1> DEFINE r == [slug |-> s, status |-> "error"]
<1>1. r \in Statuses
  BY DEF Statuses
<1>2. /\ Len(v4') = Len(v4) + 1 /\ v4'[Len(v4) + 1] = r /\ v4' \in Seq(Statuses)
      /\ \A i \in 1 .. Len(v4) : v4'[i] = v4[i]
  BY <1>1, AppendProperties
<1>3. /\ DOMAIN v4 = 1 .. Len(v4) /\ DOMAIN v4' = 1 .. Len(v4) + 1 /\ Len(v4) \in Nat
  BY <1>2, LenProperties
<1>4. ASSUME NEW g PROVE {i \in DOMAIN v4' : v4'[i] = [slug |-> g, status |-> "success"]}
                         = {i \in DOMAIN v4 : v4[i] = [slug |-> g, status |-> "success"]}
  <2>1. r # [slug |-> g, status |-> "success"]
    OBVIOUS
  <2>2. \A i \in DOMAIN v4' : i \in DOMAIN v4 \/ i = Len(v4) + 1
    BY <1>3
  <2> HIDE DEF r
  <2> QED  BY <1>2, <1>3, <2>1, <2>2
<1>5. \A g : P!LatestRun(g)' = P!LatestRun(g)
  BY <1>4 DEF P!LatestRun
<1> QED  BY <1>5 DEF P!Latest

\* The last good run of a page is the last run of all, if that is one of it.
LEMMA LatestIsLast ==
    ASSUME v4 \in Seq(Statuses), v4 # <<>>, NEW s,
           v4[Len(v4)] = [slug |-> s, status |-> "success"]
    PROVE  P!LatestRun(s) = Len(v4)
<1> DEFINE good == {i \in DOMAIN v4 : v4[i] = [slug |-> s, status |-> "success"]}
<1>1. Len(v4) \in good /\ good \subseteq 1 .. Len(v4) /\ Len(v4) \in Nat
  BY EmptySeq, LenProperties
<1>2. P!LatestRun(s) = P!Max(good)
  BY <1>1 DEF P!LatestRun
<1>3. \A m \in good : (\A n \in good : m >= n) => m = Len(v4)
  <2> HIDE DEF good
  <2> QED  BY <1>1
<1>4. Len(v4) \in good /\ \A n \in good : Len(v4) >= n
  <2> HIDE DEF good
  <2> QED  BY <1>1
<1> HIDE DEF good
<1> QED  BY <1>2, <1>3, <1>4 DEF P!Max

LEMMA PriceInit == P!Init => P!Inv
<1> SUFFICES ASSUME P!Init PROVE P!Inv
  OBVIOUS
<1> USE DEF P!Init
<1>1. P!Types
  <2>1. v4 \in Seq(Statuses) /\ v6 \in Seq(P!Range(v6)) /\ Len(v6) = 0 /\ DOMAIN v6 = {}
    BY EmptySeq
  <2>2. /\ v7 \in [pc : {"idle", "fetch", "models", "diff", "reprice"}, at : Nat,
                   catalog : {v7.catalog}, rows : {v7.rows}, seen : Nat]
        /\ v8 \in [changed : {v8.changed}, repriced : Nat, version : {v8.version}, runs : Nat]
    BY DEF P!Idle, P!NoSummary
  <2> QED  BY <2>1, <2>2, PriceFacts DEF P!Types, Statuses
<1>2. P!OfGoodRuns
  BY DEF P!OfGoodRuns
<1>3. v7.pc = "idle" /\ v8.version = {}
  BY DEF P!Idle, P!NoSummary
<1>4. P!Reading /\ P!Repricing
  BY <1>3 DEF P!Reading, P!Repricing
<1>5. P!ScannedRight
  BY DEF P!ScannedRight
<1> QED  BY <1>1, <1>2, <1>4, <1>5 DEF P!Inv

\* The rows, the runs and the turns as they were.
LEMMA PricesStay ==
    ASSUME P!Inv, v4' = v4, v5' = v5
    PROVE  P!OfGoodRuns' /\ P!Latest' = P!Latest /\ P!EffectiveCatalog' = P!EffectiveCatalog
           /\ \A s : P!LatestRun(s)' = P!LatestRun(s)
<1>1. \A s : P!LatestRun(s)' = P!LatestRun(s)
  BY DEF P!LatestRun
<1>2. P!Latest' = P!Latest
  BY <1>1 DEF P!Latest
<1>3. P!EffectiveCatalog' = P!EffectiveCatalog
  BY <1>2 DEF P!EffectiveCatalog
<1> QED  BY <1>1, <1>2, <1>3 DEF P!Inv, P!OfGoodRuns

LEMMA TurnsStay ==
    ASSUME P!Inv, v1' = v1, v6' = v6
    PROVE  P!ScannedRight'
BY DEF P!Inv, P!ScannedRight, P!PricedBest

LEMMA RepricedStays ==
    ASSUME P!Inv, v4' = v4, v5' = v5, v8'.version = v8.version, NEW i,
           v6'[i] = v6[i], P!Repriced(i)
    PROVE  P!Repriced(i)'
BY PricesStay DEF P!Repriced

\* The steps around a sync: the cache, a process that starts, one that dies.
LEMMA PriceAround ==
    ASSUME P!Inv, P!Refresh \/ P!Startup \/ P!Crash
    PROVE  P!Inv'
<1>1. UNCHANGED <<v1, v4, v5, v6>>
  BY DEF P!Refresh, P!Startup, P!Crash
<1>2. P!Types /\ P!Reading /\ P!Repricing
  BY DEF P!Inv
<1>3. v2' \in Listings \cup {<<>>} /\ v3' \in Listings \cup {<<>>}
  BY <1>2 DEF P!Types, P!Refresh, P!Startup, P!Crash
<1>4. CASE UNCHANGED <<v7, v8>>
  <2>1. P!Types'
    BY <1>1, <1>2, <1>3, <1>4 DEF P!Types
  <2>2. P!Reading'
    BY <1>1, <1>2, <1>4, PricesStay DEF P!Reading
  <2>3. \A i : P!Repriced(i) => P!Repriced(i)'
    BY <1>1, <1>4, RepricedStays
  <2>4. P!Repricing'
    BY <1>1, <1>2, <1>4, <2>3, PricesStay DEF P!Repricing
  <2> QED  BY <1>1, <2>1, <2>2, <2>4, PricesStay, TurnsStay DEF P!Inv
<1>5. CASE P!Crash
  <2>1. v7' = P!Idle /\ v8' = P!NoSummary
    BY <1>5 DEF P!Crash
  <2>2. /\ v7' \in [pc : {"idle", "fetch", "models", "diff", "reprice"}, at : Nat,
                    catalog : {v7'.catalog}, rows : {v7'.rows}, seen : Nat]
        /\ v8' \in [changed : {v8'.changed}, repriced : Nat, version : {v8'.version}, runs : Nat]
        /\ v7'.pc = "idle" /\ v8'.version = {}
    BY <2>1 DEF P!Idle, P!NoSummary
  <2>3. P!Types'
    BY <1>1, <1>2, <1>3, <2>2 DEF P!Types
  <2>4. P!Reading' /\ P!Repricing'
    BY <2>2 DEF P!Reading, P!Repricing
  <2> QED  BY <1>1, <2>3, <2>4, PricesStay, TurnsStay DEF P!Inv
<1> QED  BY <1>4, <1>5 DEF P!Refresh, P!Startup

LEMMA PriceScans ==
    ASSUME P!Inv, P!ScanTurn
    PROVE  P!Inv'
<1>1. /\ UNCHANGED <<v1, v2, v3, v4, v5, v7, v8>> /\ Len(v6) < PricedTurns
      /\ P!Types /\ P!Reading /\ P!Repricing /\ P!ScannedRight
  BY DEF P!Inv, P!ScanTurn
<1>2. PICK m \in Models, u \in Amounts :
        v6' = Append(v6, [model |-> m, use |-> u,
                          est |-> P!EstimateCost(P!LookupPricing(m), u, {})])
  BY DEF P!ScanTurn
<1> DEFINE e == P!EstimateCost(P!LookupPricing(m), u, {})
           t == [model |-> m, use |-> u, est |-> e]
           n == Len(v6)
           All == P!Range(v6) \cup {t}
<1>3. v6 \in Seq(All)
  BY <1>1, SeqMonotonic DEF P!Types
<1>4. /\ v6' \in Seq(All) /\ Len(v6') = n + 1 /\ v6'[n + 1] = t
      /\ \A i \in 1 .. n : v6'[i] = v6[i]
  BY <1>2, <1>3, AppendProperties
<1>5. n \in Nat /\ DOMAIN v6 = 1 .. n /\ DOMAIN v6' = 1 .. n + 1
  BY <1>3, <1>4, LenProperties
<1>6. v6' \in Seq(P!Range(v6'))
  BY <1>4, SeqOfRange DEF P!Range, Range
<1>7. t.model = m /\ t.use = u /\ t.est = e /\ t \in [model : Models, use : Amounts, est : {t.est}]
  OBVIOUS
<1> HIDE DEF t
<1>8. \A i \in DOMAIN v6' : (i \in DOMAIN v6 /\ v6'[i] = v6[i]) \/ (i = n + 1 /\ v6'[i] = t)
  <2>1. \A i \in 1 .. n + 1 : i \in 1 .. n \/ i = n + 1
    BY <1>5
  <2> HIDE DEF n
  <2> QED  BY <1>4, <1>5, <2>1
<1>9. P!Types'
  <2>1. n + 1 <= PricedTurns
    BY <1>1, <1>5, PriceFacts
  <2>2. \A i \in DOMAIN v6' :
          v6'[i] \in [model : Models, use : Amounts, est : {v6'[i].est}]
    BY <1>1, <1>7, <1>8 DEF P!Types
  <2> QED  BY <1>1, <1>4, <1>6, <2>1, <2>2 DEF P!Types
<1>10. P!Reading'
  BY <1>1, PricesStay DEF P!Reading
<1>11. P!Repricing'
  <2>1. \A i \in 1 .. n : P!Repriced(i) => P!Repriced(i)'
    BY <1>1, <1>4, RepricedStays
  <2>2. v7.seen \in Nat /\ v7.at \in Nat
    BY <1>1 DEF P!Types
  <2>3. ASSUME v7.pc = "reprice"
        PROVE  /\ v7.catalog = P!EffectiveCatalog' /\ v7.seen <= n + 1
               /\ v7.at \in 1 .. v7.seen + 1 /\ v8.version # {}
               /\ \A i \in 1 .. v7.at - 1 : P!Repriced(i)'
    <3>1. v7.catalog = P!EffectiveCatalog /\ v7.seen <= n
          /\ v7.at \in 1 .. v7.seen + 1 /\ v8.version # {}
          /\ \A i \in 1 .. v7.at - 1 : P!Repriced(i)
      BY <1>1, <2>3 DEF P!Repricing
    <3>2. \A i \in 1 .. v7.at - 1 : i \in 1 .. n
      BY <1>5, <2>2, <3>1
    <3> QED  BY <1>1, <1>5, <2>1, <2>2, <3>1, <3>2, PricesStay
  <2>4. ASSUME v7.pc = "idle", v8.version # {}, v8.runs = Len(v4)
        PROVE  v7.seen <= n + 1 /\ \A i \in 1 .. v7.seen : P!Repriced(i)'
    <3>1. v7.seen <= n /\ \A i \in 1 .. v7.seen : P!Repriced(i)
      BY <1>1, <2>4 DEF P!Repricing
    <3>2. \A i \in 1 .. v7.seen : i \in 1 .. n
      BY <1>5, <2>2, <3>1
    <3> QED  BY <1>5, <2>1, <2>2, <3>1, <3>2
  <2> QED  BY <1>1, <1>4, <2>3, <2>4 DEF P!Repricing
<1>12. P!ScannedRight'
  <2>1. P!PricedBest(m, u, e)
    <3>1. e.cost = P!CalcCost(P!LookupPricing(m).price, u) /\ e.name = P!LookupPricing(m).name
          /\ e.confidence = P!LookupPricing(m).confidence
      BY DEF P!EstimateCost
    <3> QED  BY <1>1, <3>1, LookupSound DEF P!PricedBest
  <2>2. \A a, b, c : P!PricedBest(a, b, c)' = P!PricedBest(a, b, c)
    BY <1>1 DEF P!PricedBest
  <2> HIDE DEF e
  <2> QED  BY <1>1, <1>7, <1>8, <2>1, <2>2 DEF P!ScannedRight
<1> QED  BY <1>1, <1>9, <1>10, <1>11, <1>12, PricesStay DEF P!Inv

\* The next page, or the end of them.
LEMMA NextPageType ==
    ASSUME P!Types, P!Reading, v7.pc \in {"fetch", "models"}
    PROVE  /\ P!NextPage.pc \in {"fetch", "diff"} /\ P!NextPage.catalog = v7.catalog
           /\ P!NextPage.pc = "fetch" => P!NextPage.at \in DOMAIN Slugs
           /\ P!NextPage \in [pc : {"idle", "fetch", "models", "diff", "reprice"}, at : Nat,
                              catalog : {P!NextPage.catalog}, rows : {P!NextPage.rows},
                              seen : Nat]
<1>1. Len(Slugs) \in Nat /\ DOMAIN Slugs = 1 .. Len(Slugs)
  BY PriceFacts, LenProperties
<1>2. /\ v7 \in [pc : {"idle", "fetch", "models", "diff", "reprice"}, at : Nat,
                 catalog : {v7.catalog}, rows : {v7.rows}, seen : Nat]
      /\ v7.at \in 1 .. Len(Slugs)
  BY <1>1 DEF P!Types, P!Reading
<1>3. CASE v7.at < Len(Slugs)
  <2>1. P!NextPage = [v7 EXCEPT !.pc = "fetch", !.at = @ + 1]
    BY <1>3 DEF P!NextPage
  <2>2. v7.at + 1 \in DOMAIN Slugs /\ v7.at + 1 \in Nat
    BY <1>1, <1>2, <1>3
  <2> QED  BY <1>2, <2>1, <2>2
<1>4. CASE ~(v7.at < Len(Slugs))
  <2>1. P!NextPage = [v7 EXCEPT !.pc = "diff"]
    BY <1>4 DEF P!NextPage
  <2> QED  BY <1>2, <2>1
<1> QED  BY <1>3, <1>4

\* A sync begins, or is done with a page or with the turns.
LEMMA PriceStarts ==
    ASSUME P!Inv, P!StartSync \/ P!ModelsDone \/ P!RepriceDone
    PROVE  P!Inv'
<1>1. /\ UNCHANGED <<v1, v2, v3, v4, v5, v6, v8>>
      /\ P!Types /\ P!Reading /\ P!Repricing
  BY DEF P!Inv, P!StartSync, P!ModelsDone, P!RepriceDone
<1>2. Len(Slugs) \in Nat /\ Len(Slugs) > 0 /\ DOMAIN Slugs = 1 .. Len(Slugs)
  BY PriceFacts, EmptySeq, LenProperties
<1>3. \A i : P!Repriced(i) => P!Repriced(i)'
  BY <1>1, RepricedStays
<1>4. ASSUME v7' \in [pc : {"idle", "fetch", "models", "diff", "reprice"}, at : Nat,
                      catalog : {v7'.catalog}, rows : {v7'.rows}, seen : Nat],
             P!Reading', P!Repricing'
      PROVE  P!Inv'
  <2>1. P!Types'
    BY <1>1, <1>4 DEF P!Types
  <2> QED  BY <1>1, <1>4, <2>1, PricesStay, TurnsStay DEF P!Inv
<1>5. CASE P!StartSync
  <2>1. v7' = [P!Idle EXCEPT !.pc = "fetch", !.at = 1, !.catalog = P!EffectiveCatalog]
    BY <1>5 DEF P!StartSync
  <2>2. /\ v7'.pc = "fetch" /\ v7'.at = 1 /\ v7'.catalog = P!EffectiveCatalog
        /\ v7' \in [pc : {"idle", "fetch", "models", "diff", "reprice"}, at : Nat,
                    catalog : {v7'.catalog}, rows : {v7'.rows}, seen : Nat]
    BY <2>1 DEF P!Idle
  <2>3. P!Latest = {} => P!EffectiveCatalog = P!CatalogOf({})
    BY DEF P!EffectiveCatalog
  <2>4. P!Reading'
    BY <1>1, <1>2, <2>2, <2>3, PricesStay DEF P!Reading
  <2>5. P!Repricing'
    BY <2>2 DEF P!Repricing
  <2> QED  BY <1>4, <2>2, <2>4, <2>5
<1>6. CASE P!ModelsDone
  <2>1. v7.pc = "models" /\ v7.rows = <<>> /\ v7' = P!NextPage
    BY <1>6 DEF P!ModelsDone
  <2>2. /\ v7'.pc \in {"fetch", "diff"} /\ v7'.catalog = v7.catalog
        /\ v7'.pc = "fetch" => v7'.at \in DOMAIN Slugs
        /\ v7' \in [pc : {"idle", "fetch", "models", "diff", "reprice"}, at : Nat,
                    catalog : {v7'.catalog}, rows : {v7'.rows}, seen : Nat]
    BY <1>1, <2>1, NextPageType
  <2>3. P!Reading'
    BY <1>1, <2>1, <2>2, PricesStay DEF P!Reading
  <2>4. P!Repricing'
    BY <2>2 DEF P!Repricing
  <2> QED  BY <1>4, <2>2, <2>3, <2>4
<1>7. CASE P!RepriceDone
  <2>1. v7.pc = "reprice" /\ v7.at > v7.seen /\ v7' = [P!Idle EXCEPT !.seen = v7.seen]
    BY <1>7 DEF P!RepriceDone
  <2>2. v7.seen \in Nat /\ v7.at \in Nat
    BY <1>1 DEF P!Types
  <2>3. /\ v7'.pc = "idle" /\ v7'.seen = v7.seen
        /\ v7' \in [pc : {"idle", "fetch", "models", "diff", "reprice"}, at : Nat,
                    catalog : {v7'.catalog}, rows : {v7'.rows}, seen : Nat]
    BY <2>1, <2>2 DEF P!Idle
  <2>4. P!Reading'
    BY <2>3 DEF P!Reading
  <2>5. v7.seen <= Len(v6) /\ \A i \in 1 .. v7.seen : P!Repriced(i)
    <3>1. v7.at = v7.seen + 1
      BY <1>1, <2>1, <2>2 DEF P!Repricing
    <3> QED  BY <1>1, <2>1, <2>2, <3>1 DEF P!Repricing
  <2>6. P!Repricing'
    BY <1>1, <1>3, <2>3, <2>5 DEF P!Repricing
  <2> QED  BY <1>4, <2>3, <2>4, <2>6
<1> QED  BY <1>5, <1>6, <1>7

\* A run of a page that failed, or that was read.
LEMMA PriceFetches ==
    ASSUME P!Inv, P!FetchFails \/ P!FetchPage
    PROVE  P!Inv'
<1> DEFINE s == Slugs[v7.at]
<1>1. /\ UNCHANGED <<v1, v2, v3, v5, v6, v8>> /\ v7.pc = "fetch"
      /\ P!Types /\ P!Reading /\ P!Repricing /\ P!OfGoodRuns /\ v4 \in Seq(Statuses)
  BY DEF P!Inv, P!FetchFails, P!FetchPage, P!Types, Statuses
<1>2. Len(Slugs) \in Nat /\ DOMAIN Slugs = 1 .. Len(Slugs) /\ s \in P!Range(Slugs)
  BY <1>1, PriceFacts, LenProperties DEF P!Reading, P!Range
<1>3. PICK st \in {"success", "error"} : v4' = Append(v4, [slug |-> s, status |-> st])
  BY DEF P!FetchFails, P!FetchPage
<1>4. /\ v4' \in Seq(Statuses) /\ Len(v4') = Len(v4) + 1
      /\ v4'[Len(v4) + 1] = [slug |-> s, status |-> st]
      /\ \A i \in 1 .. Len(v4) : v4'[i] = v4[i]
  <2>1. [slug |-> s, status |-> st] \in Statuses
    BY <1>2 DEF Statuses
  <2> QED  BY <1>1, <1>3, <2>1, AppendProperties
<1>5. /\ DOMAIN v4 = 1 .. Len(v4) /\ DOMAIN v4' = 1 .. Len(v4) + 1 /\ Len(v4) \in Nat
  BY <1>1, <1>4, LenProperties
<1>6. P!OfGoodRuns'
  <2>1. \A i \in DOMAIN v4 : i \in DOMAIN v4' /\ v4'[i] = v4[i]
    BY <1>4, <1>5
  <2> QED  BY <1>1, <2>1 DEF P!OfGoodRuns
<1>7. ASSUME v7' \in [pc : {"idle", "fetch", "models", "diff", "reprice"}, at : Nat,
                      catalog : {v7'.catalog}, rows : {v7'.rows}, seen : Nat],
             v7'.pc \in {"fetch", "models", "diff"}, P!Reading'
      PROVE  P!Inv'
  <2>1. P!Types'
    BY <1>1, <1>4, <1>7 DEF P!Types, Statuses
  <2>2. P!Repricing'
    BY <1>7 DEF P!Repricing
  <2> QED  BY <1>1, <1>6, <1>7, <2>1, <2>2, TurnsStay DEF P!Inv
<1>8. CASE P!FetchFails
  <2>1. v4' = Append(v4, [slug |-> s, status |-> "error"]) /\ v7' = P!NextPage
    BY <1>8 DEF P!FetchFails
  <2>2. P!Latest' = P!Latest
    BY <1>1, <1>2, <2>1, RunFails
  <2>3. /\ v7'.pc \in {"fetch", "diff"} /\ v7'.catalog = v7.catalog
        /\ v7'.pc = "fetch" => v7'.at \in DOMAIN Slugs
        /\ v7' \in [pc : {"idle", "fetch", "models", "diff", "reprice"}, at : Nat,
                    catalog : {v7'.catalog}, rows : {v7'.rows}, seen : Nat]
    BY <1>1, <2>1, NextPageType
  <2>4. P!Reading'
    BY <1>1, <2>2, <2>3 DEF P!Reading
  <2> QED  BY <1>7, <2>3, <2>4
<1>9. CASE P!FetchPage
  <2>1. PICK rows \in Offers[s] : v7' = [v7 EXCEPT !.pc = "models", !.rows = rows]
    BY <1>9 DEF P!FetchPage
  <2>2. v4' = Append(v4, [slug |-> s, status |-> "success"])
    BY <1>9 DEF P!FetchPage
  <2>3. v7 \in [pc : {"idle", "fetch", "models", "diff", "reprice"}, at : Nat,
                catalog : {v7.catalog}, rows : {v7.rows}, seen : Nat]
    BY <1>1 DEF P!Types
  <2>4. /\ v7'.pc = "models" /\ v7'.rows = rows /\ v7'.at = v7.at
        /\ v7' \in [pc : {"idle", "fetch", "models", "diff", "reprice"}, at : Nat,
                    catalog : {v7'.catalog}, rows : {v7'.rows}, seen : Nat]
    BY <2>1, <2>3
  <2>5. rows # <<>>
    BY <1>2, <2>1, PriceFacts
  <2>6. /\ [slug |-> s, status |-> "success"] \in Statuses
        /\ v4' # <<>> /\ v4'[Len(v4')] = [slug |-> s, status |-> "success"]
    <3>1. [slug |-> s, status |-> "success"] \in Statuses
      BY <1>2 DEF Statuses
    <3> QED  BY <1>1, <2>2, <3>1, AppendProperties
  <2>7. P!Reading'
    BY <1>1, <2>4, <2>5, <2>6 DEF P!Reading
  <2> QED  BY <1>7, <2>4, <2>7
<1> QED  BY <1>8, <1>9

\* A row of the page: from then on there is one in force.
LEMMA PriceInserts ==
    ASSUME P!Inv, P!InsertModel
    PROVE  P!Inv'
<1> DEFINE s == Slugs[v7.at]
           m == [run |-> Len(v4), slug |-> s, name |-> Head(v7.rows).name,
                 price |-> Head(v7.rows).price]
<1>1. /\ UNCHANGED <<v1, v2, v3, v4, v6, v8>> /\ v7.pc = "models"
      /\ P!Types /\ P!Reading /\ P!Repricing /\ P!OfGoodRuns /\ v4 \in Seq(Statuses)
      /\ v5' = v5 \cup {m} /\ v7' = [v7 EXCEPT !.rows = Tail(v7.rows)]
  BY DEF P!Inv, P!InsertModel, P!Types, Statuses
<1>2. v4 # <<>> /\ v4[Len(v4)] = [slug |-> s, status |-> "success"] /\ v7.at \in DOMAIN Slugs
  BY <1>1 DEF P!Reading
<1>3. Len(v4) \in DOMAIN v4
  BY <1>1, <1>2, EmptySeq, LenProperties
<1>4. m.run = Len(v4) /\ m.slug = s
  OBVIOUS
<1> HIDE DEF m
<1>5. P!OfGoodRuns'
  BY <1>1, <1>2, <1>3, <1>4 DEF P!OfGoodRuns
<1>6. P!Latest' # {}
  <2>1. P!LatestRun(s) = Len(v4)
    BY <1>1, <1>2, LatestIsLast
  <2>2. P!LatestRun(s)' = P!LatestRun(s)
    BY <1>1 DEF P!LatestRun
  <2>3. m \in P!Latest'
    BY <1>1, <1>4, <2>1, <2>2 DEF P!Latest
  <2> QED  BY <2>3
<1>7. v7 \in [pc : {"idle", "fetch", "models", "diff", "reprice"}, at : Nat,
              catalog : {v7.catalog}, rows : {v7.rows}, seen : Nat]
  BY <1>1 DEF P!Types
<1>8. /\ v7'.pc = "models" /\ v7'.at = v7.at
      /\ v7' \in [pc : {"idle", "fetch", "models", "diff", "reprice"}, at : Nat,
                  catalog : {v7'.catalog}, rows : {v7'.rows}, seen : Nat]
  BY <1>1, <1>7
<1>9. P!Types'
  BY <1>1, <1>8 DEF P!Types
<1>10. P!Reading'
  BY <1>1, <1>2, <1>6, <1>8 DEF P!Reading
<1>11. P!Repricing'
  BY <1>8 DEF P!Repricing
<1> QED  BY <1>1, <1>5, <1>9, <1>10, <1>11, TurnsStay DEF P!Inv

\* A difference means that a row is in force, and so a version.
LEMMA PriceDiffs ==
    ASSUME P!Inv, P!Diff
    PROVE  P!Inv'
<1> DEFINE changed == P!DiffCatalogs(v7.catalog, P!EffectiveCatalog)
<1>1. /\ UNCHANGED <<v1, v2, v3, v4, v5, v6>> /\ v7.pc = "diff"
      /\ P!Types /\ P!Reading /\ P!Repricing /\ P!OfGoodRuns
  BY DEF P!Inv, P!Diff
<1>2. Len(v4) \in Nat /\ Len(v6) \in Nat
  BY <1>1, LenProperties DEF P!Types
<1>3. ASSUME v7' \in [pc : {"idle", "fetch", "models", "diff", "reprice"}, at : Nat,
                      catalog : {v7'.catalog}, rows : {v7'.rows}, seen : Nat],
             v8' \in [changed : {v8'.changed}, repriced : Nat, version : {v8'.version}, runs : Nat],
             P!Reading', P!Repricing'
      PROVE  P!Inv'
  <2>1. P!Types'
    BY <1>1, <1>3 DEF P!Types
  <2> QED  BY <1>1, <1>3, <2>1, PricesStay, TurnsStay DEF P!Inv
<1>4. CASE changed = {}
  <2>1. v7' = P!Idle /\ v8' = [P!NoSummary EXCEPT !.runs = Len(v4)]
    BY <1>4 DEF P!Diff
  <2>2. /\ v7' \in [pc : {"idle", "fetch", "models", "diff", "reprice"}, at : Nat,
                    catalog : {v7'.catalog}, rows : {v7'.rows}, seen : Nat]
        /\ v8' \in [changed : {v8'.changed}, repriced : Nat, version : {v8'.version}, runs : Nat]
        /\ v7'.pc = "idle" /\ v8'.version = {}
    BY <1>2, <2>1 DEF P!Idle, P!NoSummary
  <2>3. P!Reading' /\ P!Repricing'
    BY <2>2 DEF P!Reading, P!Repricing
  <2> QED  BY <1>3, <2>2, <2>3
<1>5. CASE changed # {}
  <2>1. /\ v7' = [v7 EXCEPT !.pc = "reprice", !.at = 1, !.seen = Len(v6),
                            !.catalog = P!EffectiveCatalog]
        /\ v8' = [changed |-> changed, repriced |-> 0, version |-> P!CatalogVersion,
                  runs |-> Len(v4)]
    BY <1>5 DEF P!Diff
  <2>2. v7 \in [pc : {"idle", "fetch", "models", "diff", "reprice"}, at : Nat,
                catalog : {v7.catalog}, rows : {v7.rows}, seen : Nat]
    BY <1>1 DEF P!Types
  <2>3. /\ v7'.pc = "reprice" /\ v7'.at = 1 /\ v7'.seen = Len(v6)
        /\ v7'.catalog = P!EffectiveCatalog
        /\ v7' \in [pc : {"idle", "fetch", "models", "diff", "reprice"}, at : Nat,
                    catalog : {v7'.catalog}, rows : {v7'.rows}, seen : Nat]
    BY <1>2, <2>1, <2>2
  <2>4. /\ v8'.version = P!CatalogVersion
        /\ v8' \in [changed : {v8'.changed}, repriced : Nat, version : {v8'.version}, runs : Nat]
    BY <1>2, <2>1
  <2>5. P!Latest # {}
    <3>1. P!Latest = {} => v7.catalog = P!EffectiveCatalog
      BY <1>1 DEF P!Reading, P!EffectiveCatalog
    <3>2. v7.catalog = P!EffectiveCatalog => changed = {}
      BY DEF P!DiffCatalogs
    <3> QED  BY <1>5, <3>1, <3>2
  <2>6. P!CatalogVersion # {}
    BY <2>5 DEF P!CatalogVersion
  <2>7. P!Reading'
    BY <2>3 DEF P!Reading
  <2>8. P!Repricing'
    BY <1>1, <1>2, <2>3, <2>4, <2>6, PricesStay DEF P!Repricing
  <2> QED  BY <1>3, <2>3, <2>4, <2>7, <2>8
<1> QED  BY <1>4, <1>5

LEMMA PriceReprices ==
    ASSUME P!Inv, P!RepriceTurn
    PROVE  P!Inv'
<1>0. PICK k : k = v7.at
  OBVIOUS
<1>1. /\ UNCHANGED <<v1, v2, v3, v4, v5>> /\ v7.pc = "reprice" /\ k <= v7.seen
      /\ P!Types /\ P!Reading /\ P!Repricing /\ P!OfGoodRuns /\ P!ScannedRight
      /\ v7' = [v7 EXCEPT !.at = k + 1]
  BY <1>0 DEF P!Inv, P!RepriceTurn
<1>2. PICK found \in P!LookupCatalog(v6[k].model, v7.catalog) :
        LET est == P!EstimateCost(found, v6[k].use, v8.version) IN
        /\ v6' = [v6 EXCEPT ![k].est = est]
        /\ v8' = IF est # v6[k].est THEN [v8 EXCEPT !.repriced = @ + 1] ELSE v8
  BY <1>0 DEF P!RepriceTurn
<1> DEFINE est == P!EstimateCost(found, v6[k].use, v8.version)
           n == Len(v6)
<1>3. /\ v6' = [v6 EXCEPT ![k].est = est]
      /\ v8' = IF est # v6[k].est THEN [v8 EXCEPT !.repriced = @ + 1] ELSE v8
      /\ est.version = v8.version
  BY <1>2 DEF P!EstimateCost
<1> HIDE DEF est
<1>4. /\ v7.catalog = P!EffectiveCatalog /\ v7.seen <= n
      /\ k \in 1 .. v7.seen + 1 /\ v8.version # {} /\ \A i \in 1 .. k - 1 : P!Repriced(i)
  BY <1>0, <1>1 DEF P!Repricing
<1>5. /\ n \in Nat /\ DOMAIN v6 = 1 .. n /\ k \in Nat /\ v7.seen \in Nat
  BY <1>0, <1>1, LenProperties DEF P!Types
<1>6. k \in DOMAIN v6
  BY <1>1, <1>4, <1>5
<1>7. v6[k] \in [model : Models, use : Amounts, est : {v6[k].est}]
  BY <1>1, <1>6 DEF P!Types
<1> DEFINE t == [v6[k] EXCEPT !.est = est]
<1>8. t.est = est /\ t.model = v6[k].model /\ t.use = v6[k].use
      /\ t \in [model : Models, use : Amounts, est : {t.est}]
  BY <1>7
<1>9. v6' = [v6 EXCEPT ![k] = t]
  BY <1>3
<1> HIDE DEF t
<1>10. /\ v6' \in Seq(P!Range(v6) \cup {t}) /\ Len(v6') = n
       /\ \A j \in 1 .. n : v6'[j] = IF j = k THEN t ELSE v6[j]
  <2>1. v6 \in Seq(P!Range(v6) \cup {t})
    BY <1>1, SeqMonotonic DEF P!Types
  <2> QED  BY <1>5, <1>6, <1>9, <2>1, ExceptSeq
<1>11. DOMAIN v6' = 1 .. n
  BY <1>10, LenProperties
<1>12. v6' \in Seq(P!Range(v6'))
  BY <1>10, SeqOfRange DEF P!Range, Range
<1>13. /\ v8'.version = v8.version
       /\ v8' \in [changed : {v8'.changed}, repriced : Nat, version : {v8'.version}, runs : Nat]
       /\ v8'.runs = v8.runs
  <2>1. v8 \in [changed : {v8.changed}, repriced : Nat, version : {v8.version}, runs : Nat]
    BY <1>1 DEF P!Types
  <2>2. v8' = v8 \/ v8' = [v8 EXCEPT !.repriced = @ + 1]
    BY <1>3
  <2> QED  BY <2>1, <2>2
<1>14. v7 \in [pc : {"idle", "fetch", "models", "diff", "reprice"}, at : Nat,
               catalog : {v7.catalog}, rows : {v7.rows}, seen : Nat]
  BY <1>1 DEF P!Types
<1>15. /\ v7'.pc = "reprice" /\ v7'.at = k + 1 /\ v7'.seen = v7.seen /\ v7'.catalog = v7.catalog
       /\ v7' \in [pc : {"idle", "fetch", "models", "diff", "reprice"}, at : Nat,
                   catalog : {v7'.catalog}, rows : {v7'.rows}, seen : Nat]
  BY <1>0, <1>1, <1>5, <1>14
<1>16. P!Types'
  <2>1. \A i \in DOMAIN v6' :
          v6'[i] \in [model : Models, use : Amounts, est : {v6'[i].est}]
    BY <1>1, <1>5, <1>8, <1>10, <1>11 DEF P!Types
  <2>2. Len(v6') <= PricedTurns
    BY <1>1, <1>10 DEF P!Types
  <2> QED  BY <1>1, <1>12, <1>13, <1>15, <2>1, <2>2 DEF P!Types
<1>17. P!Reading'
  BY <1>15 DEF P!Reading
<1>18. P!Repricing'
  <2>1. ASSUME NEW i \in 1 .. k - 1 PROVE P!Repriced(i)'
    <3>1. i \in 1 .. n /\ i # k
      BY <1>1, <1>4, <1>5
    <3>2. v6'[i] = v6[i]
      BY <1>10, <3>1
    <3> QED  BY <1>1, <1>4, <1>13, <3>2, RepricedStays
  <2>2. P!Repriced(k)'
    <3>1. v6'[k].est = est /\ v6'[k].model = v6[k].model /\ v6'[k].use = v6[k].use
      BY <1>5, <1>6, <1>8, <1>10
    <3>2. found \in P!LookupCatalog(v6'[k].model, P!EffectiveCatalog')
      BY <1>1, <1>2, <1>4, <3>1, PricesStay
    <3> QED  BY <1>3, <1>13, <3>1, <3>2 DEF P!Repriced, est
  <2>3. \A i \in 1 .. (k + 1) - 1 : i \in 1 .. k - 1 \/ i = k
    BY <1>5
  <2>4. k + 1 \in 1 .. v7.seen + 1
    BY <1>1, <1>4, <1>5
  <2> QED  BY <1>1, <1>4, <1>10, <1>13, <1>15, <2>1, <2>2, <2>3, <2>4, PricesStay DEF P!Repricing
<1>19. P!ScannedRight'
  <2>1. \A a, b, c : P!PricedBest(a, b, c)' = P!PricedBest(a, b, c)
    BY <1>1 DEF P!PricedBest
  <2> QED  BY <1>1, <1>3, <1>4, <1>5, <1>8, <1>10, <1>11, <2>1 DEF P!ScannedRight
<1> QED  BY <1>1, <1>16, <1>17, <1>18, <1>19, PricesStay DEF P!Inv

LEMMA PriceStep == P!Inv /\ [P!Next]_(P!vars) => P!Inv'
<1>1. P!Inv /\ P!Next => P!Inv'
  BY PriceAround, PriceScans, PriceStarts, PriceFetches, PriceInserts, PriceDiffs, PriceReprices
     DEF P!Next
<1>2. ASSUME P!Inv, UNCHANGED P!vars PROVE P!Inv'
  <2>1. UNCHANGED <<v1, v2, v3, v4, v5, v6, v7, v8>>
    BY <1>2 DEF P!vars
  <2>2. P!Types /\ P!Reading /\ P!Repricing
    BY <1>2 DEF P!Inv
  <2>3. P!Types' /\ P!Reading'
    BY <1>2, <2>1, <2>2, PricesStay DEF P!Types, P!Reading
  <2>4. \A i : P!Repriced(i) => P!Repriced(i)'
    BY <1>2, <2>1, RepricedStays
  <2>5. P!Repricing'
    BY <1>2, <2>1, <2>2, <2>4, PricesStay DEF P!Repricing
  <2> QED  BY <1>2, <2>1, <2>3, <2>5, PricesStay, TurnsStay DEF P!Inv
<1> QED  BY <1>1, <1>2

LEMMA PriceSound == P!Inv => P!TypeOK /\ P!RepricedWhole /\ P!PricedRight
<1> SUFFICES ASSUME P!Inv PROVE P!TypeOK /\ P!RepricedWhole /\ P!PricedRight
  OBVIOUS
<1>1. P!Types /\ P!OfGoodRuns /\ P!Repricing /\ P!ScannedRight
  BY DEF P!Inv
<1>2. P!TypeOK
  <2>1. \A i \in DOMAIN v4 : v4[i].slug \in P!Range(Slugs)
    <3>1. v4 \in [1 .. Len(v4) -> Statuses]
      BY <1>1, LenProperties DEF P!Types, Statuses
    <3> QED  BY <3>1 DEF Statuses
  <2>2. v7.pc \in {"idle", "fetch", "models", "diff", "reprice"} /\ v7.seen \in Nat
        /\ Len(v6) <= PricedTurns
    BY <1>1 DEF P!Types
  <2>3. \A m \in v5 : m.run \in DOMAIN v4 /\ v4[m.run].status = "success"
    <3> SUFFICES ASSUME NEW m \in v5
                 PROVE  m.run \in DOMAIN v4 /\ v4[m.run].status = "success"
      OBVIOUS
    <3>1. m.run \in DOMAIN v4 /\ v4[m.run] = [slug |-> m.slug, status |-> "success"]
      BY <1>1 DEF P!OfGoodRuns
    <3> QED  BY <3>1
  <2> QED  BY <2>1, <2>2, <2>3 DEF P!TypeOK
<1>3. P!RepricedWhole
  BY <1>1 DEF P!RepricedWhole, P!Repricing
<1>4. P!CostGrows
  <2>1. ASSUME NEW i \in DOMAIN v6
        PROVE  v6[i].model \in Models /\ v6[i].use \in [in : Nat, out : Nat]
    BY <1>1, PriceFacts DEF P!Types
  <2> QED  BY <1>1, <2>1, LookupSound, CostMonotonic DEF P!CostGrows
<1> QED  BY <1>1, <1>2, <1>3, <1>4 DEF P!PricedRight

\* Only a good run and its rows change what is in force.
LEMMA PriceKeeps == P!Inv /\ P!Next => P!KeepsPrices
<1> SUFFICES ASSUME P!Inv, P!Next PROVE P!KeepsPrices
  OBVIOUS
<1>1. P!Types /\ P!Reading /\ v4 \in Seq(Statuses)
  BY DEF P!Inv, P!Types, Statuses
<1>2. CASE v4' = v4
  <2>1. v5' = v5 => P!Latest' = P!Latest
    BY <1>2, PricesStay
  <2> QED  BY <2>1 DEF P!KeepsPrices
<1>3. CASE P!FetchFails \/ P!FetchPage
  <2> DEFINE s == Slugs[v7.at]
  <2>1. v7.at \in DOMAIN Slugs /\ v5' = v5
    BY <1>1, <1>3 DEF P!Reading, P!FetchFails, P!FetchPage
  <2>2. s \in P!Range(Slugs)
    BY <2>1 DEF P!Range
  <2>3. CASE P!FetchFails
    <3>1. v4' = Append(v4, [slug |-> s, status |-> "error"])
      BY <2>3 DEF P!FetchFails
    <3> QED  BY <1>1, <2>1, <2>2, <3>1, RunFails DEF P!KeepsPrices
  <2>4. CASE P!FetchPage
    <3> DEFINE r == [slug |-> s, status |-> "success"]
    <3>1. v4' = Append(v4, r)
      BY <2>4 DEF P!FetchPage
    <3>2. r \in Statuses /\ r.status = "success"
      BY <2>2 DEF Statuses
    <3> HIDE DEF r
    <3>3. v4' \in Seq(Statuses) /\ Len(v4') = Len(v4) + 1 /\ v4'[Len(v4) + 1] = r
      BY <1>1, <3>1, <3>2, AppendProperties
    <3>4. /\ DOMAIN v4 = 1 .. Len(v4) /\ DOMAIN v4' = 1 .. Len(v4) + 1 /\ Len(v4) \in Nat
      BY <1>1, <3>3, LenProperties
    <3>5. Len(v4) + 1 \in DOMAIN v4' \ DOMAIN v4
      BY <3>4
    <3> QED  BY <3>2, <3>3, <3>5 DEF P!KeepsPrices
  <2> QED  BY <1>3, <2>3, <2>4
<1> QED
  BY <1>2, <1>3 DEF P!Next, P!Refresh, P!Startup, P!ScanTurn, P!StartSync, P!InsertModel,
     P!ModelsDone, P!Diff, P!RepriceTurn, P!RepriceDone, P!Crash

-----------------------------------------------------------------------------
(* The waste report *)

LEMMA WasteSums == \A f, X : W!SumFunctionOnSet(f, X) = SumFunctionOnSet(f, X)
BY Zenon DEF SumFunctionOnSet, FoldFunctionOnSet, MapThenFoldSet,
       W!SumFunctionOnSet, W!FoldFunctionOnSet, W!MapThenFoldSet

LEMMA WasteSizes == \A X : W!Cardinality(X) = Cardinality(X)
BY Zenon DEF Cardinality, W!Cardinality, IsFiniteSet, W!IsFiniteSet

LEMMA EventsFinite ==
    ASSUME W!Inv
    PROVE  /\ IsFiniteSet(DOMAIN v1) /\ \A i \in DOMAIN v1 : v1[i] \in W!Events
           /\ W!ToSet(v1) = {v1[i] : i \in DOMAIN v1}
<1>1. v1 \in Seq(W!Events) 
  BY DEF W!Inv
<1>2. Len(v1) \in Nat /\ DOMAIN v1 = 1 .. Len(v1) /\ \A i \in DOMAIN v1 : v1[i] \in W!Events
  BY <1>1, LenProperties, ElementOfSeq
<1>3. IsFiniteSet(1 .. Len(v1))
  BY <1>2, FS_Interval
<1> QED  BY <1>2, <1>3 DEF W!ToSet

\* The bucket of a prefix holds each event of its commands once.
LEMMA BucketCounts ==
    ASSUME W!Inv, NEW s, NEW prefix
    PROVE  W!Bucket(s, prefix) =
             Cardinality({i \in DOMAIN v1 :
                 /\ v1[i].kind = "bash" /\ v1[i].session = s
                 /\ v1[i].value \in DOMAIN Trivial /\ Trivial[v1[i].value] = prefix})
<1> DEFINE X == {i \in DOMAIN v1 :
                   /\ v1[i].kind = "bash" /\ v1[i].session = s
                   /\ v1[i].value \in DOMAIN Trivial /\ Trivial[v1[i].value] = prefix}
           own == {g \in W!NoisyRows : g.session = s /\ Trivial[g.value] = prefix}
           key == [i \in DOMAIN v1 |-> [session |-> v1[i].session, value |-> v1[i].value]]
           n == [g \in own |-> W!Count("bash", g.session, g.value)]
<1>1. IsFiniteSet(X)
  BY EventsFinite, FS_Subset
<1>2. IsFiniteSet(own)
  <2>1. IsFiniteSet({key[i] : i \in DOMAIN v1})
    <3> HIDE DEF key
    <3> QED  BY EventsFinite, ImageFinite
  <2>2. own \subseteq {key[i] : i \in DOMAIN v1}
    BY EventsFinite DEF W!NoisyRows, W!Values
  <2> QED  BY <2>1, <2>2, FS_Subset
<1>3. \A i \in X : key[i] \in own
  BY EventsFinite DEF W!NoisyRows, W!Values
<1>4. \A k \in own : n[k] = Cardinality({i \in X : key[i] = k})
  <2> SUFFICES ASSUME NEW k \in own PROVE n[k] = Cardinality({i \in X : key[i] = k})
    OBVIOUS
  <2>1. k = [session |-> k.session, value |-> k.value] /\ k.session = s
        /\ k.value \in DOMAIN Trivial /\ Trivial[k.value] = prefix
    BY DEF W!NoisyRows, W!Values
  <2>2. {i \in X : key[i] = k} = {i \in DOMAIN v1 : v1[i].kind = "bash"
                /\ v1[i].session = k.session /\ v1[i].value = k.value}
    BY <2>1
  <2>3. n[k] = Cardinality({i \in DOMAIN v1 : v1[i].kind = "bash"
                /\ v1[i].session = k.session /\ v1[i].value = k.value})
    BY WasteSizes DEF W!Count
  <2> QED  BY <2>2, <2>3
<1>5. n = [k \in own |-> Cardinality({i \in X : key[i] = k})]
  <2>1. n = [k \in own |-> n[k]]
    OBVIOUS
  <2> HIDE DEF n, X, key, own
  <2> QED  BY <1>4, <2>1
<1>6. W!Bucket(s, prefix) = SumFunctionOnSet(n, own)
  BY WasteSums DEF W!Bucket
<1>7. SumFunctionOnSet([k \in own |-> Cardinality({i \in X : key[i] = k})], own)
        = Cardinality(X)
  <2> HIDE DEF X, own, key
  <2> QED  BY <1>1, <1>2, <1>3, CountByClass
<1> HIDE DEF n
<1> QED  BY <1>5, <1>6, <1>7

LEMMA NoiseIsExact == W!Inv => W!NoiseExact
<1> SUFFICES ASSUME W!Inv, NEW s \in WasteSessions, NEW prefix \in W!Range(Trivial)
             PROVE  LET all == W!Bucket(s, prefix)
                        told == {f \in W!Noise : f.session = s /\ f.about = prefix}
                    IN IF all < MinNoise THEN told = {} ELSE {f.count : f \in told} = {all}
  BY BucketCounts, WasteSizes DEF W!NoiseExact
<1> DEFINE all == W!Bucket(s, prefix)
           told == {f \in W!Noise : f.session = s /\ f.about = prefix}
           one == W!Finding("bash_noise", W!Severity(all, 10, 30), s, prefix, all)
<1>1. all \in Nat /\ MinNoise \in Nat
  <2>1. MinNoise \in Nat
    BY Instances DEF W!WasteBounds
  <2>2. \A T \in SUBSET DOMAIN v1 : Cardinality(T) \in Nat
    BY EventsFinite, FS_Subset, FS_CardinalityType
  <2>3. all \in Nat
    BY BucketCounts, <2>2
  <2> QED  BY <2>1, <2>3
<1>2. \A f \in told : f = one /\ all >= MinNoise
  BY DEF W!Noise, W!Finding
<1>3. all >= MinNoise => one \in told
  <2>1. <<s, prefix>> \in WasteSessions \X W!Range(Trivial)
        /\ <<s, prefix>>[1] = s /\ <<s, prefix>>[2] = prefix
    OBVIOUS
  <2>2. all >= MinNoise => one \in W!Noise
    BY <2>1 DEF W!Noise
  <2>3. one.session = s /\ one.about = prefix
    BY DEF W!Finding
  <2> QED  BY <2>2, <2>3
<1>4. one.count = all
  BY DEF W!Finding
<1>5. IF all < MinNoise THEN told = {} ELSE {f.count : f \in told} = {all}
  <2> HIDE DEF all, told, one
  <2>1. CASE all < MinNoise
    BY <1>1, <1>2, <2>1
  <2>2. CASE ~(all < MinNoise)
    <3>1. told = {one}
      BY <1>1, <1>2, <1>3, <2>2
    <3> QED  BY <1>4, <2>2, <3>1
  <2> QED  BY <2>1, <2>2
<1> QED  BY <1>5

LEMMA SevereGrades ==
    ASSUME NEW F, NEW f \in F
    PROVE  W!Grade(F) # "A" /\ (f.severity = "high" => W!Grade(F) = "F")
BY DEF W!Grade

LEMMA WasteStarts == W!Init => W!Inv
<1> SUFFICES ASSUME W!Init PROVE W!Inv
  OBVIOUS
<1>1. v1 = <<>> /\ v3 = {} /\ v4 = {} /\ v6 = W!NotRunning
      /\ v7 = [grade |-> "none", found |-> {}, invoked |-> {}, observed |-> {}]
  BY DEF W!Init
<1>2. Len(v1) = 0 /\ v1 \in Seq(W!Events)
  BY <1>1, EmptySeq
<1>3. W!TypeOK
  BY <1>1, <1>2, Instances DEF W!TypeOK, W!NotRunning, W!WasteBounds
<1> QED  BY <1>1, <1>2, <1>3 DEF W!Inv, W!NotRunning, W!BlamesUnused, W!ReportFair

LEMMA WasteStep == W!Inv /\ [W!Next]_(W!vars) => W!Inv'
<1> SUFFICES ASSUME W!Inv, [W!Next]_(W!vars) PROVE W!Inv'
  OBVIOUS
<1>0. MaxEvents \in Nat /\ Len(v1) \in Nat /\ v1 \in Seq(W!Events)
  BY Instances, LenProperties DEF W!WasteBounds, W!Inv
<1>1. ASSUME NEW s \in WasteSessions, NEW call \in ToolCalls, NEW agent, W!StoreTurn(s, call, agent)
      PROVE  W!Inv'
  <2> DEFINE e == [session |-> s, kind |-> W!Kind(call.tool),
                   value |-> IF call.arg = "" THEN call.tool ELSE call.arg]
  <2>1. v1' = Append(v1, e) /\ v3 \subseteq v3' /\ v4 \subseteq v4'
        /\ v6' = v6 /\ v7' = v7 /\ Len(v1) < MaxEvents
    BY <1>1 DEF W!StoreTurn
  <2>2. e \in W!Events
    BY DEF W!Events, W!Kind
  <2>3. v1' \in Seq(W!Events) /\ Len(v1') = Len(v1) + 1
    <3> HIDE DEF e
    <3> QED  BY <1>0, <2>1, <2>2, AppendProperties
  <2>4. W!TypeOK'
    <3>1. W!TypeOK
      BY DEF W!Inv
    <3>2. Len(v1') <= MaxEvents
      <4>1. Len(v1) < MaxEvents /\ Len(v1') = Len(v1) + 1 /\ MaxEvents \in Nat /\ Len(v1) \in Nat
        BY <1>0, <2>1, <2>3
      <4> QED  BY <4>1
    <3> QED  BY <2>1, <3>1, <3>2 DEF W!TypeOK
  <2>5. (v6 \in [at : 0 .. 6, found : {v6.found}, invoked : SUBSET v3, observed : SUBSET v4])'
    BY <2>1 DEF W!Inv
  <2>6. W!BlamesUnused(v6)' /\ W!ReportFair'
    BY <2>1 DEF W!Inv, W!BlamesUnused, W!ReportFair
  <2>7. W!Events' = W!Events
    BY DEF W!Events
  <2> QED  BY <2>3, <2>4, <2>5, <2>6, <2>7 DEF W!Inv
<1>2. CASE W!StartOptimize
  <2>1. v6' = [at |-> 1, found |-> {}, invoked |-> v3, observed |-> v4]
        /\ v1' = v1 /\ v3' = v3 /\ v4' = v4 /\ v7' = v7
    BY <1>2 DEF W!StartOptimize, W!stored
  <2> QED  BY <2>1 DEF W!Inv, W!TypeOK, W!BlamesUnused, W!ReportFair, W!Events
<1>3. CASE W!Detect
  <2>1. v6.at \in 1 .. 5 /\ v1' = v1 /\ v3' = v3 /\ v4' = v4 /\ v7' = v7
    BY <1>3 DEF W!Detect, W!stored
  <2>2. v6 \in [at : 0 .. 6, found : {v6.found}, invoked : SUBSET v3, observed : SUBSET v4]
    BY DEF W!Inv
  <2>3. PICK found \in {{}} \cup (CASE v6.at = 1 -> {W!Bloat} [] v6.at = 2 -> {W!Unused}
                                [] v6.at = 3 -> {W!Ghosts} [] v6.at = 4 -> W!Rereads
                                [] OTHER -> {W!Noise}) :
              v6' = [v6 EXCEPT !.at = @ + 1, !.found = @ \cup found]
    BY <1>3 DEF W!Detect
  <2>4. v6'.at = v6.at + 1 /\ v6'.found = v6.found \cup found
        /\ v6'.invoked = v6.invoked /\ v6'.observed = v6.observed
        /\ v6' \in [at : 0 .. 6, found : {v6'.found}, invoked : SUBSET v3, observed : SUBSET v4]
    <3>1. v6 = [at |-> v6.at, found |-> v6.found, invoked |-> v6.invoked,
                observed |-> v6.observed] /\ v6.at + 1 \in 0 .. 6
      BY <2>1, <2>2
    <3>2. v6' = [at |-> v6.at + 1, found |-> v6.found \cup found, invoked |-> v6.invoked,
                 observed |-> v6.observed]
      BY <2>2, <2>3
    <3> QED  BY <2>2, <3>1, <3>2
  <2>5. \A f \in found : /\ f.of = "unused_mcp" => f.about \notin v3
                         /\ f.of = "ghost_agent" => f.about \notin v4
    <3>1. CASE found = {}
      BY <3>1
    <3>2. CASE found = W!Bloat
      BY <3>2 DEF W!Bloat, W!Finding
    <3>3. CASE found = W!Unused
      BY <3>3 DEF W!Unused, W!Finding
    <3>4. CASE found = W!Ghosts
      BY <3>4 DEF W!Ghosts, W!Finding
    <3>5. CASE found \in W!Rereads
      <4> DEFINE n(g) == W!Count("file", g.session, g.value)
                 Told(g) == W!Finding("reread_files", W!Severity(n(g), 5, 15), g.session,
                                      g.value, n(g))
      <4>1. \E top : found = {Told(g) : g \in top}
        BY <3>5 DEF W!Rereads
      <4>2. \A g : Told(g).of = "reread_files"
        BY DEF W!Finding
      <4> HIDE DEF Told
      <4> QED  BY <4>1, <4>2
    <3>6. CASE found = W!Noise
      BY <3>6 DEF W!Noise, W!Finding
    <3>7. v6.at = 1 \/ v6.at = 2 \/ v6.at = 3 \/ v6.at = 4 \/ v6.at = 5
      BY <2>1
    <3> QED  BY <2>3, <3>1, <3>2, <3>3, <3>4, <3>5, <3>6, <3>7
  <2>6. W!BlamesUnused(v6)'
    BY <2>2, <2>4, <2>5 DEF W!Inv, W!BlamesUnused
  <2>7. W!ReportFair' /\ W!TypeOK'
    BY <2>1, <2>4 DEF W!Inv, W!TypeOK, W!ReportFair, W!BlamesUnused
  <2> QED  BY <2>1, <2>4, <2>6, <2>7 DEF W!Inv, W!Events
<1>4. CASE W!EndOptimize
  <2>1. v6' = W!NotRunning /\ v1' = v1 /\ v3' = v3 /\ v4' = v4
        /\ v7' = [grade |-> W!Grade(v6.found), found |-> v6.found,
                  invoked |-> v6.invoked, observed |-> v6.observed]
    BY <1>4 DEF W!EndOptimize, W!stored
  <2>2. W!BlamesUnused(v7)' /\ W!BlamesUnused(v6)'
    BY <2>1 DEF W!Inv, W!BlamesUnused, W!NotRunning
  <2>3. W!ReportFair'
    BY <2>1, <2>2, SevereGrades DEF W!ReportFair
  <2>4. W!TypeOK' /\ (v6 \in [at : 0 .. 6, found : {v6.found}, invoked : SUBSET v3,
                               observed : SUBSET v4])'
    BY <2>1 DEF W!Inv, W!TypeOK, W!NotRunning, W!Grade
  <2> QED  BY <2>1, <2>2, <2>3, <2>4 DEF W!Inv, W!Events
<1>5. CASE UNCHANGED W!vars
  BY <1>5 DEF W!vars, W!stored, W!Inv, W!TypeOK, W!BlamesUnused, W!ReportFair, W!Events
<1> QED  BY <1>1, <1>2, <1>3, <1>4, <1>5 DEF W!Next

-----------------------------------------------------------------------------
(* The reports *)

LEMMA LedgerSums == \A f, X : L!SumFunctionOnSet(f, X) = SumFunctionOnSet(f, X)
BY Zenon DEF SumFunctionOnSet, FoldFunctionOnSet, MapThenFoldSet,
       L!SumFunctionOnSet, L!FoldFunctionOnSet, L!MapThenFoldSet

LEMMA LedgerSizes == \A X : L!Cardinality(X) = Cardinality(X)
BY Zenon DEF Cardinality, L!Cardinality, IsFiniteSet, L!IsFiniteSet

LEMMA LedgerConstants ==
    /\ IsFiniteSet(Turns) /\ Turns \subseteq Nat /\ MaxTariff \in Nat \ {0} /\ MaxWrites \in Nat
    /\ \A t \in Turns : /\ RowOf[t].session \in DOMAIN Home /\ RowOf[t].tokens \in Nat
                        /\ RowOf[t].ts \in Int
                        /\ \A c \in 1..MaxTariff : Rate[<<RowOf[t].model, c>>] \in L!Rates
    /\ \A f \in DOMAIN Files : \A X \in Files[f] : X \subseteq Turns
    /\ \A q \in Queries : q.offset \in Int
    /\ None \notin [file : DOMAIN Files, turns : SUBSET Turns]
<1>1. L!LedgerAssumption
  BY Instances
<1>2. \A f \in DOMAIN Files : \A X \in Files[f] : X \subseteq Turns
  BY <1>1 DEF L!LedgerAssumption, L!Of
<1> QED  BY <1>1, <1>2 DEF L!LedgerAssumption, L!Session, L!IsFiniteSet, IsFiniteSet

LEMMA PricesAreNumbers ==
    ASSUME NEW t \in Turns, NEW c \in 1 .. MaxTariff, NEW n \in Nat
    PROVE  L!Price(RowOf[t].model, c, n) \in Nat
<1> DEFINE r == Rate[<<RowOf[t].model, c>>]
<1>1. r.low \in Nat /\ r.high \in Nat /\ r.threshold \in Nat
  BY LedgerConstants DEF L!Rates
<1>2. \A a, b \in Nat : a * b \in Nat /\ a + b \in Nat
  OBVIOUS
<1>3. L!Price(RowOf[t].model, c, n) = IF r.threshold > 0 /\ n > r.threshold
       THEN r.threshold * r.low + (n - r.threshold) * r.high
       ELSE n * r.low
  BY DEF L!Price
<1> HIDE DEF r
<1>4. n > r.threshold => n - r.threshold \in Nat
  BY <1>1
<1>5. n * r.low \in Nat /\ r.threshold * r.low \in Nat
  BY <1>1, <1>2
<1>6. n > r.threshold => (n - r.threshold) * r.high \in Nat
  BY <1>1, <1>2, <1>4
<1> QED  BY <1>2, <1>3, <1>5, <1>6

\* Rows that split a set of turns by some key add up to the total of the set.
LEMMA ClassesAddUp ==
    ASSUME NEW X \in SUBSET Turns, v2 \in [Turns -> Nat],
           NEW C, IsFiniteSet(C), NEW key, \A t \in X : key[t] \in C,
           NEW rows, DOMAIN rows = C, \A k \in C : rows[k] = L!Sum({t \in X : key[t] = k})
    PROVE  L!AddUp(rows) = L!Sum(X)
<1> DEFINE Of(k) == {t \in X : key[t] = k}
           w == [t \in X |-> RowOf[t].tokens]
<1>1. IsFiniteSet(X) /\ \A k \in C : Of(k) \in SUBSET X /\ IsFiniteSet(Of(k))
  BY LedgerConstants, FS_Subset
<1>2. \A t \in X : w[t] \in Int /\ v2[t] \in Int /\ RowOf[t].tokens \in Int
  <2>1. \A t \in X : v2[t] \in Nat /\ RowOf[t].tokens \in Nat
    BY LedgerConstants
  <2> QED  BY <2>1
<1>3. \A T : /\ L!Sum(T).turns = Cardinality(T)
             /\ L!Sum(T).tokens = SumFunctionOnSet([t \in T |-> RowOf[t].tokens], T)
             /\ L!Sum(T).cost = SumFunctionOnSet(v2, T)
             /\ L!Sum(T) = [turns |-> L!Sum(T).turns, tokens |-> L!Sum(T).tokens,
                            cost |-> L!Sum(T).cost]
  BY LedgerSums, LedgerSizes DEF L!Sum
<1>4. \A k \in C : SumFunctionOnSet([t \in Of(k) |-> RowOf[t].tokens], Of(k))
                     = SumFunctionOnSet(w, Of(k))
  <2> SUFFICES ASSUME NEW k \in C
               PROVE  SumFunctionOnSet([t \in Of(k) |-> RowOf[t].tokens], Of(k))
                        = SumFunctionOnSet(w, Of(k))
    OBVIOUS
  <2> DEFINE own == Of(k)
             h == [t \in own |-> RowOf[t].tokens]
  <2>1. \A t \in own : w[t] \in Int /\ h[t] = w[t]
    BY <1>2
  <2> HIDE DEF w, h, own
  <2>2. IsFiniteSet(own)
    BY <1>1 DEF own
  <2>3. SumFunctionOnSet(h, own) = SumFunctionOnSet(w, own)
    BY <2>1, <2>2, SumAgrees
  <2> QED  BY <2>3 DEF h, own
<1>5. /\ [k \in C |-> rows[k].turns] = [k \in C |-> Cardinality(Of(k))]
      /\ [k \in C |-> rows[k].tokens] = [k \in C |-> SumFunctionOnSet(w, Of(k))]
      /\ [k \in C |-> rows[k].cost] = [k \in C |-> SumFunctionOnSet(v2, Of(k))]
  <2>1. \A k \in C : /\ rows[k].turns = Cardinality(Of(k))
                     /\ rows[k].tokens = SumFunctionOnSet(w, Of(k))
                     /\ rows[k].cost = SumFunctionOnSet(v2, Of(k))
    <3> HIDE DEF w
    <3> QED  BY <1>3, <1>4
  <2> HIDE DEF Of, w
  <2> QED  BY <2>1
<1>6. SumFunctionOnSet([k \in C |-> rows[k].turns], C) = Cardinality(X)
  BY <1>1, <1>5, CountByClass
<1>7. SumFunctionOnSet([k \in C |-> rows[k].tokens], C) = SumFunctionOnSet(w, X)
  <2> HIDE DEF w
  <2>1. \A t \in X : w[t] \in Int /\ key[t] \in C
    BY <1>2
  <2>2. SumFunctionOnSet([k \in C |-> SumFunctionOnSet(w, Of(k))], C) = SumFunctionOnSet(w, X)
    BY <1>1, <2>1, SumByClass
  <2> QED  BY <1>5, <2>2
<1>8. SumFunctionOnSet([k \in C |-> rows[k].cost], C) = SumFunctionOnSet(v2, X)
  BY <1>1, <1>2, <1>5, SumByClass
<1>9. L!AddUp(rows) = [turns |-> SumFunctionOnSet([k \in C |-> rows[k].turns], C),
                       tokens |-> SumFunctionOnSet([k \in C |-> rows[k].tokens], C),
                       cost |-> SumFunctionOnSet([k \in C |-> rows[k].cost], C)]
  BY LedgerSums DEF L!AddUp
<1> QED  BY <1>3, <1>6, <1>7, <1>8, <1>9

\* A statement that groups the turns of a set counts each once, whatever the key.
LEMMA GroupAddsUp ==
    ASSUME NEW X \in SUBSET Turns, v2 \in [Turns -> Nat], NEW key
    PROVE  L!AddUp(L!Group(X, key)) = L!Sum(X)
<1> DEFINE C == {key[t] : t \in X}
           rows == L!Group(X, key)
<1>1. IsFiniteSet(X)
  BY LedgerConstants, FS_Subset
<1>2. IsFiniteSet(C)
  BY <1>1, ImageFinite
<1>3. DOMAIN rows = C /\ \A k \in C : rows[k] = L!Sum({t \in X : key[t] = k})
  BY DEF L!Group
<1>4. \A t \in X : key[t] \in C
  OBVIOUS
<1> HIDE DEF C, rows
<1>5. L!AddUp(rows) = L!Sum(X)
  BY <1>2, <1>3, <1>4, ClassesAddUp
<1> QED  BY <1>5 DEF rows

LEMMA SetsKept ==
    v1' = v1 /\ v2' = v2 /\ v3' = v3 =>
        /\ \A X : L!Sum(X)' = L!Sum(X)
        /\ L!Joined' = L!Joined /\ L!Calls' = L!Calls
        /\ \A p, d : L!Since(p, d)' = L!Since(p, d)
        /\ \A o : L!Dated(o)' = L!Dated(o)
        /\ \A q : L!Today(q)' = L!Today(q)
<1> SUFFICES ASSUME v1' = v1, v2' = v2, v3' = v3
             PROVE  /\ \A X : L!Sum(X)' = L!Sum(X)
                    /\ L!Joined' = L!Joined /\ L!Calls' = L!Calls
                    /\ \A p, d : L!Since(p, d)' = L!Since(p, d)
                    /\ \A o : L!Dated(o)' = L!Dated(o)
                    /\ \A q : L!Today(q)' = L!Today(q)
  OBVIOUS
<1>1. \A X : L!Sum(X)' = L!Sum(X)
  BY DEF L!Sum
<1>2. L!Joined' = L!Joined
  BY DEF L!Joined, L!Stored
<1>3. L!Calls' = L!Calls
  BY DEF L!Calls
<1>4. \A p, d : L!Since(p, d)' = L!Since(p, d)
  BY DEF L!Since
<1>5. \A o : L!Dated(o)' = L!Dated(o)
  BY DEF L!Dated
<1>6. \A q : L!Today(q)' = L!Today(q)
  BY DEF L!Today
<1> QED  BY <1>1, <1>2, <1>3, <1>4, <1>5, <1>6

LEMMA GroupsKept ==
    v1' = v1 /\ v2' = v2 /\ v3' = v3 =>
        /\ \A X, k : L!Group(X, k)' = L!Group(X, k)
        /\ \A X, k : L!Count(X, k)' = L!Count(X, k)
        /\ \A X : L!ByProvider(X)' = L!ByProvider(X)
        /\ \A X : L!ByModel(X)' = L!ByModel(X)
        /\ \A X : L!ByConfidence(X)' = L!ByConfidence(X)
        /\ \A X : L!ByBilling(X)' = L!ByBilling(X)
        /\ \A X : L!ModelRows(X)' = L!ModelRows(X)
        /\ \A X : L!Versions(X)' = L!Versions(X)
        /\ \A X : L!Projects(X)' = L!Projects(X)
        /\ \A o : L!Daily(o)' = L!Daily(o)
        /\ \A o, w : L!Weekly(o, w)' = L!Weekly(o, w)
        /\ L!Hourly' = L!Hourly /\ L!Subagents' = L!Subagents
        /\ L!SessionRows' = L!SessionRows /\ L!Entrypoints' = L!Entrypoints
        /\ L!Tiers' = L!Tiers /\ L!Branches' = L!Branches
<1> SUFFICES ASSUME v1' = v1, v2' = v2, v3' = v3
  PROVE /\ \A X, k : L!Group(X, k)' = L!Group(X, k)
        /\ \A X, k : L!Count(X, k)' = L!Count(X, k)
        /\ \A X : L!ByProvider(X)' = L!ByProvider(X)
        /\ \A X : L!ByModel(X)' = L!ByModel(X)
        /\ \A X : L!ByConfidence(X)' = L!ByConfidence(X)
        /\ \A X : L!ByBilling(X)' = L!ByBilling(X)
        /\ \A X : L!ModelRows(X)' = L!ModelRows(X)
        /\ \A X : L!Versions(X)' = L!Versions(X)
        /\ \A X : L!Projects(X)' = L!Projects(X)
        /\ \A o : L!Daily(o)' = L!Daily(o)
        /\ \A o, w : L!Weekly(o, w)' = L!Weekly(o, w)
        /\ L!Hourly' = L!Hourly /\ L!Subagents' = L!Subagents
        /\ L!SessionRows' = L!SessionRows /\ L!Entrypoints' = L!Entrypoints
        /\ L!Tiers' = L!Tiers /\ L!Branches' = L!Branches
  OBVIOUS
<1>1. \A X, k : L!Group(X, k)' = L!Group(X, k)
  BY SetsKept DEF L!Group
<1>2. \A X, k : L!Count(X, k)' = L!Count(X, k)
  BY DEF L!Count
<1>3. \A X : L!ByProvider(X)' = L!ByProvider(X)
  BY <1>1 DEF L!ByProvider
<1>4. \A X : L!ByModel(X)' = L!ByModel(X)
  BY <1>1 DEF L!ByModel
<1>5. \A X : L!ByConfidence(X)' = L!ByConfidence(X)
  BY <1>1 DEF L!ByConfidence
<1>6. \A X : L!ByBilling(X)' = L!ByBilling(X)
  BY <1>1 DEF L!ByBilling
<1>7. \A X : L!ModelRows(X)' = L!ModelRows(X)
  BY <1>4 DEF L!ModelRows
<1>8. \A X : L!Versions(X)' = L!Versions(X)
  BY <1>1 DEF L!Versions
<1>9. \A X : L!Projects(X)' = L!Projects(X)
  BY <1>1, SetsKept DEF L!Projects
<1>10. \A o : L!Daily(o)' = L!Daily(o)
  BY <1>1, SetsKept DEF L!Daily
<1>11. \A o, w : L!Weekly(o, w)' = L!Weekly(o, w)
  BY <1>1 DEF L!Weekly
<1>12. L!Hourly' = L!Hourly
  BY <1>1 DEF L!Hourly
<1>13. L!Subagents' = L!Subagents
  BY SetsKept DEF L!Subagents
<1>14. L!SessionRows' = L!SessionRows
  BY DEF L!SessionRows, L!Stored
<1>15. L!Entrypoints' = L!Entrypoints
  BY SetsKept DEF L!Entrypoints, L!Stored
<1>16. L!Tiers' = L!Tiers
  BY <1>2 DEF L!Tiers
<1>17. L!Branches' = L!Branches
  BY <1>1, SetsKept DEF L!Branches
<1> QED  BY <1>1, <1>2, <1>3, <1>4, <1>5, <1>6, <1>7, <1>8, <1>9, <1>10, <1>11, <1>12,
            <1>13, <1>14, <1>15, <1>16, <1>17

\* A handler opens the database first: its sections follow those two statements.
LEMMA AfterInitDb ==
    ASSUME NEW X, NEW t \in Seq(X), \A i \in DOMAIN t : t[i] \notin {"addup", "prune"}
    PROVE  /\ Len(L!InitDb \o t) = Len(t) + 2 /\ Len(t) \in Nat
           /\ DOMAIN (L!InitDb \o t) = 1 .. Len(t) + 2
           /\ (L!InitDb \o t)[1] = "addup" /\ (L!InitDb \o t)[2] = "prune"
           /\ \A i \in 1 .. Len(t) : (L!InitDb \o t)[i + 2] = t[i]
           /\ \A i \in DOMAIN (L!InitDb \o t) :
                  /\ (L!InitDb \o t)[i] = "addup" => i = 1
                  /\ (L!InitDb \o t)[i] = "prune" => i = 2 /\ (L!InitDb \o t)[1] = "addup"
                  /\ (L!InitDb \o t)[i] \in X \cup {"addup", "prune"}
<1> DEFINE both == X \cup {"addup", "prune"}
           w == L!InitDb \o t
<1>1. L!InitDb = <<"addup", "prune">> /\ Len(L!InitDb) = 2 /\ L!InitDb \in Seq(both)
  BY DEF L!InitDb
<1>2. Len(t) \in Nat /\ DOMAIN t = 1 .. Len(t)
  BY LenProperties
<1>3. t \in Seq(both)
  <2>1. \A i \in 1 .. Len(t) : t[i] \in both
    BY ElementOfSeq
  <2> QED  BY <1>2, <2>1
<1>10. both = X \cup {"addup", "prune"}
  OBVIOUS
<1> HIDE DEF both
<1>4. /\ w \in Seq(both) /\ Len(w) = 2 + Len(t)
      /\ \A i \in 1 .. 2 + Len(t) : w[i] = IF i <= 2 THEN L!InitDb[i] ELSE t[i - 2]
  BY <1>1, <1>3, ConcatProperties
<1>5. DOMAIN w = 1 .. Len(t) + 2
  BY <1>2, <1>4, LenProperties
<1> HIDE DEF w
<1>6. w[1] = "addup" /\ w[2] = "prune"
  BY <1>1, <1>2, <1>4
<1>7. \A i \in 1 .. Len(t) : w[i + 2] = t[i]
  <2> SUFFICES ASSUME NEW i \in 1 .. Len(t) PROVE w[i + 2] = t[i]
    OBVIOUS
  <2>1. i + 2 \in 1 .. 2 + Len(t) /\ ~(i + 2 <= 2) /\ (i + 2) - 2 = i
    BY <1>2
  <2> QED  BY <1>4, <2>1
<1>8. \A i \in DOMAIN w : (w[i] = "addup" => i = 1) /\ (w[i] = "prune" => i = 2)
  <2> SUFFICES ASSUME NEW i \in DOMAIN w, i # 1, i # 2 PROVE w[i] \notin {"addup", "prune"}
    BY <1>6
  <2>1. i - 2 \in DOMAIN t /\ w[i] = t[i - 2]
    BY <1>2, <1>4, <1>5
  <2> QED  BY <2>1
<1>9. Len(w) = Len(t) + 2
  BY <1>2, <1>4
<1>11. \A i \in DOMAIN w : w[i] \in both
  BY <1>4, LenProperties, ElementOfSeq
<1> QED  BY <1>2, <1>5, <1>6, <1>7, <1>8, <1>9, <1>10, <1>11 DEF w

LEMMA DashboardNames ==
    /\ Len(L!DashboardReport) \in Nat /\ DOMAIN L!DashboardReport = 1 .. Len(L!DashboardReport)
    /\ \A i \in DOMAIN L!DashboardReport :
          /\ L!DashboardReport[i] = "addup" => i = 1
          /\ L!DashboardReport[i] = "prune" => i = 2 /\ L!DashboardReport[1] = "addup"
          /\ L!DashboardReport[i] \notin {"today models", "today providers", "today billing",
                                 "totals", "heatmap", "rows"}
    /\ \A n \in {"providers", "confidence", "billing", "daily", "sessions", "subagents",
                 "entrypoints", "hourly", "versions", "projects", "weekly"} :
          \E i \in DOMAIN L!DashboardReport : L!DashboardReport[i] = n
    /\ L!DashboardReport[1] = "addup"
<1> DEFINE t == <<"models", "providers", "confidence", "billing", "daily", "sessions",
                  "subagents", "entrypoints", "tiers", "tools", "mcp", "hourly", "branches",
                  "versions", "projects", "efficiency", "weekly", "codex">>
           X == {"models", "providers", "confidence", "billing", "daily", "sessions",
                  "subagents", "entrypoints", "tiers", "tools", "mcp", "hourly", "branches",
                  "versions", "projects", "efficiency", "weekly", "codex"}
<1>1. t \in Seq(X) /\ \A x \in X : x \notin {"addup", "prune"}
  OBVIOUS
<1>2. /\ Len(t) = 18 /\ t[2] = "providers" /\ t[3] = "confidence" /\ t[4] = "billing"
      /\ t[5] = "daily" /\ t[6] = "sessions" /\ t[7] = "subagents" /\ t[8] = "entrypoints"
      /\ t[12] = "hourly" /\ t[14] = "versions" /\ t[15] = "projects" /\ t[17] = "weekly"
  OBVIOUS
<1> HIDE DEF t, X
<1>3. \A i \in DOMAIN t : t[i] \notin {"addup", "prune"}
  BY <1>1, ElementOfSeq, LenProperties
<1>4. L!DashboardReport = L!InitDb \o t
  BY DEF L!DashboardReport, t
<1>5. /\ Len(L!DashboardReport) = 20 /\ DOMAIN L!DashboardReport = 1 .. 20
      /\ L!DashboardReport[1] = "addup"
      /\ \A i \in 1 .. 18 : L!DashboardReport[i + 2] = t[i]
      /\ \A i \in DOMAIN L!DashboardReport :
            /\ L!DashboardReport[i] = "addup" => i = 1
            /\ L!DashboardReport[i] = "prune" => i = 2 /\ L!DashboardReport[1] = "addup"
            /\ L!DashboardReport[i] \in X \cup {"addup", "prune"}
  <2>1. /\ Len(L!InitDb \o t) = Len(t) + 2
        /\ DOMAIN (L!InitDb \o t) = 1 .. Len(t) + 2
        /\ (L!InitDb \o t)[1] = "addup" /\ (L!InitDb \o t)[2] = "prune"
        /\ \A i \in 1 .. Len(t) : (L!InitDb \o t)[i + 2] = t[i]
        /\ \A i \in DOMAIN (L!InitDb \o t) :
              /\ (L!InitDb \o t)[i] = "addup" => i = 1
              /\ (L!InitDb \o t)[i] = "prune" => i = 2 /\ (L!InitDb \o t)[1] = "addup"
              /\ (L!InitDb \o t)[i] \in X \cup {"addup", "prune"}
    BY <1>1, <1>3, AfterInitDb
  <2>2. Len(t) + 2 = 20
    BY <1>2
  <2> QED  BY <1>2, <1>4, <2>1, <2>2
<1>6. \A i \in 1 .. 18 : \E j \in DOMAIN L!DashboardReport : L!DashboardReport[j] = t[i]
  <2>1. \A i \in 1 .. 18 : i + 2 \in 1 .. 20
    OBVIOUS
  <2> QED  BY <1>5, <2>1
<1>7. \A n \in {"providers", "confidence", "billing", "daily", "sessions", "subagents",
                 "entrypoints", "hourly", "versions", "projects", "weekly"} :
          \E i \in 1 .. 18 : t[i] = n
  BY <1>2
<1>8. \A n \in {"providers", "confidence", "billing", "daily", "sessions", "subagents",
                 "entrypoints", "hourly", "versions", "projects", "weekly"} :
          \E i \in DOMAIN L!DashboardReport : L!DashboardReport[i] = n
  <2> SUFFICES ASSUME NEW n, \E i \in 1 .. 18 : t[i] = n
               PROVE  \E i \in DOMAIN L!DashboardReport : L!DashboardReport[i] = n
    BY <1>7
  <2> QED  BY <1>6
<1>9. Len(L!DashboardReport) \in Nat /\ DOMAIN L!DashboardReport = 1 .. Len(L!DashboardReport)
  BY <1>5
<1>10. \A i \in DOMAIN L!DashboardReport :
           L!DashboardReport[i] \notin {"today models", "today providers", "today billing",
                               "totals", "heatmap", "rows"}
  BY <1>5 DEF X
<1> QED  BY <1>5, <1>8, <1>9, <1>10

LEMMA ProviderNames ==
    /\ Len(L!ProviderReport) \in Nat /\ DOMAIN L!ProviderReport = 1 .. Len(L!ProviderReport)
    /\ \A i \in DOMAIN L!ProviderReport :
          /\ L!ProviderReport[i] = "addup" => i = 1
          /\ L!ProviderReport[i] = "prune" => i = 2 /\ L!ProviderReport[1] = "addup"
          /\ L!ProviderReport[i] \notin {"today models", "today providers", "today billing",
                                 "totals", "heatmap", "rows"}
    /\ \A n \in {"since", "provider models", "provider daily", "provider projects",
                 "provider hours", "provider versions"} :
          \E i \in DOMAIN L!ProviderReport : L!ProviderReport[i] = n
<1> DEFINE t == <<"since today", "since", "history", "savings", "provider models",
                  "provider daily", "provider projects", "provider tools",
                  "provider mcp", "provider hours", "recent", "provider agents",
                  "provider versions">>
           X == {"since today", "since", "history", "savings", "provider models",
                "provider daily", "provider projects", "provider tools",
                "provider mcp", "provider hours", "recent", "provider agents",
                "provider versions"}
<1>1. t \in Seq(X) /\ \A x \in X : x \notin {"addup", "prune"}
  OBVIOUS
<1>2. /\ Len(t) = 13 /\ t[2] = "since" /\ t[5] = "provider models"
      /\ t[6] = "provider daily" /\ t[7] = "provider projects" /\ t[10] = "provider hours"
      /\ t[13] = "provider versions"
  OBVIOUS
<1> HIDE DEF t, X
<1>3. \A i \in DOMAIN t : t[i] \notin {"addup", "prune"}
  BY <1>1, ElementOfSeq, LenProperties
<1>4. L!ProviderReport = L!InitDb \o t
  BY DEF L!ProviderReport, t
<1>5. /\ Len(L!ProviderReport) = 15 /\ DOMAIN L!ProviderReport = 1 .. 15
      /\ L!ProviderReport[1] = "addup"
      /\ \A i \in 1 .. 13 : L!ProviderReport[i + 2] = t[i]
      /\ \A i \in DOMAIN L!ProviderReport :
            /\ L!ProviderReport[i] = "addup" => i = 1
            /\ L!ProviderReport[i] = "prune" => i = 2 /\ L!ProviderReport[1] = "addup"
            /\ L!ProviderReport[i] \in X \cup {"addup", "prune"}
  <2>1. /\ Len(L!InitDb \o t) = Len(t) + 2
        /\ DOMAIN (L!InitDb \o t) = 1 .. Len(t) + 2
        /\ (L!InitDb \o t)[1] = "addup" /\ (L!InitDb \o t)[2] = "prune"
        /\ \A i \in 1 .. Len(t) : (L!InitDb \o t)[i + 2] = t[i]
        /\ \A i \in DOMAIN (L!InitDb \o t) :
              /\ (L!InitDb \o t)[i] = "addup" => i = 1
              /\ (L!InitDb \o t)[i] = "prune" => i = 2 /\ (L!InitDb \o t)[1] = "addup"
              /\ (L!InitDb \o t)[i] \in X \cup {"addup", "prune"}
    BY <1>1, <1>3, AfterInitDb
  <2>2. Len(t) + 2 = 15
    <3>1. Len(t) = 13
      BY <1>2
    <3> QED  BY <3>1
  <2> QED  BY <1>2, <1>4, <2>1, <2>2
<1>6. \A i \in 1 .. 13 : \E j \in DOMAIN L!ProviderReport : L!ProviderReport[j] = t[i]
  <2>1. \A i \in 1 .. 13 : i + 2 \in 1 .. 15
    OBVIOUS
  <2> QED  BY <1>5, <2>1
<1>7. \A n \in {"since", "provider models", "provider daily", "provider projects",
                 "provider hours", "provider versions"} :
          \E i \in 1 .. 13 : t[i] = n
  <2>1. {2, 5, 6, 7, 10, 13} \subseteq 1 .. 13
    OBVIOUS
  <2> QED  BY <1>2, <2>1
<1>8. \A n \in {"since", "provider models", "provider daily", "provider projects",
                 "provider hours", "provider versions"} :
          \E i \in DOMAIN L!ProviderReport : L!ProviderReport[i] = n
  <2> SUFFICES ASSUME NEW n, \E i \in 1 .. 13 : t[i] = n
               PROVE  \E i \in DOMAIN L!ProviderReport : L!ProviderReport[i] = n
    BY <1>7
  <2> QED  BY <1>6
<1>9. Len(L!ProviderReport) \in Nat /\ DOMAIN L!ProviderReport = 1 .. Len(L!ProviderReport)
  BY <1>5
<1>10. \A i \in DOMAIN L!ProviderReport :
           L!ProviderReport[i] \notin {"today models", "today providers", "today billing",
                               "totals", "heatmap", "rows"}
  BY <1>5 DEF X
<1> QED  BY <1>5, <1>8, <1>9, <1>10

\* A short report that opens the database, and one that does not.
LEMMA ShortNames ==
    ASSUME NEW X, X \cap {"addup", "prune"} = {}, NEW t \in Seq(X)
    PROVE  \A w \in {t, L!InitDb \o t} :
              /\ Len(w) \in Nat /\ DOMAIN w = 1 .. Len(w)
              /\ \A i \in DOMAIN w : /\ w[i] = "addup" => i = 1
                                     /\ w[i] = "prune" => i = 2 /\ w[1] = "addup"
<1>1. Len(t) \in Nat /\ DOMAIN t = 1 .. Len(t) /\ \A i \in DOMAIN t : t[i] \in X
  BY LenProperties, ElementOfSeq
<1>2. \A i \in DOMAIN t : t[i] \notin {"addup", "prune"}
  BY <1>1
<1> DEFINE w == L!InitDb \o t
<1>3. /\ Len(w) = Len(t) + 2 /\ DOMAIN w = 1 .. Len(t) + 2
      /\ \A i \in DOMAIN w : /\ w[i] = "addup" => i = 1
                             /\ w[i] = "prune" => i = 2 /\ w[1] = "addup"
  BY <1>2, AfterInitDb
<1>4. Len(w) \in Nat /\ DOMAIN w = 1 .. Len(w)
  BY <1>1, <1>3
<1>5. \A i \in DOMAIN t : /\ t[i] = "addup" => i = 1
                         /\ t[i] = "prune" => i = 2 /\ t[1] = "addup"
  BY <1>2
<1> HIDE DEF w
<1> QED  BY <1>1, <1>3, <1>4, <1>5 DEF w

LEMMA ReportShapes ==
    ASSUME NEW r \in DOMAIN L!Reports
    PROVE  LET w == L!Names(r) IN
              /\ Len(w) \in Nat /\ DOMAIN w = 1 .. Len(w)
              /\ \A i \in DOMAIN w : /\ w[i] = "addup" => i = 1
                                     /\ w[i] = "prune" => i = 2 /\ w[1] = "addup"
<1> DEFINE Shaped(w) == /\ Len(w) \in Nat /\ DOMAIN w = 1 .. Len(w)
                        /\ \A i \in DOMAIN w : /\ w[i] = "addup" => i = 1
                                               /\ w[i] = "prune" => i = 2 /\ w[1] = "addup"
           X == {"heatmap", "average", "errors", "local costs", "count", "totals", "by model",
                 "providers", "confidence", "billing", "today models", "today providers",
                 "today confidence", "today billing", "weeks", "rows", "stored rows"}
<1>0. X \cap {"addup", "prune"} = {}
  OBVIOUS
<1>1. Shaped(L!HeatmapReport)
  <2>1. <<"heatmap", "average">> \in Seq(X)
    OBVIOUS
  <2>2. Shaped(L!InitDb \o <<"heatmap", "average">>)
    <3> HIDE DEF X
    <3> QED  BY <1>0, <2>1, ShortNames
  <2> HIDE DEF Shaped
  <2> QED  BY <2>2 DEF L!HeatmapReport
<1>2. Shaped(L!ErrorsReport)
  <2>1. <<"errors">> \in Seq(X)
    OBVIOUS
  <2>2. Shaped(L!InitDb \o <<"errors">>)
    <3> HIDE DEF X
    <3> QED  BY <1>0, <2>1, ShortNames
  <2> HIDE DEF Shaped
  <2> QED  BY <2>2 DEF L!ErrorsReport
<1>3. Shaped(L!CostsReport)
  <2>1. <<"local costs">> \in Seq(X)
    OBVIOUS
  <2>2. Shaped(L!InitDb \o <<"local costs">>)
    <3> HIDE DEF X
    <3> QED  BY <1>0, <2>1, ShortNames
  <2> HIDE DEF Shaped
  <2> QED  BY <2>2 DEF L!CostsReport
<1>4. Shaped(L!StatsCommand)
  <2>1. L!StatsCommand \in Seq(X)
    BY DEF L!StatsCommand
  <2> HIDE DEF X
  <2> QED  BY <1>0, <2>1, ShortNames
<1>5. Shaped(L!TodayCommand)
  <2>1. L!TodayCommand \in Seq(X)
    BY DEF L!TodayCommand
  <2> HIDE DEF X
  <2> QED  BY <1>0, <2>1, ShortNames
<1>6. Shaped(L!WeeklyCommand)
  <2>1. L!WeeklyCommand \in Seq(X)
    BY DEF L!WeeklyCommand
  <2> HIDE DEF X
  <2> QED  BY <1>0, <2>1, ShortNames
<1>7. Shaped(L!ExportCommand)
  <2>1. L!ExportCommand \in Seq(X)
    BY DEF L!ExportCommand
  <2> HIDE DEF X
  <2> QED  BY <1>0, <2>1, ShortNames
<1>8. Shaped(L!McpToday)
  <2>1. L!McpToday \in Seq(X)
    BY DEF L!McpToday
  <2> HIDE DEF X
  <2> QED  BY <1>0, <2>1, ShortNames
<1>9. Shaped(L!McpStats)
  <2>1. L!McpStats \in Seq(X)
    BY DEF L!McpStats
  <2> HIDE DEF X
  <2> QED  BY <1>0, <2>1, ShortNames
<1>10. Shaped(L!McpSessions)
  <2>1. L!McpSessions \in Seq(X)
    BY DEF L!McpSessions
  <2> HIDE DEF X
  <2> QED  BY <1>0, <2>1, ShortNames
<1>11. Shaped(L!DashboardReport) /\ Shaped(L!ProviderReport)
  BY DashboardNames, ProviderNames
<1> HIDE DEF Shaped
<1>12. Shaped(L!Reports[r])
  BY <1>1, <1>2, <1>3, <1>4, <1>5, <1>6, <1>7, <1>8, <1>9, <1>10, <1>11 DEF L!Reports
<1> QED  BY <1>12 DEF Shaped, L!Names

\* But for the savings, a section reads nothing that a new catalog changes.
LEMMA SectionKept ==
    v1' = v1 /\ v2' = v2 /\ v3' = v3 =>
        \A n, q : n # "efficiency" => L!Section(n, q)' = L!Section(n, q)
<1> SUFFICES ASSUME v1' = v1, v2' = v2, v3' = v3, NEW n, n # "efficiency", NEW q
             PROVE  L!Section(n, q)' = L!Section(n, q)
  OBVIOUS
<1>1. /\ \A C : L!Tools(C)' = L!Tools(C) /\ L!Servers(C)' = L!Servers(C)
      /\ \A p, d : L!Summary(p, d)' = L!Summary(p, d) /\ L!Savings(p, d)' = L!Savings(p, d)
  BY SetsKept, GroupsKept DEF L!Tools, L!Servers, L!Summary, L!Savings
<1>2. \A p, d, o : L!SummaryTz(p, d, o)' = L!SummaryTz(p, d, o)
  BY SetsKept DEF L!SummaryTz
<1>3. \A p, d, o : L!HistoryTz(p, d, o)' = L!HistoryTz(p, d, o)
  BY GroupsKept DEF L!HistoryTz
<1>4. \A p : L!RecentSessions(p)' = L!RecentSessions(p)
  BY SetsKept DEF L!RecentSessions, L!Stored
<1>5. \A p, d : L!ProviderAgents(p, d)' = L!ProviderAgents(p, d)
  BY SetsKept DEF L!ProviderAgents
<1>6. L!Heatmap(q)' = L!Heatmap(q)
  BY SetsKept DEF L!Heatmap
<1>7. L!Average(q)' = L!Average(q)
  BY SetsKept DEF L!Average
<1>8. L!ErrorRows(q)' = L!ErrorRows(q)
  BY SetsKept DEF L!ErrorRows
<1>9. L!LocalByDay(q)' = L!LocalByDay(q)
  BY GroupsKept DEF L!LocalByDay
<1>10. L!Exported(q)' = L!Exported(q)
  BY GroupsKept DEF L!Exported, L!Stored
<1>11. L!Stored' = L!Stored
  BY DEF L!Stored
<1> QED  BY SetsKept, GroupsKept, <1>1, <1>2, <1>3, <1>4, <1>5, <1>6, <1>7, <1>8, <1>9,
            <1>10, <1>11 DEF L!Section

LEMMA LedgerStarts == L!Init => L!Inv
<1> SUFFICES ASSUME L!Init PROVE L!Inv
  OBVIOUS
<1>1. /\ v1 = {} /\ v2 = [t \in Turns |-> 0] /\ v3 = <<>> /\ v4 = 1 /\ v5 = "idle"
      /\ v6 = None /\ v7 = FALSE /\ v8 = {} /\ v9 = 0 /\ v10 = None /\ v12 = <<>>
  BY DEF L!Init
<1>2. L!TypeOK
  <2>1. L!Stored \subseteq DOMAIN Home /\ v2 \in [Turns -> Nat] /\ v4 \in 1..MaxTariff
        /\ v9 \in 0..MaxWrites
    BY <1>1, LedgerConstants DEF L!Stored
  <2>2. (v5 = "insert") = (v6 # None)
    BY <1>1
  <2> QED  BY <1>1, <2>1, <2>2 DEF L!TypeOK
<1>3. Len(v12) = 0 /\ v12 = [i \in 1 .. Len(v12) |-> v12[i]]
  BY <1>1
<1> QED  BY <1>1, <1>2, <1>3 DEF L!Inv, L!Storing, L!Stored

LEMMA PricedNat ==
    ASSUME L!TypeOK, NEW t \in Turns
    PROVE  L!PriceOf(t) \in Nat
BY PricesAreNumbers, LedgerConstants DEF L!TypeOK, L!PriceOf

\* A writer that leaves nothing quiet owes the reader nothing.
LEMMA LoudStep ==
    ASSUME L!Inv, L!TypeOK', L!Storing', L!Stored' \subseteq L!SessionsOf(Turns),
           v10' = v10, v11' = v11, v12' = v12, ~v13'
    PROVE  L!Inv'
BY DEF L!Inv, L!SessionsOf, L!Session, L!Names, L!Reports, L!DashboardReport, L!ProviderReport

\* A step that leaves the tables and the reader alone leaves its answer true.
LEMMA QuietStep ==
    ASSUME L!Inv, L!TypeOK', L!Storing', v1' = v1, v2' = v2, v3' = v3,
           v10' = v10, v11' = v11, v12' = v12, v13' => v13
    PROVE  L!Inv'
<1>1. (v10 # None /\ v13 => L!AsStored) /\ (v10 # None /\ v13' => L!AsStored)
  BY DEF L!Inv
<1>2. L!AsStored => L!AsStored'
  <2> SUFFICES ASSUME L!AsStored PROVE L!AsStored'
    OBVIOUS
  <2>1. \A n : L!Names(n)' = L!Names(n)
    OBVIOUS
  <2>2. (\A i \in DOMAIN v12 :
           \/ L!Names(v10)[i] \in {"addup", "prune", "efficiency"}
           \/ v12[i] = L!Section(L!Names(v10)[i], v11))'
    BY SectionKept DEF L!AsStored
  <2>3. (v12 # <<>> /\ L!Names(v10)[1] = "addup" =>
           \A s \in L!Stored : v3[s] = L!Sum({t \in v1 : L!Session(t) = s}))'
    BY SetsKept DEF L!AsStored, L!Stored
  <2> QED  BY <2>2, <2>3 DEF L!AsStored
<1> QED  BY <1>1, <1>2 DEF L!Inv, L!Stored

LEMMA WritersStep ==
    ASSUME L!Inv,
           \/ \E f \in DOMAIN Files : \E X \in Files[f] : L!StoreRows(f, X)
           \/ L!StoreTurns \/ L!ScanAddsUp \/ L!ScanPrunes \/ L!RepriceAddsUp
    PROVE  L!Inv'
<1>1. L!TypeOK /\ L!Storing /\ L!Stored \subseteq L!SessionsOf(Turns)
  BY DEF L!Inv
<1>2. ASSUME NEW f \in DOMAIN Files, NEW X \in Files[f], L!StoreRows(f, X) PROVE L!Inv'
  <2>1. /\ v9 < MaxWrites /\ v9' = v9 + 1 /\ v5' = "insert"
        /\ v6' = [file |-> f, turns |-> X] /\ ~v13'
        /\ v1' = v1 /\ v2' = v2 /\ v4' = v4 /\ v7' = v7 /\ v8' = v8
        /\ v10' = v10 /\ v11' = v11 /\ v12' = v12
        /\ DOMAIN v3' = L!Stored \cup L!SessionsOf(X)
    BY <1>2 DEF L!StoreRows
  <2>2. X \subseteq Turns /\ v6' # None
    BY <2>1, LedgerConstants
  <2>3. L!SessionsOf(X) \subseteq L!SessionsOf(Turns) /\ L!SessionsOf(X) \subseteq DOMAIN Home
    BY <2>2, LedgerConstants DEF L!SessionsOf, L!Session
  <2>4. v9' \in 0..MaxWrites
    BY <1>1, <2>1, LedgerConstants DEF L!TypeOK
  <2>5. L!TypeOK'
    BY <1>1, <2>1, <2>2, <2>3, <2>4 DEF L!TypeOK, L!Stored
  <2>6. L!Storing' /\ L!Stored' \subseteq L!SessionsOf(Turns)
    BY <1>1, <2>1, <2>3 DEF L!Storing, L!Stored
  <2> QED  BY <2>1, <2>5, <2>6, LoudStep
<1>3. CASE L!StoreTurns
  <2>1. /\ v5 = "insert" /\ v5' = "more" /\ v6' = None /\ ~v13'
        /\ v1' = (v1 \ L!Of(v6.file)) \cup v6.turns
        /\ v2' = [t \in Turns |-> IF t \in v6.turns THEN L!PriceOf(t) ELSE v2[t]]
        /\ v3' = v3 /\ v4' = v4 /\ v7' = v7 /\ v8' = v8 /\ v9' = v9
        /\ v10' = v10 /\ v11' = v11 /\ v12' = v12
    BY <1>3 DEF L!StoreTurns
  <2>2. v6.turns \subseteq Turns
    BY <1>1, <2>1, LedgerConstants DEF L!TypeOK, L!Storing
  <2>3. v2' \in [Turns -> Nat]
    BY <1>1, <2>1, PricedNat DEF L!TypeOK
  <2>4. L!TypeOK'
    BY <1>1, <2>1, <2>2, <2>3 DEF L!TypeOK, L!Stored
  <2> QED  BY <1>1, <2>1, <2>4, LoudStep DEF L!Storing, L!Stored
<1>4. CASE L!ScanAddsUp
  <2>1. /\ v5 = "more" /\ v5' = "prune" /\ v3' = L!Totals /\ v6' = v6 /\ ~v13'
        /\ v1' = v1 /\ v2' = v2 /\ v4' = v4 /\ v7' = v7 /\ v8' = v8 /\ v9' = v9
        /\ v10' = v10 /\ v11' = v11 /\ v12' = v12
    BY <1>4 DEF L!ScanAddsUp
  <2>2. DOMAIN v3' = DOMAIN v3
    BY <2>1 DEF L!Totals, L!Stored
  <2>3. L!TypeOK' /\ L!Storing' /\ L!Stored' = L!Stored
    BY <1>1, <2>1, <2>2 DEF L!TypeOK, L!Stored, L!Storing
  <2> QED  BY <1>1, <2>1, <2>3, LoudStep
<1>5. CASE L!ScanPrunes
  <2>1. /\ v5 = "prune" /\ v5' = "idle" /\ v3' = L!WithTurns /\ v6' = v6 /\ ~v13'
        /\ v1' = v1 /\ v2' = v2 /\ v4' = v4 /\ v7' = v7 /\ v8' = v8 /\ v9' = v9
        /\ v10' = v10 /\ v11' = v11 /\ v12' = v12
    BY <1>5 DEF L!ScanPrunes
  <2>2. DOMAIN v3' \subseteq DOMAIN v3
    BY <2>1 DEF L!WithTurns, L!Stored
  <2>3. L!TypeOK' /\ L!Storing' /\ L!Stored' \subseteq L!Stored
    BY <1>1, <2>1, <2>2 DEF L!TypeOK, L!Stored, L!Storing
  <2> QED  BY <1>1, <2>1, <2>3, LoudStep
<1>6. CASE L!RepriceAddsUp
  <2>1. /\ v7' = FALSE /\ v6' = v6 /\ ~v13' /\ DOMAIN v3' = L!Stored \cap L!SessionsOf(v1)
        /\ v1' = v1 /\ v2' = v2 /\ v4' = v4 /\ v5' = v5 /\ v8' = v8 /\ v9' = v9
        /\ v10' = v10 /\ v11' = v11 /\ v12' = v12
    BY <1>6 DEF L!RepriceAddsUp
  <2>2. L!TypeOK' /\ L!Storing' /\ L!Stored' \subseteq L!Stored
    BY <1>1, <2>1 DEF L!TypeOK, L!Stored, L!Storing
  <2> QED  BY <1>1, <2>1, <2>2, LoudStep
<1> QED  BY <1>2, <1>3, <1>4, <1>5, <1>6

LEMMA RepricersStep ==
    ASSUME L!Inv, L!ScanDies \/ L!BeginReprice \/ L!RepriceTurn
    PROVE  L!Inv'
<1>1. L!TypeOK /\ L!Storing /\ L!Stored \subseteq L!SessionsOf(Turns)
  BY DEF L!Inv
<1>2. CASE L!ScanDies
  <2>1. /\ v5' = "idle" /\ v6' = None
        /\ UNCHANGED <<v1, v2, v3, v4, v7, v8, v9, v10, v11, v12, v13>>
    BY <1>2 DEF L!ScanDies, L!db, L!reader
  <2>2. L!TypeOK' /\ L!Storing'
    BY <1>1, <2>1 DEF L!TypeOK, L!Stored, L!Storing
  <2> QED  BY <2>1, <2>2, QuietStep
<1>3. CASE L!BeginReprice
  <2>1. /\ v4 < MaxTariff /\ v9 < MaxWrites /\ v9' = v9 + 1 /\ v4' = v4 + 1 /\ v7' = TRUE
        /\ v8' = v1 /\ UNCHANGED <<v1, v2, v3, v5, v6, v10, v11, v12, v13>>
    BY <1>3 DEF L!BeginReprice, L!reader
  <2>2. v9' \in 0..MaxWrites /\ v4' \in 1..MaxTariff
    BY <1>1, <2>1, LedgerConstants DEF L!TypeOK
  <2>3. L!TypeOK' /\ L!Storing'
    BY <1>1, <2>1, <2>2 DEF L!TypeOK, L!Stored, L!Storing
  <2> QED  BY <2>1, <2>3, QuietStep
<1>4. CASE L!RepriceTurn
  <2>1. PICK t : /\ t = L!Min(v8) /\ v8' = v8 \ {t}
                 /\ v2' = IF t \in v1 THEN [v2 EXCEPT ![t] = L!PriceOf(t)] ELSE v2
                 /\ v13' = (v13 /\ v2' = v2)
                 /\ UNCHANGED <<v1, v3, v4, v5, v6, v7, v9, v10, v11, v12>>
    BY <1>4 DEF L!RepriceTurn
  <2>2. v1 \subseteq Turns /\ v2 \in [Turns -> Nat]
    BY <1>1 DEF L!TypeOK
  <2>3. v2' \in [Turns -> Nat]
    BY <1>1, <2>1, <2>2, PricedNat
  <2>4. L!TypeOK' /\ L!Storing'
    BY <1>1, <2>1, <2>3 DEF L!TypeOK, L!Stored, L!Storing
  <2>5. CASE v2' = v2
    BY <2>1, <2>4, <2>5, QuietStep
  <2>6. CASE v2' # v2
    BY <1>1, <2>1, <2>4, <2>6, LoudStep DEF L!Stored
  <2> QED  BY <2>5, <2>6
<1> QED  BY <1>2, <1>3, <1>4

LEMMA ReadersStep ==
    ASSUME L!Inv, \/ \E r \in DOMAIN L!Reports : \E q \in Queries : L!Ask(r, q)
                  \/ L!ReadSection \/ L!Reply
    PROVE  L!Inv'
<1>1. L!TypeOK /\ L!Storing /\ L!Stored \subseteq L!SessionsOf(Turns)
      /\ Len(v12) \in Nat /\ v12 = [i \in 1 .. Len(v12) |-> v12[i]]
      /\ (v10 # None => v11 \in Queries /\ Len(v12) <= Len(L!Names(v10)))
      /\ (v10 # None /\ v13 => L!AsStored)
  BY DEF L!Inv
<1>2. ASSUME NEW r \in DOMAIN L!Reports, NEW q \in Queries, L!Ask(r, q) PROVE L!Inv'
  <2>1. v10' = r /\ v11' = q /\ v12' = <<>>
        /\ UNCHANGED <<v1, v2, v3, v4, v5, v6, v7, v8, v9>>
    BY <1>2 DEF L!Ask, L!db, L!writers
  <2>2. L!TypeOK' /\ L!Storing'
    BY <1>1, <2>1 DEF L!TypeOK, L!Stored, L!Storing, L!Reports
  <2>3. Len(v12') = 0 /\ v12' = [i \in 1 .. Len(v12') |-> v12'[i]] /\ DOMAIN v12' = {}
    BY <2>1
  <2>4. L!AsStored'
    BY <2>1, <2>3 DEF L!AsStored
  <2>5. Len(v12') <= Len(L!Names(v10))'
    <3>1. L!Names(v10)' = L!Names(r)
      BY <2>1
    <3> QED  BY <2>3, <3>1, ReportShapes
  <2> QED  BY <1>1, <2>1, <2>2, <2>3, <2>4, <2>5 DEF L!Inv, L!Stored, L!SessionsOf, L!Session
<1>3. CASE L!Reply
  <2>1. v10' = None /\ v12' = <<>> /\ UNCHANGED <<v1, v2, v3, v4, v5, v6, v7, v8, v9>>
    BY <1>3 DEF L!Reply, L!db, L!writers
  <2>2. L!TypeOK' /\ L!Storing'
    BY <1>1, <2>1 DEF L!TypeOK, L!Stored, L!Storing
  <2>3. Len(v12') = 0 /\ v12' = [i \in 1 .. Len(v12') |-> v12'[i]] /\ DOMAIN v12' = {}
    BY <2>1
  <2> QED  BY <1>1, <2>1, <2>2, <2>3 DEF L!Inv, L!Stored, L!SessionsOf, L!Session
<1>4. CASE L!ReadSection
  <2> DEFINE w == L!Names(v10)
  <2>1. /\ v10 # None /\ Len(v12) < Len(w)
        /\ v3' = CASE L!Next1 = "addup" -> L!Totals [] L!Next1 = "prune" -> L!WithTurns
                   [] OTHER -> v3
        /\ v12' = Append(v12, IF L!Next1 \in {"addup", "prune"} THEN None
                              ELSE L!Section(L!Next1, v11))
        /\ UNCHANGED <<v1, v2, v4, v5, v6, v7, v8, v9, v10, v11, v13>>
    BY <1>4 DEF L!ReadSection, L!writers
  <2>2. PICK new : /\ v12' = Append(v12, new)
                   /\ L!Next1 \notin {"addup", "prune"} => new = L!Section(L!Next1, v11)
    BY <2>1
  <2>3. /\ Len(v12') = Len(v12) + 1 /\ DOMAIN v12 = 1 .. Len(v12)
        /\ DOMAIN v12' = 1 .. Len(v12) + 1
        /\ \A i \in 1 .. Len(v12) : v12'[i] = v12[i]
        /\ v12'[Len(v12) + 1] = new
        /\ v12' = [i \in 1 .. Len(v12') |-> v12'[i]]
    <3> DEFINE X == {v12[i] : i \in DOMAIN v12} \cup {new}
    <3>1. v12 \in Seq(X)
      BY <1>1
    <3> HIDE DEF X
    <3>2. new \in X
      BY DEF X
    <3>3. DOMAIN v12' = 1 .. Len(v12') /\ v12' \in [1 .. Len(v12') -> X]
      BY <2>2, <3>1, <3>2, AppendProperties, LenProperties
    <3>4. /\ Len(v12') = Len(v12) + 1 /\ \A i \in 1 .. Len(v12) : v12'[i] = v12[i]
          /\ v12'[Len(v12) + 1] = new
      BY <2>2, <3>1, <3>2, AppendProperties
    <3> QED  BY <1>1, <3>3, <3>4
  <2>4. v10 \in DOMAIN L!Reports
    BY <1>1, <2>1 DEF L!TypeOK
  <2>5. /\ Len(w) \in Nat /\ DOMAIN w = 1 .. Len(w)
        /\ \A i \in DOMAIN w : /\ w[i] = "addup" => i = 1
                               /\ w[i] = "prune" => i = 2 /\ w[1] = "addup"
    BY <2>4, ReportShapes
  <2>6. L!Next1 = w[Len(v12) + 1] /\ Len(v12) + 1 \in DOMAIN w
    BY <1>1, <2>1, <2>5 DEF L!Next1
  <2>7. L!Names(v10)' = w
    BY <2>1
  <2>8. Len(v12') \in Nat /\ Len(v12') <= Len(w)
    BY <1>1, <2>1, <2>3, <2>5
  <2>9. L!Stored' \subseteq L!Stored
    BY <2>1 DEF L!Stored, L!Totals, L!WithTurns
  <2>10. L!TypeOK' /\ L!Storing'
    BY <1>1, <2>1, <2>9 DEF L!TypeOK, L!Stored, L!Storing
  <2>11. ASSUME L!AsStored PROVE L!AsStored'
    <3>0. \A X : L!Sum(X)' = L!Sum(X)
      BY <2>1 DEF L!Sum
    <3> SUFFICES /\ \A i \in 1 .. Len(v12) + 1 :
                       \/ w[i] \in {"addup", "prune", "efficiency"}
                       \/ v12'[i] = L!Section(w[i], v11)'
                 /\ w[1] = "addup" =>
                       \A s \in L!Stored' : v3'[s] = L!Sum({t \in v1 : L!Session(t) = s})
      BY <2>1, <2>3, <2>7, <3>0 DEF L!AsStored
    <3>1. /\ \A i \in 1 .. Len(v12) : \/ w[i] \in {"addup", "prune", "efficiency"}
                                      \/ v12[i] = L!Section(w[i], v11)
          /\ v12 # <<>> /\ w[1] = "addup" =>
               \A s \in L!Stored : v3[s] = L!Sum({t \in v1 : L!Session(t) = s})
      BY <2>3, <2>11 DEF L!AsStored
    <3>2. CASE L!Next1 = "addup"
      <4>1. Len(v12) = 0
        <5> HIDE DEF w
        <5>1. Len(v12) + 1 \in DOMAIN w /\ w[Len(v12) + 1] = "addup"
          BY <2>6, <3>2
        <5>2. Len(v12) + 1 = 1
          BY <2>5, <5>1
        <5> QED  BY <1>1, <5>2
      <4>2. v3' = L!Totals
        BY <2>1, <3>2
      <4>3. \A i \in 1 .. Len(v12) + 1 : w[i] = "addup"
        <5> HIDE DEF w
        <5>1. Len(v12) + 1 = 1
          BY <4>1
        <5>2. w[1] = "addup"
          BY <2>6, <3>2, <5>1
        <5> QED  BY <5>1, <5>2
      <4>4. \A s \in L!Stored' : v3'[s] = L!Sum({t \in v1 : L!Session(t) = s})
        BY <2>9, <4>2 DEF L!Totals
      <4> QED  BY <4>3, <4>4
    <3>3. CASE L!Next1 = "prune"
      <4>1. Len(v12) = 1 /\ w[1] = "addup" /\ w[2] = "prune"
        <5> HIDE DEF w
        <5>1. Len(v12) + 1 \in DOMAIN w /\ w[Len(v12) + 1] = "prune"
          BY <2>6, <3>3
        <5>2. Len(v12) + 1 = 2 /\ w[1] = "addup"
          BY <2>5, <5>1
        <5> QED  BY <1>1, <5>1, <5>2
      <4>2. v3' = L!WithTurns
        BY <2>1, <3>3
      <4>3. \A i \in 1 .. Len(v12) + 1 : w[i] \in {"addup", "prune"}
        BY <4>1
      <4>4. v12 # <<>>
        BY <4>1
      <4>5. \A s \in L!Stored' : v3'[s] = v3[s] /\ s \in L!Stored
        BY <4>2 DEF L!WithTurns, L!Stored
      <4> QED  BY <3>1, <4>1, <4>3, <4>4, <4>5
    <3>4. CASE L!Next1 \notin {"addup", "prune"}
      <4>1. v3' = v3
        BY <2>1, <3>4
      <4>2. \A n, q : n # "efficiency" => L!Section(n, q)' = L!Section(n, q)
        BY <2>1, <4>1, SectionKept
      <4>3. \A i \in 1 .. Len(v12) + 1 : w[i] # "efficiency" =>
                L!Section(w[i], v11)' = L!Section(w[i], v11)
        BY <2>1, <2>7, <4>2
      <4>4. new = L!Section(w[Len(v12) + 1], v11)
        BY <2>2, <2>6, <3>4
      <4>5. \A i \in 1 .. Len(v12) + 1 : i \in 1 .. Len(v12) \/ i = Len(v12) + 1
        BY <1>1
      <4>6. \A i \in 1 .. Len(v12) + 1 : \/ w[i] \in {"addup", "prune", "efficiency"}
                                         \/ v12'[i] = L!Section(w[i], v11)'
        BY <2>3, <3>1, <4>3, <4>4, <4>5
      <4>7. w[1] = "addup" => v12 # <<>>
        BY <1>1, <2>6, <3>4
      <4> QED  BY <3>1, <4>1, <4>6, <4>7 DEF L!Stored
    <3> QED  BY <3>2, <3>3, <3>4
  <2>12. Len(v12)' \in Nat /\ (v12 = [i \in 1 .. Len(v12) |-> v12[i]])'
    BY <2>3, <2>8
  <2>13. (v10 # None => v11 \in Queries /\ Len(v12) <= Len(L!Names(v10)))'
    BY <1>1, <2>1, <2>7, <2>8
  <2> QED  BY <1>1, <2>1, <2>9, <2>10, <2>11, <2>12, <2>13
              DEF L!Inv, L!SessionsOf, L!Session
<1> QED  BY <1>2, <1>3, <1>4

LEMMA LedgerStep == L!Inv /\ [L!Next]_(L!vars) => L!Inv'
<1> SUFFICES ASSUME L!Inv, [L!Next]_(L!vars) PROVE L!Inv'
  OBVIOUS
<1>1. CASE L!Next
  BY <1>1, WritersStep, RepricersStep, ReadersStep DEF L!Next
<1>2. CASE UNCHANGED L!vars
  <2>1. UNCHANGED <<v1, v2, v3, v4, v5, v6, v7, v8, v9, v10, v11, v12, v13>>
    BY <1>2 DEF L!vars, L!db, L!writers, L!reader
  <2>2. L!TypeOK' /\ L!Storing'
    BY <2>1 DEF L!Inv, L!TypeOK, L!Stored, L!Storing
  <2> QED  BY <2>1, <2>2, QuietStep
<1> QED  BY <1>1, <1>2

\* In an answer read while nothing was written stands what is stored now.
LEMMA AtFound ==
    ASSUME L!Inv, L!Complete, v13, NEW n, n \notin {"addup", "prune", "efficiency"},
           \E i \in DOMAIN L!Names(v10) : L!Names(v10)[i] = n
    PROVE  L!At(n) = L!Section(n, v11)
<1> DEFINE w == L!Names(v10)
           i == CHOOSE i \in DOMAIN w : w[i] = n
<1>1. L!AsStored /\ v10 \in DOMAIN L!Reports /\ Len(v12) = Len(w)
      /\ Len(v12) \in Nat /\ DOMAIN v12 = 1 .. Len(v12)
  BY DEF L!Inv, L!Complete, L!TypeOK
<1>2. DOMAIN w = 1 .. Len(w)
  BY <1>1, ReportShapes
<1>3. i \in DOMAIN v12 /\ w[i] = n
  BY <1>1, <1>2
<1>4. L!At(n) = v12[i]
  BY DEF L!At
<1> HIDE DEF i
<1> QED  BY <1>1, <1>3, <1>4 DEF L!AsStored

LEMMA SectionsAre ==
    ASSUME NEW q
    PROVE  /\ L!Section("providers", q) = L!ByProvider(v1)
           /\ L!Section("confidence", q) = L!ByConfidence(v1)
           /\ L!Section("billing", q) = L!ByBilling(v1)
           /\ L!Section("versions", q) = L!Versions(v1)
           /\ L!Section("entrypoints", q) = L!Entrypoints
           /\ L!Section("projects", q) = L!Projects(v1)
           /\ L!Section("sessions", q) = L!SessionRows
           /\ L!Section("subagents", q) = L!Subagents
           /\ L!Section("weekly", q) = L!Weekly(q.offset, q.sow)
           /\ L!Section("hourly", q) = L!Hourly
           /\ L!Section("daily", q) = L!Daily(q.offset)
           /\ L!Section("since", q) = L!SummaryTz(q.provider, q.since, q.offset)
           /\ L!Section("provider models", q) = L!ByModel(L!Since(q.provider, q.since))
           /\ L!Section("provider daily", q) = L!Group(L!Since(q.provider, q.since),
                                          [t \in v1 |-> <<L!Day(t, 0), RowOf[t].model>>])
           /\ L!Section("provider projects", q) = L!Projects(L!Since(q.provider, q.since))
           /\ L!Section("provider hours", q) = L!Group(L!Since(q.provider, q.since),
                    [t \in v1 |-> <<L!Weekday(t, q.local), L!Hour(t, q.local)>>])
           /\ L!Section("provider versions", q) = L!Versions(L!Since(q.provider, q.since))
           /\ L!Section("heatmap", q) = L!Heatmap(q)
           /\ L!Section("average", q) = L!Average(q)
           /\ L!Section("totals", q) = L!Sum(v1)
           /\ L!Section("by model", q) = L!ModelRows(v1)
           /\ L!Section("today models", q) = L!ModelRows(L!Today(q))
           /\ L!Section("today providers", q) = L!ByProvider(L!Today(q))
           /\ L!Section("today confidence", q) = L!ByConfidence(L!Today(q))
           /\ L!Section("today billing", q) = L!ByBilling(L!Today(q))
           /\ L!Section("rows", q) = L!Exported(q)
BY DEF L!Section

\* What the statements that group turns add up to.
LEMMA GroupsAddUp ==
    ASSUME v2 \in [Turns -> Nat], v1 \subseteq Turns
    PROVE  /\ \A X \in SUBSET Turns :
                 /\ L!AddUp(L!ByProvider(X)) = L!Sum(X)
                 /\ L!AddUp(L!ByModel(X)) = L!Sum(X)
                 /\ L!AddUp(L!ByConfidence(X)) = L!Sum(X)
                 /\ L!AddUp(L!ByBilling(X)) = L!Sum(X)
                 /\ L!AddUp(L!Versions(X)) = L!Sum(X)
                 /\ L!Joined = v1 /\ X \subseteq v1 => L!AddUp(L!Projects(X)) = L!Sum(X)
           /\ \A o, w : L!AddUp(L!Weekly(o, w)) = L!Sum({t \in v1 : L!Stamped(t)})
           /\ L!AddUp(L!Hourly) = L!Sum({t \in v1 : L!Stamped(t)})
           /\ \A o : L!AddUp(L!Daily(o)) = L!Sum(L!Dated(o))
           /\ \A q : L!AddUp(L!Exported(q))
                       = L!Sum(L!InPeriod(v1, [q EXCEPT !.offset = 0]))
<1>0. /\ {t \in v1 : L!Stamped(t)} \in SUBSET Turns
      /\ \A o : L!Dated(o) \in SUBSET Turns
      /\ \A q : L!InPeriod(v1, q) \in SUBSET Turns
  BY DEF L!Dated, L!InPeriod
<1>1. ASSUME NEW X \in SUBSET Turns
      PROVE /\ L!AddUp(L!ByProvider(X)) = L!Sum(X)
            /\ L!AddUp(L!ByModel(X)) = L!Sum(X)
            /\ L!AddUp(L!ByConfidence(X)) = L!Sum(X)
            /\ L!AddUp(L!ByBilling(X)) = L!Sum(X)
            /\ L!AddUp(L!Versions(X)) = L!Sum(X)
  BY GroupAddsUp DEF L!ByProvider, L!ByModel, L!ByConfidence, L!ByBilling, L!Versions
<1>2. ASSUME NEW X \in SUBSET Turns, L!Joined = v1, X \subseteq v1
      PROVE  L!AddUp(L!Projects(X)) = L!Sum(X)
  <2>1. X \cap L!Joined = X
    BY <1>2
  <2> QED  BY <2>1, GroupAddsUp DEF L!Projects
<1>3. \A o, w : L!AddUp(L!Weekly(o, w)) = L!Sum({t \in v1 : L!Stamped(t)})
  BY <1>0, GroupAddsUp DEF L!Weekly
<1>4. L!AddUp(L!Hourly) = L!Sum({t \in v1 : L!Stamped(t)})
  BY <1>0, GroupAddsUp DEF L!Hourly
<1>5. \A o : L!AddUp(L!Daily(o)) = L!Sum(L!Dated(o))
  BY <1>0, GroupAddsUp DEF L!Daily
<1>6. \A q : L!AddUp(L!Exported(q)) = L!Sum(L!InPeriod(v1, [q EXCEPT !.offset = 0]))
  BY <1>0, GroupAddsUp DEF L!Exported
<1> QED  BY <1>1, <1>2, <1>3, <1>4, <1>5, <1>6

\* Each model's row carries its totals.
LEMMA ModelsAddUp ==
    ASSUME v2 \in [Turns -> Nat], NEW X \in SUBSET Turns, NEW rows, rows = L!ModelRows(X)
    PROVE  L!AddUp([k \in DOMAIN rows |-> rows[k].total]) = L!Sum(X)
<1>1. DOMAIN rows = DOMAIN L!ByModel(X)
      /\ \A k \in DOMAIN rows : rows[k].total = L!ByModel(X)[k]
  BY DEF L!ModelRows
<1>2. L!ByModel(X) = [k \in DOMAIN rows |-> rows[k].total]
  BY <1>1 DEF L!ByModel, L!Group
<1>3. L!AddUp(L!ByModel(X)) = L!Sum(X)
  BY GroupAddsUp DEF L!ByModel
<1> QED  BY <1>2, <1>3

\* The joins with the session rows lose no turn whose session is stored.
LEMMA JoinsAddUp ==
    ASSUME v2 \in [Turns -> Nat], v1 \subseteq Turns, L!Joined = v1,
           L!Stored \subseteq L!SessionsOf(Turns)
    PROVE  /\ L!AddUp(L!Entrypoints) = L!Sum(v1)
           /\ (\A s \in L!Stored : v3[s] = L!Sum({t \in v1 : L!Session(t) = s})) =>
                 L!AddUp([s \in DOMAIN L!SessionRows |-> L!SessionRows[s].total]) = L!Sum(v1)
<1> DEFINE session == [t \in Turns |-> L!Session(t)]
           entry == [s \in L!Stored |-> <<Home[s].provider, Home[s].entry>>]
           C == {entry[s] : s \in L!Stored}
           key == [t \in v1 |-> <<L!Provider(t), Home[L!Session(t)].entry>>]
<1>1. IsFiniteSet(L!Stored)
  <2>1. IsFiniteSet({session[t] : t \in Turns})
    <3>1. IsFiniteSet(Turns)
      BY LedgerConstants
    <3> HIDE DEF session
    <3> QED  BY <3>1, ImageFinite
  <2>2. L!Stored \subseteq {session[t] : t \in Turns}
    BY DEF L!SessionsOf
  <2> QED  BY <2>1, <2>2, FS_Subset
<1>2. IsFiniteSet(C)
  <2> HIDE DEF entry
  <2> QED  BY <1>1, ImageFinite
<1>3. \A t \in v1 : L!Session(t) \in L!Stored
  BY DEF L!Joined
<1>4. L!AddUp(L!Entrypoints) = L!Sum(v1)
  <2> DEFINE rows == L!Entrypoints
  <2>1. DOMAIN rows = C /\ \A k \in C : rows[k] = L!Sum({t \in v1 : key[t] = k})
    <3>1. C = {<<Home[s].provider, Home[s].entry>> : s \in L!Stored}
      OBVIOUS
    <3>2. \A k : {t \in v1 : key[t] = k}
                   = {t \in v1 : <<L!Provider(t), Home[L!Session(t)].entry>> = k}
      OBVIOUS
    <3> HIDE DEF C, key
    <3> QED  BY <3>1, <3>2 DEF L!Entrypoints
  <2>2. \A t \in v1 : key[t] \in C
    BY <1>3 DEF L!Provider
  <2> HIDE DEF rows, C, key
  <2>3. L!AddUp(rows) = L!Sum(v1)
    BY <1>2, <2>1, <2>2, ClassesAddUp
  <2> QED  BY <2>3 DEF rows
<1>5. ASSUME \A s \in L!Stored : v3[s] = L!Sum({t \in v1 : L!Session(t) = s})
      PROVE  L!AddUp([s \in DOMAIN L!SessionRows |-> L!SessionRows[s].total]) = L!Sum(v1)
  <2> DEFINE rows == [s \in DOMAIN L!SessionRows |-> L!SessionRows[s].total]
             own == [t \in v1 |-> L!Session(t)]
  <2>1. DOMAIN rows = L!Stored /\ \A s \in L!Stored : rows[s] = v3[s]
    BY DEF L!SessionRows
  <2>2. \A s : {t \in v1 : own[t] = s} = {t \in v1 : L!Session(t) = s}
    OBVIOUS
  <2>3. \A t \in v1 : own[t] \in L!Stored
    BY <1>3
  <2>4. \A s \in L!Stored : rows[s] = L!Sum({t \in v1 : own[t] = s})
    <3> HIDE DEF own, rows
    <3> QED  BY <1>5, <2>1, <2>2
  <2> HIDE DEF rows, own
  <2>5. L!AddUp(rows) = L!Sum(v1)
    BY <1>1, <2>1, <2>3, <2>4, ClassesAddUp
  <2> QED  BY <2>5 DEF rows
<1> QED  BY <1>4, <1>5

\* The agents' turns and the others make up all.
LEMMA AgentsAddUp ==
    ASSUME v2 \in [Turns -> Nat], v1 \subseteq Turns
    PROVE  L!Plus(L!Subagents.parent, L!Subagents.sub) = L!Sum(v1)
<1> DEFINE sub == {t \in v1 : RowOf[t].agent # None}
           w == [t \in v1 |-> RowOf[t].tokens]
<1>1. L!Subagents.parent = L!Sum(v1 \ sub) /\ L!Subagents.sub = L!Sum(sub)
  BY DEF L!Subagents
<1>2. \A T : L!Sum(T) = [turns |-> Cardinality(T),
                         tokens |-> SumFunctionOnSet([t \in T |-> RowOf[t].tokens], T),
                         cost |-> SumFunctionOnSet(v2, T)]
  BY LedgerSums, LedgerSizes DEF L!Sum
<1>3. IsFiniteSet(v1) /\ sub \in SUBSET v1 /\ IsFiniteSet(sub) /\ IsFiniteSet(v1 \ sub)
  BY LedgerConstants, FS_Subset
<1>4. \A t \in v1 : w[t] \in Int /\ v2[t] \in Int
  <2>1. \A t \in v1 : v2[t] \in Nat /\ RowOf[t].tokens \in Nat
    BY LedgerConstants
  <2> QED  BY <2>1
<1>5. \A T \in SUBSET v1 : SumFunctionOnSet([t \in T |-> RowOf[t].tokens], T)
                             = SumFunctionOnSet(w, T)
  <2> SUFFICES ASSUME NEW T \in SUBSET v1
               PROVE  SumFunctionOnSet([t \in T |-> RowOf[t].tokens], T) = SumFunctionOnSet(w, T)
    OBVIOUS
  <2> DEFINE h == [t \in T |-> RowOf[t].tokens]
  <2>1. \A t \in T : w[t] \in Int /\ h[t] = w[t]
    BY <1>4
  <2> HIDE DEF w, h
  <2>2. IsFiniteSet(T)
    BY <1>3, FS_Subset
  <2>3. SumFunctionOnSet(h, T) = SumFunctionOnSet(w, T)
    BY <2>1, <2>2, SumAgrees
  <2> QED  BY <2>3 DEF h
<1> HIDE DEF sub, w
<1>6. SumFunctionOnSet(w, v1) = SumFunctionOnSet(w, v1 \ sub) + SumFunctionOnSet(w, sub)
  BY <1>3, <1>4, SumSplits
<1>7. SumFunctionOnSet(v2, v1) = SumFunctionOnSet(v2, v1 \ sub) + SumFunctionOnSet(v2, sub)
  BY <1>3, <1>4, SumSplits
<1>8. Cardinality(v1) = Cardinality(v1 \ sub) + Cardinality(sub)
  <2> DEFINE one == [t \in v1 |-> 1]
  <2>1. \A t \in v1 : one[t] = 1 /\ one[t] \in Int
    OBVIOUS
  <2> HIDE DEF one
  <2>2. SumFunctionOnSet(one, v1)
          = SumFunctionOnSet(one, v1 \ sub) + SumFunctionOnSet(one, sub)
    BY <1>3, <2>1, SumSplits
  <2>3. /\ SumFunctionOnSet(one, v1) = Cardinality(v1)
        /\ SumFunctionOnSet(one, v1 \ sub) = Cardinality(v1 \ sub)
        /\ SumFunctionOnSet(one, sub) = Cardinality(sub)
    BY <1>3, <2>1, SumOfOnes
  <2> QED  BY <2>2, <2>3
<1>9. \A T \in {v1, sub, v1 \ sub} : L!Sum(T) = [turns |-> Cardinality(T),
            tokens |-> SumFunctionOnSet(w, T), cost |-> SumFunctionOnSet(v2, T)]
  BY <1>2, <1>3, <1>5
<1>10. L!Plus(L!Sum(v1 \ sub), L!Sum(sub)) =
         [turns |-> Cardinality(v1 \ sub) + Cardinality(sub),
          tokens |-> SumFunctionOnSet(w, v1 \ sub) + SumFunctionOnSet(w, sub),
          cost |-> SumFunctionOnSet(v2, v1 \ sub) + SumFunctionOnSet(v2, sub)]
  BY <1>9 DEF L!Plus
<1> QED  BY <1>1, <1>6, <1>7, <1>8, <1>9, <1>10

\* The cells of the heatmap hold what the average is made of.
LEMMA HeatmapAddsUp ==
    ASSUME v2 \in [Turns -> Nat], v1 \subseteq Turns, NEW q \in Queries
    PROVE  L!AddUp(L!Heatmap(q)).cost = L!Average(q).cost
<1> DEFINE X == L!InPeriod({t \in v1 : L!Stamped(t)}, q)
           Y == L!InPeriod({t \in v1 : L!Stamped(t) /\ v2[t] > 0}, q)
           C == (0 .. 6) \X (0 .. 3)
           key == [t \in v1 |-> <<L!Weekday(t, q.offset), L!Hour(t, q.offset)>>]
           rows == L!Heatmap(q)
<1>1. X \in SUBSET v1 /\ Y = {t \in X : v2[t] > 0}
  BY DEF L!InPeriod
<1>2. IsFiniteSet(X) /\ IsFiniteSet(C) /\ X \in SUBSET Turns
  <2>1. X \in SUBSET Turns /\ IsFiniteSet(Turns)
    BY <1>1, LedgerConstants
  <2>2. IsFiniteSet(C)
    <3>1. \A a, b \in Int : IsFiniteSet(a .. b)
      BY FS_Interval
    <3>2. 0 \in Int /\ 3 \in Int /\ 6 \in Int
      OBVIOUS
    <3>3. IsFiniteSet(0 .. 6) /\ IsFiniteSet(0 .. 3)
      BY <3>1, <3>2, Zenon
    <3> QED  BY <3>3, FS_Product
  <2> QED  BY <2>1, <2>2, FS_Subset
<1>3. \A t \in v1 : L!Weekday(t, q.offset) \in 0 .. 6 /\ L!Hour(t, q.offset) \in 0 .. 3
  <2> SUFFICES ASSUME NEW t \in v1
               PROVE  L!Weekday(t, q.offset) \in 0 .. 6 /\ L!Hour(t, q.offset) \in 0 .. 3
    OBVIOUS
  <2>1. RowOf[t].ts \in Int /\ q.offset \in Int
    BY LedgerConstants
  <2>2. L!Clamp(q.offset) \in Int
    BY <2>1 DEF L!Clamp
  <2>3. L!Day(t, q.offset) \in Int
    BY <2>1, <2>2 DEF L!Day, L!NoTime
  <2> QED  BY <2>1, <2>2, <2>3 DEF L!Weekday, L!Hour
<1>4. \A t \in X : key[t] \in C
  BY <1>1, <1>3
<1>5. DOMAIN rows = C /\ \A k \in C : rows[k] = L!Sum({t \in X : key[t] = k})
  <2>1. \A k : {t \in X : key[t] = k}
                 = {t \in X : <<L!Weekday(t, q.offset), L!Hour(t, q.offset)>> = k}
    BY <1>1
  <2> HIDE DEF key
  <2> QED  BY <2>1 DEF L!Heatmap
<1> HIDE DEF X, Y, C, key, rows
<1>6. L!AddUp(rows) = L!Sum(X)
  BY <1>2, <1>4, <1>5, ClassesAddUp
<1>7. L!Sum(X).cost = SumFunctionOnSet(v2, X) /\ L!Sum(Y).cost = SumFunctionOnSet(v2, Y)
  BY LedgerSums DEF L!Sum
<1>8. SumFunctionOnSet(v2, X) = SumFunctionOnSet(v2, Y)
  <2>1. Y \in SUBSET X /\ \A t \in X : v2[t] \in Nat /\ v2[t] \in Int
    BY <1>1, <1>2
  <2>2. \A t \in X \ Y : v2[t] = 0
    BY <1>1, <2>1
  <2>3. IsFiniteSet(X \ Y) /\ IsFiniteSet(Y)
    BY <1>2, <2>1, FS_Subset
  <2>4. SumFunctionOnSet(v2, X \ Y) = 0 /\ SumFunctionOnSet(v2, Y) \in Int
    BY <2>1, <2>2, <2>3, SumZero, SumRemoves
  <2>5. SumFunctionOnSet(v2, X) = SumFunctionOnSet(v2, X \ Y) + SumFunctionOnSet(v2, Y)
    BY <1>2, <2>1, SumSplits
  <2> QED  BY <2>4, <2>5
<1>9. L!Average(q).cost = L!Sum(Y).cost
  BY DEF L!Average, Y
<1> QED  BY <1>6, <1>7, <1>8, <1>9 DEF rows

LEMMA DashboardSound == L!Inv => L!DashboardAddsUp
<1> SUFFICES ASSUME L!Inv, L!Complete, v10 = "dashboard", v13, L!Joined = v1
             PROVE  LET all == L!AddUp(L!At("providers"))
                        dated == L!Sum({t \in v1 : L!Stamped(t)})
                    IN /\ L!SumsTo(L!At("confidence"), all) /\ L!SumsTo(L!At("billing"), all)
                       /\ L!SumsTo(L!At("versions"), all) /\ L!SumsTo(L!At("entrypoints"), all)
                       /\ L!SumsTo(L!At("projects"), all)
                       /\ L!SumsTo([s \in DOMAIN L!At("sessions") |->
                                        L!At("sessions")[s].total], all)
                       /\ L!Plus(L!At("subagents").parent, L!At("subagents").sub) = all
                       /\ L!SumsTo(L!At("weekly"), dated) /\ L!SumsTo(L!At("hourly"), dated)
                       /\ L!SumsTo(L!At("daily"), IF L!Clamp(v11.offset) = 0 THEN all ELSE dated)
  BY DEF L!DashboardAddsUp
<1>1. v2 \in [Turns -> Nat] /\ v1 \subseteq Turns /\ v1 \in SUBSET Turns
      /\ L!Stored \subseteq L!SessionsOf(Turns)
  BY DEF L!Inv, L!TypeOK
<1>2. L!Names(v10) = L!DashboardReport
  BY DEF L!Names, L!Reports
<1>3. \A n \in {"providers", "confidence", "billing", "daily", "sessions", "subagents",
                "entrypoints", "hourly", "versions", "projects", "weekly"} :
          L!At(n) = L!Section(n, v11)
  <2> SUFFICES ASSUME NEW n \in {"providers", "confidence", "billing", "daily", "sessions",
                  "subagents", "entrypoints", "hourly", "versions", "projects", "weekly"}
               PROVE  L!At(n) = L!Section(n, v11)
    OBVIOUS
  <2>1. \E i \in DOMAIN L!Names(v10) : L!Names(v10)[i] = n
    <3>1. \A x \in {"providers", "confidence", "billing", "daily", "sessions", "subagents",
                    "entrypoints", "hourly", "versions", "projects", "weekly"} :
              \E i \in DOMAIN L!DashboardReport : L!DashboardReport[i] = x
      BY DashboardNames
    <3> QED  BY <1>2, <3>1
  <2>2. n \notin {"addup", "prune", "efficiency"}
    OBVIOUS
  <2> QED  BY <2>1, <2>2, AtFound
<1>4. \A s \in L!Stored : v3[s] = L!Sum({t \in v1 : L!Session(t) = s})
  <2>1. v12 # <<>>
    <3>1. Len(v12) \in Nat /\ Len(v12) = Len(L!DashboardReport)
      BY <1>2 DEF L!Inv, L!Complete
    <3>2. Len(v12) # 0
      <4>1. "providers" \in {"providers", "confidence", "billing", "daily", "sessions",
                  "subagents", "entrypoints", "hourly", "versions", "projects", "weekly"}
        OBVIOUS
      <4>2. \E i \in 1 .. Len(L!DashboardReport) : TRUE
        BY <4>1, DashboardNames
      <4> QED  BY <3>1, <4>2
    <3> QED  BY <3>2
  <2> QED  BY <1>2, <2>1, DashboardNames DEF L!Inv, L!Complete, L!AsStored
<1> DEFINE all == L!AddUp(L!At("providers"))
           dated == L!Sum({t \in v1 : L!Stamped(t)})
<1>5. all = L!Sum(v1)
  BY <1>1, <1>3, SectionsAre, GroupsAddUp
<1>6. /\ L!SumsTo(L!At("confidence"), L!Sum(v1)) /\ L!SumsTo(L!At("billing"), L!Sum(v1))
      /\ L!SumsTo(L!At("versions"), L!Sum(v1)) /\ L!SumsTo(L!At("projects"), L!Sum(v1))
  BY <1>1, <1>3, SectionsAre, GroupsAddUp DEF L!SumsTo
<1>7. /\ L!SumsTo(L!At("entrypoints"), L!Sum(v1))
      /\ L!SumsTo([s \in DOMAIN L!At("sessions") |-> L!At("sessions")[s].total], L!Sum(v1))
  <2>1. L!At("entrypoints") = L!Entrypoints /\ L!At("sessions") = L!SessionRows
    BY <1>3, SectionsAre
  <2> QED  BY <1>1, <1>4, <2>1, JoinsAddUp DEF L!SumsTo
<1>8. L!Plus(L!At("subagents").parent, L!At("subagents").sub) = L!Sum(v1)
  BY <1>1, <1>3, SectionsAre, AgentsAddUp
<1>9. L!SumsTo(L!At("weekly"), dated) /\ L!SumsTo(L!At("hourly"), dated)
  <2>1. L!At("weekly") = L!Weekly(v11.offset, v11.sow) /\ L!At("hourly") = L!Hourly
    BY <1>3, SectionsAre
  <2> QED  BY <1>1, <2>1, GroupsAddUp DEF L!SumsTo
<1>10. L!SumsTo(L!At("daily"), IF L!Clamp(v11.offset) = 0 THEN L!Sum(v1) ELSE dated)
  <2>1. L!AddUp(L!At("daily")) = L!Sum(L!Dated(v11.offset))
    BY <1>1, <1>3, SectionsAre, GroupsAddUp
  <2> QED  BY <2>1 DEF L!SumsTo, L!Dated
<1> HIDE DEF all
<1> QED  BY <1>5, <1>6, <1>7, <1>8, <1>9, <1>10 DEF all

\* A handler that reads none of these sections.
LEMMA OtherStatements ==
    ASSUME NEW X, X \cap {"addup", "prune", "today billing", "totals", "heatmap"} = {},
           NEW t \in Seq(X)
    PROVE  \A i \in DOMAIN (L!InitDb \o t) :
              (L!InitDb \o t)[i] \notin {"today billing", "totals", "heatmap"}
<1>0. DOMAIN t = 1 .. Len(t)
  BY LenProperties
<1>1. \A i \in DOMAIN t : t[i] \in X
  BY <1>0, ElementOfSeq
<1>2. \A i \in DOMAIN t : t[i] \notin {"addup", "prune"}
  BY <1>1
<1>3. \A i \in DOMAIN (L!InitDb \o t) : (L!InitDb \o t)[i] \in X \cup {"addup", "prune"}
  BY <1>2, AfterInitDb
<1> QED  BY <1>3

\* A report that has one of these sections has the other too.
LEMMA SectionsTogether ==
    ASSUME NEW r \in DOMAIN L!Reports
    PROVE  LET names == {L!Names(r)[i] : i \in DOMAIN L!Names(r)} IN
             /\ "today billing" \in names => "today confidence" \in names
             /\ "totals" \in names => "by model" \in names
             /\ r = "stats" => {"providers", "confidence", "billing", "totals"} \subseteq names
             /\ "heatmap" \in names => "average" \in names
<1> DEFINE In(w) == {w[i] : i \in DOMAIN w}
           Fine(w) == /\ "today billing" \in In(w) => "today confidence" \in In(w)
                      /\ "totals" \in In(w) => "by model" \in In(w)
                      /\ "heatmap" \in In(w) => "average" \in In(w)
<1>1. In(L!StatsCommand) = {"count", "totals", "by model", "providers", "confidence", "billing"}
  <2>1. /\ DOMAIN L!StatsCommand = 1 .. 6
        /\ L!StatsCommand[1] = "count"
        /\ L!StatsCommand[2] = "totals"
        /\ L!StatsCommand[3] = "by model"
        /\ L!StatsCommand[4] = "providers"
        /\ L!StatsCommand[5] = "confidence"
        /\ L!StatsCommand[6] = "billing"
    BY DEF L!StatsCommand
  <2>2. 1 .. 6 = {1, 2, 3, 4, 5, 6}
    OBVIOUS
  <2> QED  BY <2>1, <2>2
<1>2. In(L!TodayCommand) = {"today models", "today providers", "today confidence", "today billing"}
  <2>1. /\ DOMAIN L!TodayCommand = 1 .. 4
        /\ L!TodayCommand[1] = "today models"
        /\ L!TodayCommand[2] = "today providers"
        /\ L!TodayCommand[3] = "today confidence"
        /\ L!TodayCommand[4] = "today billing"
    BY DEF L!TodayCommand
  <2>2. 1 .. 4 = {1, 2, 3, 4}
    OBVIOUS
  <2> QED  BY <2>1, <2>2
<1>3. In(L!McpToday) = {"today models", "today providers"}
  <2>1. /\ DOMAIN L!McpToday = 1 .. 2
        /\ L!McpToday[1] = "today models"
        /\ L!McpToday[2] = "today providers"
    BY DEF L!McpToday
  <2>2. 1 .. 2 = {1, 2}
    OBVIOUS
  <2> QED  BY <2>1, <2>2
<1>4. In(L!McpStats) = {"count", "totals", "by model"}
  <2>1. /\ DOMAIN L!McpStats = 1 .. 3
        /\ L!McpStats[1] = "count"
        /\ L!McpStats[2] = "totals"
        /\ L!McpStats[3] = "by model"
    BY DEF L!McpStats
  <2>2. 1 .. 3 = {1, 2, 3}
    OBVIOUS
  <2> QED  BY <2>1, <2>2
<1>5. In(L!McpSessions) = {"count", "stored rows"}
  <2>1. /\ DOMAIN L!McpSessions = 1 .. 2
        /\ L!McpSessions[1] = "count"
        /\ L!McpSessions[2] = "stored rows"
    BY DEF L!McpSessions
  <2>2. 1 .. 2 = {1, 2}
    OBVIOUS
  <2> QED  BY <2>1, <2>2
<1>6. In(L!WeeklyCommand) = {"weeks"}
  <2>1. /\ DOMAIN L!WeeklyCommand = 1 .. 1
        /\ L!WeeklyCommand[1] = "weeks"
    BY DEF L!WeeklyCommand
  <2>2. 1 .. 1 = {1}
    OBVIOUS
  <2> QED  BY <2>1, <2>2
<1>7. In(L!ExportCommand) = {"rows"}
  <2>1. /\ DOMAIN L!ExportCommand = 1 .. 1
        /\ L!ExportCommand[1] = "rows"
    BY DEF L!ExportCommand
  <2>2. 1 .. 1 = {1}
    OBVIOUS
  <2> QED  BY <2>1, <2>2
<1>8. Fine(L!HeatmapReport)
  <2> DEFINE t == <<"heatmap", "average">>
  <2>2. t \in Seq({"heatmap", "average"}) /\ \A i \in DOMAIN t : t[i] \notin {"addup", "prune"}
    <3>1. t \in Seq({"heatmap", "average"})
      OBVIOUS
    <3> HIDE DEF t
    <3>2. \A i \in DOMAIN t : t[i] \in {"heatmap", "average"}
      BY <3>1, ElementOfSeq, LenProperties
    <3> QED  BY <3>1, <3>2
  <2>3. /\ DOMAIN (L!InitDb \o t) = 1 .. Len(t) + 2
        /\ \A i \in 1 .. Len(t) : (L!InitDb \o t)[i + 2] = t[i]
        /\ \A i \in DOMAIN (L!InitDb \o t) :
              (L!InitDb \o t)[i] \in {"heatmap", "average"} \cup {"addup", "prune"}
    <3> HIDE DEF t
    <3> QED  BY <2>2, AfterInitDb
  <2>4. L!HeatmapReport = L!InitDb \o t
    BY DEF L!HeatmapReport
  <2>5. Len(t) = 2 /\ t[2] = "average"
    OBVIOUS
  <2> HIDE DEF t
  <2>6. 4 \in DOMAIN (L!InitDb \o t) /\ (L!InitDb \o t)[4] = "average"
    <3>1. (L!InitDb \o t)[2 + 2] = "average"
      BY <2>3, <2>5
    <3>2. 4 \in 1 .. Len(t) + 2
      BY <2>5
    <3> QED  BY <2>3, <3>1, <3>2
  <2> QED  BY <2>3, <2>4, <2>6
<1>9. Fine(L!ErrorsReport)
  <2>1. \A i \in DOMAIN L!ErrorsReport :
           L!ErrorsReport[i] \notin {"today billing", "totals", "heatmap"}
    <3> DEFINE t == <<"errors">>
               X == {"errors"}
    <3>1. t \in Seq(X)
      OBVIOUS
    <3>2. X \cap {"addup", "prune", "today billing", "totals", "heatmap"} = {}
      OBVIOUS
    <3>3. L!ErrorsReport = L!InitDb \o t
      BY DEF L!ErrorsReport
    <3> HIDE DEF t, X
    <3> QED  BY <3>1, <3>2, <3>3, OtherStatements
  <2> QED  BY <2>1
<1>10. Fine(L!CostsReport)
  <2>1. \A i \in DOMAIN L!CostsReport :
           L!CostsReport[i] \notin {"today billing", "totals", "heatmap"}
    <3> DEFINE t == <<"local costs">>
               X == {"local costs"}
    <3>1. t \in Seq(X)
      OBVIOUS
    <3>2. X \cap {"addup", "prune", "today billing", "totals", "heatmap"} = {}
      OBVIOUS
    <3>3. L!CostsReport = L!InitDb \o t
      BY DEF L!CostsReport
    <3> HIDE DEF t, X
    <3> QED  BY <3>1, <3>2, <3>3, OtherStatements
  <2> QED  BY <2>1
<1>11. Fine(L!DashboardReport)
  <2>1. \A i \in DOMAIN L!DashboardReport :
           L!DashboardReport[i] \notin {"today billing", "totals", "heatmap"}
    BY DashboardNames
  <2> QED  BY <2>1
<1>12. Fine(L!ProviderReport)
  <2>1. \A i \in DOMAIN L!ProviderReport :
           L!ProviderReport[i] \notin {"today billing", "totals", "heatmap"}
    BY ProviderNames
  <2> QED  BY <2>1
<1> HIDE DEF In
<1>13. /\ Fine(L!StatsCommand) /\ Fine(L!TodayCommand) /\ Fine(L!McpToday) /\ Fine(L!McpStats)
       /\ Fine(L!McpSessions) /\ Fine(L!WeeklyCommand) /\ Fine(L!ExportCommand)
  BY <1>1, <1>2, <1>3, <1>4, <1>5, <1>6, <1>7
<1>14. Fine(L!Reports[r])
  <2> HIDE DEF Fine
  <2> QED  BY <1>8, <1>9, <1>10, <1>11, <1>12, <1>13 DEF L!Reports
<1>15. {"providers", "confidence", "billing", "totals"} \subseteq In(L!Reports["stats"])
  BY <1>1 DEF L!Reports
<1> QED  BY <1>14, <1>15 DEF L!Names, In

LEMMA CommandsSound == L!Inv => L!CommandsAddUp
<1> DEFINE Has(name) == \E i \in DOMAIN L!Names(v10) : L!Names(v10)[i] = name
           models(name) == [k \in DOMAIN L!At(name) |-> L!At(name)[k].total]
           day == L!Sum(L!Today(v11))
<1> SUFFICES ASSUME L!Inv, L!Complete, v13
             PROVE  /\ Has("today models") => L!SumsTo(models("today models"), day)
                    /\ Has("today providers") => L!SumsTo(L!At("today providers"), day)
                    /\ Has("today billing") => /\ L!SumsTo(L!At("today confidence"), day)
                                              /\ L!SumsTo(L!At("today billing"), day)
                    /\ Has("totals") => L!SumsTo(models("by model"), L!At("totals"))
                    /\ v10 = "stats" => \A name \in {"providers", "confidence", "billing"} :
                                             L!SumsTo(L!At(name), L!At("totals"))
                    /\ Has("heatmap") => L!AddUp(L!At("heatmap")).cost = L!At("average").cost
                    /\ Has("rows") =>
                         L!SumsTo(L!At("rows"), L!Sum(L!InPeriod(v1, [v11 EXCEPT !.offset = 0])))
  BY DEF L!CommandsAddUp
<1>1. /\ v2 \in [Turns -> Nat] /\ v1 \subseteq Turns /\ v1 \in SUBSET Turns
      /\ v10 \in DOMAIN L!Reports /\ v11 \in Queries /\ L!Today(v11) \in SUBSET Turns
  BY DEF L!Inv, L!TypeOK, L!Complete, L!Today
<1>2. \A n : n \notin {"addup", "prune", "efficiency"} /\ Has(n) => L!At(n) = L!Section(n, v11)
  BY AtFound
<1>3. /\ Has("today billing") => Has("today confidence")
      /\ Has("totals") => Has("by model")
      /\ v10 = "stats" => Has("providers") /\ Has("confidence") /\ Has("billing") /\ Has("totals")
      /\ Has("heatmap") => Has("average")
  <2> DEFINE names == {L!Names(v10)[i] : i \in DOMAIN L!Names(v10)}
  <2>1. \A n : n \in names <=> Has(n)
    OBVIOUS
  <2>2. /\ "today billing" \in names => "today confidence" \in names
        /\ "totals" \in names => "by model" \in names
        /\ v10 = "stats" => {"providers", "confidence", "billing", "totals"} \subseteq names
        /\ "heatmap" \in names => "average" \in names
    BY <1>1, SectionsTogether
  <2> HIDE DEF Has, names
  <2> QED  BY <2>1, <2>2
<1> HIDE DEF Has
<1>4. ASSUME Has("today models") PROVE L!SumsTo(models("today models"), day)
  <2>1. L!At("today models") = L!ModelRows(L!Today(v11))
    BY <1>2, <1>4, SectionsAre
  <2>2. L!AddUp(models("today models")) = day
    BY <1>1, <2>1, ModelsAddUp
  <2> QED  BY <2>2 DEF L!SumsTo
<1>5. ASSUME Has("today providers") PROVE L!SumsTo(L!At("today providers"), day)
  BY <1>1, <1>2, <1>5, SectionsAre, GroupsAddUp DEF L!SumsTo
<1>6. ASSUME Has("today billing")
      PROVE  L!SumsTo(L!At("today confidence"), day) /\ L!SumsTo(L!At("today billing"), day)
  BY <1>1, <1>2, <1>3, <1>6, SectionsAre, GroupsAddUp DEF L!SumsTo
<1>7. ASSUME Has("totals") PROVE L!SumsTo(models("by model"), L!At("totals"))
  <2>1. L!At("by model") = L!ModelRows(v1) /\ L!At("totals") = L!Sum(v1)
    BY <1>2, <1>3, <1>7, SectionsAre
  <2>2. L!AddUp(models("by model")) = L!Sum(v1)
    BY <1>1, <2>1, ModelsAddUp
  <2> QED  BY <2>1, <2>2 DEF L!SumsTo
<1>8. ASSUME v10 = "stats", NEW name \in {"providers", "confidence", "billing"}
      PROVE  L!SumsTo(L!At(name), L!At("totals"))
  <2>1. L!At("totals") = L!Sum(v1)
    BY <1>2, <1>3, <1>8, SectionsAre
  <2>2. /\ L!At("providers") = L!ByProvider(v1)
        /\ L!At("confidence") = L!ByConfidence(v1)
        /\ L!At("billing") = L!ByBilling(v1)
    BY <1>2, <1>3, <1>8, SectionsAre
  <2> QED  BY <1>1, <2>1, <2>2, GroupsAddUp DEF L!SumsTo
<1>9. ASSUME Has("heatmap") PROVE L!AddUp(L!At("heatmap")).cost = L!At("average").cost
  <2>1. L!At("heatmap") = L!Heatmap(v11) /\ L!At("average") = L!Average(v11)
    BY <1>2, <1>3, <1>9, SectionsAre
  <2> QED  BY <1>1, <2>1, HeatmapAddsUp
<1>10. ASSUME Has("rows")
       PROVE  L!SumsTo(L!At("rows"), L!Sum(L!InPeriod(v1, [v11 EXCEPT !.offset = 0])))
  <2>1. L!At("rows") = L!Exported(v11)
    BY <1>2, <1>10, SectionsAre
  <2> QED  BY <1>1, <2>1, GroupsAddUp DEF L!SumsTo
<1> HIDE DEF models, day
<1> QED  BY <1>4, <1>5, <1>6, <1>7, <1>8, <1>9, <1>10

LEMMA ProviderSound == L!Inv => L!ProviderAddsUp
<1> DEFINE since == L!Since(v11.provider, v11.since)
           six == {"since", "provider models", "provider daily", "provider projects",
                   "provider hours", "provider versions"}
<1> SUFFICES ASSUME L!Inv, L!Complete, v10 = "provider", v13, L!Joined = v1
             PROVE  /\ L!SumsTo(L!At("provider models"), L!Sum(since))
                    /\ L!SumsTo(L!At("provider daily"), L!Sum(since))
                    /\ L!SumsTo(L!At("provider projects"), L!Sum(since))
                    /\ L!SumsTo(L!At("provider hours"), L!Sum(since))
                    /\ L!SumsTo(L!At("provider versions"), L!Sum(since))
                    /\ v11.offset = 0 => L!At("since") = L!Sum(since)
  BY DEF L!ProviderAddsUp
<1>1. /\ v2 \in [Turns -> Nat] /\ v1 \subseteq Turns
      /\ since \in SUBSET Turns /\ since \subseteq v1
  BY DEF L!Inv, L!TypeOK, L!Since
<1>2. L!Names(v10) = L!ProviderReport
  BY DEF L!Names, L!Reports
<1>3. \A n \in six : L!At(n) = L!Section(n, v11)
  <2> SUFFICES ASSUME NEW n \in six PROVE L!At(n) = L!Section(n, v11)
    OBVIOUS
  <2>1. \E i \in DOMAIN L!Names(v10) : L!Names(v10)[i] = n
    <3>1. \A x \in six : \E i \in DOMAIN L!ProviderReport : L!ProviderReport[i] = x
      BY ProviderNames
    <3> HIDE DEF six
    <3> QED  BY <1>2, <3>1
  <2>2. n \notin {"addup", "prune", "efficiency"}
    OBVIOUS
  <2> QED  BY <2>1, <2>2, AtFound
<1>4. /\ L!At("provider models") = L!ByModel(since)
      /\ L!At("provider projects") = L!Projects(since)
      /\ L!At("provider versions") = L!Versions(since)
      /\ \E key : L!At("provider daily") = L!Group(since, key)
      /\ \E key : L!At("provider hours") = L!Group(since, key)
      /\ L!At("since") = L!SummaryTz(v11.provider, v11.since, v11.offset)
  BY <1>3, SectionsAre
<1>5. v11.offset = 0 => L!SummaryTz(v11.provider, v11.since, v11.offset) = L!Sum(since)
  BY DEF L!SummaryTz, L!Since
<1> HIDE DEF since
<1>6. \A key : L!AddUp(L!Group(since, key)) = L!Sum(since)
  BY <1>1, GroupAddsUp
<1> QED  BY <1>1, <1>4, <1>5, <1>6, GroupsAddUp DEF L!SumsTo

-----------------------------------------------------------------------------
(* The official metadata *)

LEMMA OfficialSums == \A f, X : O!SumFunctionOnSet(f, X) = SumFunctionOnSet(f, X)
BY Zenon DEF SumFunctionOnSet, FoldFunctionOnSet, MapThenFoldSet,
       O!SumFunctionOnSet, O!FoldFunctionOnSet, O!MapThenFoldSet

LEMMA OfficialSizes == \A X : O!Cardinality(X) = Cardinality(X)
BY Zenon DEF Cardinality, O!Cardinality, IsFiniteSet, O!IsFiniteSet

\* What is listed by number is a sequence.
LEMMA ListIsSeq ==
    ASSUME NEW n \in Nat, NEW f, f = [i \in 1 .. n |-> f[i]]
    PROVE  O!IsSeq(f) /\ Len(f) = n /\ DOMAIN f = 1 .. n
<1> DEFINE X == {f[i] : i \in 1 .. n}
<1>1. f \in [1 .. n -> X]
  OBVIOUS
<1> HIDE DEF X
<1>2. f \in Seq(X)
  BY <1>1
<1>3. Len(f) = n /\ DOMAIN f = 1 .. n
  BY <1>1, <1>2, LenProperties
<1> QED  BY <1>3 DEF O!IsSeq

LEMMA SeqRange ==
    ASSUME NEW s, O!IsSeq(s)
    PROVE  /\ Len(s) \in Nat /\ DOMAIN s = 1 .. Len(s)
           /\ s \in Seq({s[i] : i \in DOMAIN s})
<1> DEFINE X == {s[i] : i \in DOMAIN s}
<1>1. Len(s) \in Nat /\ s = [i \in 1 .. Len(s) |-> s[i]] /\ DOMAIN s = 1 .. Len(s)
  BY DEF O!IsSeq
<1>2. s \in [1 .. Len(s) -> X]
  BY <1>1
<1> HIDE DEF X
<1>3. s \in Seq(X)
  BY <1>1, <1>2
<1> QED  BY <1>1, <1>3 DEF X

LEMMA AppendIsSeq ==
    ASSUME NEW s, O!IsSeq(s), NEW e
    PROVE  /\ O!IsSeq(Append(s, e)) /\ Len(Append(s, e)) = Len(s) + 1
           /\ DOMAIN Append(s, e) = 1 .. Len(s) + 1
           /\ \A i \in DOMAIN s : Append(s, e)[i] = s[i]
           /\ Append(s, e)[Len(s) + 1] = e
<1> DEFINE X == {s[i] : i \in DOMAIN s} \cup {e}
           t == Append(s, e)
<1>1. Len(s) \in Nat /\ DOMAIN s = 1 .. Len(s)
  BY SeqRange
<1>2. s \in Seq(X) /\ e \in X
  <2>1. s \in [1 .. Len(s) -> X]
    BY <1>1 DEF O!IsSeq
  <2>2. e \in X
    OBVIOUS
  <2> HIDE DEF X
  <2> QED  BY <1>1, <2>1, <2>2
<1> HIDE DEF X
<1>3. /\ t \in Seq(X) /\ Len(t) = Len(s) + 1
      /\ \A i \in 1 .. Len(s) : t[i] = s[i]
      /\ t[Len(s) + 1] = e
  BY <1>2, AppendProperties
<1> HIDE DEF t
<1>4. Len(t) \in Nat /\ t = [i \in 1 .. Len(t) |-> t[i]] /\ DOMAIN t = 1 .. Len(t)
  BY <1>3, LenProperties
<1> QED  BY <1>1, <1>3, <1>4 DEF O!IsSeq, t

LEMMA JoinIsSeq ==
    ASSUME NEW s, O!IsSeq(s), NEW t, O!IsSeq(t)
    PROVE  O!IsSeq(s \o t) /\ Len(s \o t) = Len(s) + Len(t)
<1> DEFINE X == {s[i] : i \in DOMAIN s} \cup {t[i] : i \in DOMAIN t}
           w == s \o t
<1>1. s \in Seq(X) /\ t \in Seq(X)
  <2>1. s \in [1 .. Len(s) -> X] /\ t \in [1 .. Len(t) -> X]
    <3>1. DOMAIN s = 1 .. Len(s) /\ DOMAIN t = 1 .. Len(t)
      BY SeqRange
    <3> QED  BY <3>1 DEF O!IsSeq
  <2>2. Len(s) \in Nat /\ Len(t) \in Nat
    BY SeqRange
  <2> HIDE DEF X
  <2> QED  BY <2>1, <2>2
<1> HIDE DEF X
<1>2. w \in Seq(X) /\ Len(w) = Len(s) + Len(t)
  BY <1>1, ConcatProperties
<1> HIDE DEF w
<1>3. Len(w) \in Nat /\ w = [i \in 1 .. Len(w) |-> w[i]]
  BY <1>2, LenProperties
<1> QED  BY <1>2, <1>3 DEF O!IsSeq, w

LEMMA SeqPlaces ==
    ASSUME NEW s, O!IsSeq(s), NEW Y \in SUBSET DOMAIN s
    PROVE  IsFiniteSet(Y) /\ IsFiniteSet(DOMAIN s) /\ Cardinality(Y) \in Nat
<1>1. Len(s) \in Nat /\ DOMAIN s = 1 .. Len(s)
  BY SeqRange
<1>2. \A a, b \in Int : IsFiniteSet(a .. b)
  BY FS_Interval
<1>3. IsFiniteSet(DOMAIN s)
  BY <1>1, <1>2
<1> QED  BY <1>3, FS_Subset, FS_CardinalityType

LEMMA KeepIsSeq ==
    ASSUME NEW s, O!IsSeq(s), NEW Y \in SUBSET DOMAIN s
    PROVE  O!IsSeq(O!Keep(s, Y))
<1> DEFINE k == O!Keep(s, Y)
<1>1. Cardinality(Y) \in Nat
  BY SeqPlaces
<1>2. k = [i \in 1 .. Cardinality(Y) |-> k[i]]
  BY OfficialSizes DEF O!Keep
<1> HIDE DEF k
<1>3. O!IsSeq(k)
  BY <1>1, <1>2, ListIsSeq
<1> QED  BY <1>3 DEF k

LEMMA OfficialBounds ==
    /\ O!IsSeq(OfficialSources) /\ O!IsSeq(ListedGpt) /\ MaxNotes \in Nat
    /\ \A k \in DOMAIN OfficialSources :
        /\ OfficialSources[k].slug # O!Incidents
        /\ OfficialSources[k].kind \in {"pricing", "catalog", "notes", "status_summary", "rates",
                                        "usage_reconciliation"}
        /\ OfficialSources[k].kind = "pricing" =>
               O!IsSeq(ListedTools[OfficialSources[k].provider])
        /\ \A page \in Pages[OfficialSources[k].slug] :
               page.up => O!InOrder(OfficialSources[k].kind, page.body)
BY Instances DEF O!OfficialAssumption

\* What is listed for each element of a sequence is a sequence as long.
LEMMA MapIsSeq ==
    ASSUME NEW s, O!IsSeq(s), NEW f, f = [i \in DOMAIN s |-> f[i]]
    PROVE  O!IsSeq(f) /\ Len(f) = Len(s)
BY SeqRange, ListIsSeq

LEMMA OneRun ==
    ASSUME NEW source, NEW r, O!RunOf(r, source), r.slug = source.slug
    PROVE  O!Todo(<<r>>, source)
<1> DEFINE t == <<r>>
<1>1. t = [i \in 1 .. 1 |-> t[i]] /\ t[1] = r
  OBVIOUS
<1> HIDE DEF t
<1>2. O!IsSeq(t) /\ Len(t) = 1 /\ DOMAIN t = 1 .. 1
  BY <1>1, ListIsSeq
<1>3. O!Todo(t, source)
  BY <1>1, <1>2 DEF O!Todo
<1> QED  BY <1>3 DEF t

LEMMA TwoRuns ==
    ASSUME NEW source, NEW r, O!RunOf(r, source), r.slug = source.slug,
           NEW q, O!RunOf(q, source)
    PROVE  O!Todo(<<r, q>>, source)
<1> DEFINE t == <<r, q>>
<1>1. t = [i \in 1 .. 2 |-> t[i]] /\ t[1] = r /\ t[2] = q
  OBVIOUS
<1> HIDE DEF t
<1>2. O!IsSeq(t) /\ Len(t) = 2 /\ DOMAIN t = 1 .. 2
  BY <1>1, ListIsSeq
<1>3. O!Todo(t, source)
  BY <1>1, <1>2 DEF O!Todo
<1> QED  BY <1>3 DEF t

LEMMA EmptyIsSeq == O!IsSeq(<<>>) /\ Len(<<>>) = 0
BY DEF O!IsSeq

LEMMA RecordIsSeq ==
    ASSUME NEW r
    PROVE  O!IsSeq(<<r>>) /\ Len(<<r>>) = 1
<1> DEFINE t == <<r>>
<1>1. t = [i \in 1 .. 1 |-> t[i]]
  OBVIOUS
<1> HIDE DEF t
<1>2. O!IsSeq(t) /\ Len(t) = 1
  BY <1>1, ListIsSeq
<1> QED  BY <1>2 DEF t

LEMMA ParsedRun ==
    ASSUME NEW source, NEW records, O!IsSeq(records), NEW kind
    PROVE  O!Todo(<<O!Parsed(source.slug, kind, records)>>, source)
<1> DEFINE r == O!Parsed(source.slug, kind, records)
<1>1. r.slug = source.slug /\ r.records = records
      /\ r.status = (IF records = <<>> THEN "parse_error" ELSE "success")
  BY DEF O!Parsed, O!Run
<1>2. Len(records) \in Nat /\ (records # <<>> => Len(records) > 0)
  BY DEF O!IsSeq
<1> HIDE DEF r
<1>3. O!RunOf(r, source)
  BY <1>1, <1>2 DEF O!RunOf, O!HasRecords
<1>4. O!Todo(<<r>>, source)
  BY <1>1, <1>3, OneRun
<1> QED  BY <1>4 DEF r

\* A pricing page: a success has rows, and two records of each.
LEMMA PricingTodo ==
    ASSUME NEW source, NEW page, O!IsSeq(page.lines), O!IsSeq(ListedTools[source.provider])
    PROVE  O!Todo(O!PricingRuns(source, page), source)
<1> DEFINE rows == O!ParseSource(source, page)
           tools == O!ToolPricing(source, page)
           two == [i \in 1 .. 2 * Len(rows) |->
                      LET row == rows[(i + 1) \div 2] IN
                      IF i % 2 = 1 THEN O!Record("pricing_model", row.model, row)
                      ELSE O!Record("model_metadata", row.model,
                                    O!ModelMetadata(source, page, row))]
           priced == [i \in DOMAIN tools |->
                         O!Record("tool_pricing", <<source.provider, tools[i]>>, "")]
           records == O!PricingRecords(source, page)
<1>1. O!IsSeq(rows)
  <2>1. O!IsSeq(O!OpenAiRows(page.lines))
    <3> DEFINE Y == {i \in DOMAIN ListedGpt : O!Captured(page.lines, ListedGpt[i]) # {}}
               found == O!Keep(ListedGpt, Y)
               f == O!OpenAiRows(page.lines)
    <3>1. O!IsSeq(found)
      <4>1. Y \in SUBSET DOMAIN ListedGpt
        OBVIOUS
      <4> HIDE DEF Y
      <4> QED  BY <4>1, OfficialBounds, KeepIsSeq
    <3>2. f = [i \in DOMAIN found |-> f[i]]
      BY DEF O!OpenAiRows
    <3> HIDE DEF found, f
    <3>3. O!IsSeq(f)
      BY <3>1, <3>2, MapIsSeq
    <3> QED  BY <3>3 DEF f
  <2>2. \A slug : O!IsSeq(O!AnthropicRows(page.lines, slug))
    <3> SUFFICES ASSUME NEW slug PROVE O!IsSeq(O!AnthropicRows(page.lines, slug))
      OBVIOUS
    <3> DEFINE Y == {i \in DOMAIN page.lines : Len(page.lines[i].numbers)
                          = (IF slug = "anthropic_api_docs" THEN 5 ELSE 4)}
               fits == O!Keep(page.lines, Y)
               f == O!AnthropicRows(page.lines, slug)
    <3>1. O!IsSeq(fits)
      <4>1. Y \in SUBSET DOMAIN page.lines
        OBVIOUS
      <4> HIDE DEF Y
      <4> QED  BY <4>1, KeepIsSeq
    <3>2. f = [i \in DOMAIN fits |-> f[i]]
      BY DEF O!AnthropicRows
    <3> HIDE DEF fits, f
    <3>3. O!IsSeq(f)
      BY <3>1, <3>2, MapIsSeq
    <3> QED  BY <3>3 DEF f
  <2> QED  BY <2>1, <2>2 DEF O!ParseSource
<1>2. O!IsSeq(tools)
  <2> DEFINE listed == ListedTools[source.provider]
             Y == {i \in DOMAIN listed : listed[i] \in page.tools}
  <2>1. Y \in SUBSET DOMAIN listed
    OBVIOUS
  <2>2. tools = O!Keep(listed, Y)
    BY DEF O!ToolPricing
  <2> HIDE DEF Y, tools
  <2> QED  BY <2>1, <2>2, KeepIsSeq
<1>3. records = two \o priced
  BY DEF O!PricingRecords
<1> HIDE DEF rows, tools, records
<1>4. Len(rows) \in Nat /\ (rows # <<>> => Len(rows) > 0)
  BY <1>1 DEF O!IsSeq
<1>5. O!IsSeq(two) /\ Len(two) = 2 * Len(rows)
  <2>1. 2 * Len(rows) \in Nat /\ two = [i \in 1 .. 2 * Len(rows) |-> two[i]]
    BY <1>4
  <2> HIDE DEF two
  <2> QED  BY <2>1, ListIsSeq
<1>6. O!IsSeq(priced) /\ Len(priced) \in Nat
  <2>1. priced = [i \in DOMAIN tools |-> priced[i]]
    OBVIOUS
  <2> HIDE DEF priced
  <2> QED  BY <1>2, <2>1, MapIsSeq, SeqRange
<1> HIDE DEF two, priced
<1>7. O!IsSeq(records) /\ Len(records) = 2 * Len(rows) + Len(priced)
  BY <1>3, <1>5, <1>6, JoinIsSeq
<1> DEFINE r == [O!Parsed(source.slug, "pricing", records) EXCEPT
                    !.status = IF rows = <<>> THEN "parse_error" ELSE "success"]
<1>8. r.slug = source.slug /\ r.records = records
      /\ r.status = (IF rows = <<>> THEN "parse_error" ELSE "success")
  BY DEF O!Parsed, O!Run
<1>9. O!PricingRuns(source, page) = <<r>>
  BY DEF O!PricingRuns, rows, records
<1> HIDE DEF r
<1>10. O!RunOf(r, source)
  BY <1>4, <1>6, <1>7, <1>8 DEF O!RunOf, O!HasRecords
<1> QED  BY <1>8, <1>9, <1>10, OneRun

LEMMA StatusTodo ==
    ASSUME NEW source, NEW page, O!IsSeq(page.incidents), source.slug # O!Incidents
    PROVE  O!Todo(O!StatusRuns(source, page), source)
<1> DEFINE live == O!ProviderStatus(source, page).incidents
           incidents == O!IncidentRecords(source, page)
           snapshot == <<O!StatusSnapshot(source, page)>>
<1>1. O!IsSeq(live)
  <2> DEFINE Y == {i \in DOMAIN page.incidents : ~page.incidents[i].resolved}
  <2>1. O!IsSeq(O!Keep(page.incidents, Y))
    <3>1. Y \in SUBSET DOMAIN page.incidents
      OBVIOUS
    <3> HIDE DEF Y
    <3> QED  BY <3>1, KeepIsSeq
  <2>2. live = <<>> \/ live = O!Keep(page.incidents, Y)
    BY DEF O!ProviderStatus, O!Unread
  <2> HIDE DEF live
  <2> QED  BY <2>1, <2>2, EmptyIsSeq
<1>2. incidents = [i \in DOMAIN live |-> incidents[i]]
  BY DEF O!IncidentRecords
<1> HIDE DEF live, incidents
<1>3. O!IsSeq(incidents) /\ Len(incidents) \in Nat
  BY <1>1, <1>2, MapIsSeq, SeqRange
<1>4. O!IsSeq(snapshot) /\ Len(snapshot) = 1
  BY RecordIsSeq
<1> HIDE DEF snapshot
<1>5. O!IsSeq(snapshot \o incidents) /\ Len(snapshot \o incidents) = 1 + Len(incidents)
  BY <1>3, <1>4, JoinIsSeq
<1> DEFINE a == O!Run(source.slug, "status_summary", "success", snapshot)
           b == O!Run(O!Incidents, "status_incidents", "success", incidents)
           c == O!Run(source.slug, "status_summary", "success", snapshot \o incidents)
<1>6. /\ a.slug = source.slug /\ a.records = snapshot /\ a.status = "success"
      /\ b.slug = O!Incidents /\ b.records = incidents /\ b.status = "success"
      /\ c.slug = source.slug /\ c.records = snapshot \o incidents /\ c.status = "success"
  BY DEF O!Run
<1>7. O!StatusRuns(source, page) = IF source.provider = "openai" THEN <<a, b>> ELSE <<c>>
  BY DEF O!StatusRuns, snapshot, incidents
<1> HIDE DEF a, b, c
<1>8. O!RunOf(a, source) /\ O!RunOf(b, source) /\ O!RunOf(c, source)
  BY <1>3, <1>4, <1>5, <1>6 DEF O!RunOf, O!HasRecords
<1>9. O!Todo(<<a, b>>, source) /\ O!Todo(<<c>>, source)
  BY <1>6, <1>8, OneRun, TwoRuns
<1> QED  BY <1>7, <1>9

LEMMA UsageTodo ==
    ASSUME NEW source, NEW page
    PROVE  O!Todo(O!UsageRuns(source, page), source)
<1> DEFINE none == O!Run(source.slug, "usage_reconciliation", "skipped", <<>>)
           one == <<O!Record("usage_reconciliation", "days", O!Reconciled(page))>>
           status == IF O!Reconciled(page).available THEN "success" ELSE "fetch_error"
           all == O!Run(source.slug, "usage_reconciliation", status, one)
<1>1. O!UsageRuns(source, page) = IF ~page.key THEN <<none>> ELSE <<all>>
  BY DEF O!UsageRuns
<1>2. status \in {"success", "fetch_error"}
  OBVIOUS
<1>3. O!IsSeq(one) /\ Len(one) = 1
  BY RecordIsSeq
<1> HIDE DEF status, one
<1>4. /\ none.slug = source.slug /\ none.records = <<>> /\ none.status = "skipped"
      /\ all.slug = source.slug /\ all.records = one /\ all.status = status
  BY DEF O!Run
<1> HIDE DEF none, all
<1>5. O!RunOf(none, source) /\ O!RunOf(all, source)
  <2>1. O!RunOf(none, source)
    BY <1>4, EmptyIsSeq DEF O!RunOf, O!HasRecords
  <2>2. O!RunOf(all, source)
    <3>1. O!HasRecords(all.slug, all.status, 1)
      BY <1>2, <1>4 DEF O!HasRecords
    <3> QED  BY <1>3, <1>4, <3>1 DEF O!RunOf
  <2> QED  BY <2>1, <2>2
<1> QED  BY <1>1, <1>4, <1>5, OneRun

\* Whatever a source answers: a success has records, what is skipped has none.
LEMMA SourceTodo ==
    ASSUME NEW k \in DOMAIN OfficialSources, NEW page \in Pages[OfficialSources[k].slug]
    PROVE  O!Todo(O!SourceRuns(OfficialSources[k], page), OfficialSources[k])
<1> DEFINE source == OfficialSources[k]
           runs == O!SourceRuns(source, page)
<1>1. /\ source.slug # O!Incidents
      /\ source.kind \in {"pricing", "catalog", "notes", "status_summary", "rates",
                          "usage_reconciliation"}
      /\ source.kind = "pricing" => O!IsSeq(ListedTools[source.provider])
      /\ page.up => O!InOrder(source.kind, page.body)
      /\ MaxNotes \in Nat
  BY OfficialBounds
<1> HIDE DEF source
<1>2. CASE ~page.up
  <2> DEFINE r == O!Run(source.slug, source.kind, "fetch_error", <<>>)
  <2>1. r.slug = source.slug /\ r.records = <<>> /\ r.status = "fetch_error"
    BY DEF O!Run
  <2>2. runs = <<r>>
    BY <1>2 DEF O!SourceRuns
  <2> HIDE DEF r, runs
  <2>3. O!RunOf(r, source)
    BY <2>1, EmptyIsSeq DEF O!RunOf, O!HasRecords
  <2> QED  BY <2>1, <2>2, <2>3, OneRun DEF runs, source
<1>3. CASE page.up /\ source.kind = "pricing"
  <2>1. runs = O!PricingRuns(source, page.body)
    BY <1>3 DEF O!SourceRuns
  <2>2. O!IsSeq(page.body.lines)
    BY <1>1, <1>3 DEF O!InOrder
  <2> HIDE DEF runs
  <2>3. O!Todo(runs, source)
    BY <1>1, <1>3, <2>1, <2>2, PricingTodo
  <2> QED  BY <2>3 DEF runs, source
<1>4. CASE page.up /\ source.kind = "catalog"
  <2> DEFINE firsts == O!Firsts(page.body.named)
             records == O!CatalogRecords(page.body)
  <2>1. runs = <<O!Parsed(source.slug, "catalog", records)>>
    BY <1>4 DEF O!SourceRuns
  <2>2. O!IsSeq(page.body.named)
    BY <1>1, <1>4 DEF O!InOrder
  <2>3. O!IsSeq(firsts)
    <3> DEFINE s == page.body.named
               Y == {i \in DOMAIN s : \A j \in 1 .. i - 1 : s[j] # s[i]}
    <3>1. Y \in SUBSET DOMAIN s /\ firsts = O!Keep(s, Y)
      BY DEF O!Firsts
    <3> HIDE DEF Y, firsts
    <3> QED  BY <2>2, <3>1, KeepIsSeq
  <2>4. records = [i \in DOMAIN firsts |-> records[i]]
    BY DEF O!CatalogRecords
  <2> HIDE DEF runs, firsts, records
  <2>5. O!Todo(runs, source)
    BY <2>1, <2>3, <2>4, MapIsSeq, ParsedRun
  <2> QED  BY <2>5 DEF runs, source
<1>5. CASE page.up /\ source.kind = "notes"
  <2> DEFINE split == O!SplitSections(page.body)
             notes == O!ReleaseNotes(page.body)
             records == O!NoteRecords(page.body)
             n == IF MaxNotes < Len(split) THEN MaxNotes ELSE Len(split)
  <2>1. runs = <<O!Parsed(source.slug, "notes", records)>>
    BY <1>5 DEF O!SourceRuns
  <2>2. O!IsSeq(page.body.sections)
    BY <1>1, <1>5 DEF O!InOrder
  <2>3. O!IsSeq(split)
    <3> DEFINE s == page.body.sections
               Y == {i \in DOMAIN s : s[i].said}
    <3>1. Y \in SUBSET DOMAIN s /\ split = O!Keep(s, Y)
      BY DEF O!SplitSections
    <3> HIDE DEF Y, split
    <3> QED  BY <2>2, <3>1, KeepIsSeq
  <2>4. DOMAIN notes = {j \in DOMAIN split : j <= MaxNotes}
    BY DEF O!ReleaseNotes
  <2>5. records = [i \in DOMAIN notes |-> records[i]]
    BY DEF O!NoteRecords
  <2> HIDE DEF runs, split, notes, records
  <2>6. n \in Nat /\ DOMAIN notes = 1 .. n
    BY <1>1, <2>3, <2>4, SeqRange
  <2> HIDE DEF n
  <2>7. O!IsSeq(records)
    BY <2>5, <2>6, ListIsSeq
  <2>8. O!Todo(runs, source)
    BY <2>1, <2>7, ParsedRun
  <2> QED  BY <2>8 DEF runs, source
<1>6. CASE page.up /\ source.kind = "status_summary"
  <2>1. runs = O!StatusRuns(source, page.body)
    BY <1>6 DEF O!SourceRuns
  <2>2. O!IsSeq(page.body.incidents)
    BY <1>1, <1>6 DEF O!InOrder
  <2> HIDE DEF runs
  <2>3. O!Todo(runs, source)
    BY <1>1, <2>1, <2>2, StatusTodo
  <2> QED  BY <2>3 DEF runs, source
<1>7. CASE page.up /\ source.kind = "rates"
  <2> DEFINE records == O!RateRecords(page.body)
  <2>1. runs = <<O!Parsed(source.slug, "rates", records)>>
    BY <1>7 DEF O!SourceRuns
  <2>2. O!IsSeq(page.body.rates)
    BY <1>1, <1>7 DEF O!InOrder
  <2>3. records = <<>> \/ records = [i \in DOMAIN page.body.rates |-> records[i]]
    BY DEF O!RateRecords
  <2> HIDE DEF runs, records
  <2>4. O!IsSeq(records)
    BY <2>2, <2>3, MapIsSeq, EmptyIsSeq
  <2>5. O!Todo(runs, source)
    BY <2>1, <2>4, ParsedRun
  <2> QED  BY <2>5 DEF runs, source
<1>8. CASE page.up /\ source.kind = "usage_reconciliation"
  <2>1. runs = O!UsageRuns(source, page.body)
    BY <1>8 DEF O!SourceRuns
  <2> HIDE DEF runs
  <2>2. O!Todo(runs, source)
    BY <2>1, UsageTodo
  <2> QED  BY <2>2 DEF runs, source
<1> QED  BY <1>1, <1>2, <1>3, <1>4, <1>5, <1>6, <1>7, <1>8

LEMMA SyncFields ==
    ASSUME O!Inv
    PROVE  /\ DOMAIN v3 = {"pc", "at", "from", "todo", "run", "rec", "count"}
           /\ v3 = [k \in {"pc", "at", "from", "todo", "run", "rec", "count"} |-> v3[k]]
BY DEF O!Inv

LEMMA IdleFields ==
    /\ O!Idle = [k \in {"pc", "at", "from", "todo", "run", "rec", "count"} |-> O!Idle[k]]
    /\ O!Idle.pc = "idle" /\ O!Idle.at = 0 /\ O!Idle.from = 0 /\ O!Idle.todo = <<>>
    /\ O!Idle.run = 0 /\ O!Idle.rec = 0 /\ O!Idle.count = O!Zero
BY DEF O!Idle

\* What has been inserted and what waits are finite.
LEMMA SyncSizes ==
    ASSUME O!Inv
    PROVE  /\ Len(v1) \in Nat /\ DOMAIN v1 = 1 .. Len(v1)
           /\ Len(v2) \in Nat /\ DOMAIN v2 = 1 .. Len(v2)
           /\ v3.from \in Nat => IsFiniteSet(O!Own)
           /\ IsFiniteSet(O!Inserted)
           /\ v3.pc \in {"run", "records"} =>
                 /\ Len(v3.todo) \in Nat /\ DOMAIN v3.todo = 1 .. Len(v3.todo)
                 /\ IsFiniteSet(DOMAIN v3.todo) /\ IsFiniteSet(O!Waiting)
                 /\ \A i \in DOMAIN v3.todo : Len(v3.todo[i].records) \in Nat
<1>1. O!IsSeq(v1) /\ O!IsSeq(v2)
  BY DEF O!Inv
<1>2. \A a, b \in Int : IsFiniteSet(a .. b)
  BY FS_Interval
<1>3. Len(v1) \in Nat /\ DOMAIN v1 = 1 .. Len(v1) /\ Len(v2) \in Nat /\ DOMAIN v2 = 1 .. Len(v2)
  BY <1>1, SeqRange
<1>4. v3.from \in Nat => IsFiniteSet(O!Own)
  BY <1>2, <1>3 DEF O!Own
<1>5. IsFiniteSet(O!Inserted)
  <2>1. O!Inserted \in SUBSET DOMAIN v2
    BY DEF O!Inserted
  <2> QED  BY <1>1, <2>1, SeqPlaces
<1>6. ASSUME v3.pc \in {"run", "records"}
      PROVE  /\ Len(v3.todo) \in Nat /\ DOMAIN v3.todo = 1 .. Len(v3.todo)
             /\ IsFiniteSet(DOMAIN v3.todo) /\ IsFiniteSet(O!Waiting)
             /\ \A i \in DOMAIN v3.todo : Len(v3.todo[i].records) \in Nat
  <2>1. O!IsSeq(v3.todo) /\ \A i \in DOMAIN v3.todo : O!IsSeq(v3.todo[i].records)
    BY <1>6 DEF O!Inv, O!UnderWay, O!Todo, O!RunOf
  <2>2. O!Waiting \in SUBSET DOMAIN v3.todo
    BY DEF O!Waiting
  <2> QED  BY <2>1, <2>2, SeqRange, SeqPlaces
<1> QED  BY <1>3, <1>4, <1>5, <1>6

LEMMA OfficialStarts == O!Init => O!Inv
<1> SUFFICES ASSUME O!Init PROVE O!Inv
  OBVIOUS
<1>1. v1 = <<>> /\ v2 = <<>> /\ v3 = O!Idle /\ ~v4.over /\ v4.over \in BOOLEAN
  BY DEF O!Init, O!NoSummary
<1>2. O!IsSeq(v1) /\ O!IsSeq(v2) /\ DOMAIN v1 = {} /\ DOMAIN v2 = {}
  BY <1>1, EmptyIsSeq, SeqRange
<1>3. Len(OfficialSources) \in Nat
  BY OfficialBounds, SeqRange
<1>4. O!TypeOK
  BY <1>1, <1>2, <1>3, IdleFields DEF O!TypeOK
<1>5. O!SyncReported
  BY <1>1 DEF O!SyncReported, O!SummaryTrue, O!ReportOfThisSync
<1> QED  BY <1>1, <1>2, <1>4, <1>5, IdleFields DEF O!Inv

\* The steps that end a sync, but for its last, leave the rest as it was.
LEMMA BackToIdle ==
    ASSUME O!Inv, v3' = O!Idle, v3.pc # "idle", v1' = v1, v2' = v2, v4' = v4
    PROVE  O!Inv'
<1>1. ~v4.over /\ v3'.pc = "idle" /\ v3'.at = 0
  BY IdleFields DEF O!Inv, O!UnderWay
<1>2. O!TypeOK'
  <2>1. Len(OfficialSources) \in Nat
    BY OfficialBounds, SeqRange
  <2> QED  BY <1>1, <2>1 DEF O!Inv, O!TypeOK
<1>3. O!SyncReported'
  BY <1>1 DEF O!SyncReported, O!SummaryTrue, O!ReportOfThisSync
<1>4. O!IsSeq(v1)' /\ O!IsSeq(v2)'
  BY DEF O!Inv, O!IsSeq
<1>5. v3' = [k \in {"pc", "at", "from", "todo", "run", "rec", "count"} |-> v3'[k]]
  BY IdleFields
<1>6. \A i \in DOMAIN v1' :
         \/ v1'[i].slug = O!Incidents
         \/ \E k \in DOMAIN OfficialSources : v1'[i].slug = OfficialSources[k].slug
  BY DEF O!Inv
<1> QED  BY <1>1, <1>2, <1>3, <1>4, <1>5, <1>6 DEF O!Inv

\* A step of a sync under way: what is left to show.
LEMMA SyncStep ==
    ASSUME O!Inv, O!IsSeq(v1'), O!IsSeq(v2'), O!TypeOK', ~v4'.over,
           \A i \in DOMAIN v1' :
               \/ v1'[i].slug = O!Incidents
               \/ \E k \in DOMAIN OfficialSources : v1'[i].slug = OfficialSources[k].slug,
           DOMAIN v3' = DOMAIN v3, v3' = [k \in DOMAIN v3 |-> v3'[k]], O!UnderWay'
    PROVE  O!Inv'
<1>1. O!SyncReported'
  BY DEF O!SyncReported, O!SummaryTrue, O!ReportOfThisSync
<1>2. O!IsSeq(v1)' /\ O!IsSeq(v2)'
  BY DEF O!IsSeq
<1> QED  BY <1>1, <1>2, SyncFields DEF O!Inv

LEMMA SyncStarts ==
    ASSUME O!Inv, O!Start
    PROVE  O!Inv'
<1>1. /\ v1' = v1 /\ v2' = v2 /\ ~v4'.over /\ v4'.over \in BOOLEAN
      /\ v3' = [O!Idle EXCEPT !.pc = "fetch", !.at = 1, !.from = Len(v1)]
  BY DEF O!Start, O!NoSummary
<1>2. /\ v3'.pc = "fetch" /\ v3'.at = 1 /\ v3'.from = Len(v1) /\ v3'.todo = <<>>
      /\ v3'.run = 0 /\ v3'.rec = 0 /\ v3'.count = O!Zero
      /\ DOMAIN v3' = DOMAIN v3 /\ v3' = [k \in DOMAIN v3 |-> v3'[k]]
  <2>1. DOMAIN O!Idle = DOMAIN v3
    BY IdleFields, SyncFields
  <2> QED  BY <1>1, <2>1, IdleFields, SyncFields
<1>3. Len(v1) \in Nat /\ DOMAIN v1 = 1 .. Len(v1) /\ O!IsSeq(v1) /\ O!IsSeq(v2)
  BY SyncSizes DEF O!Inv
<1>4. Len(OfficialSources) \in Nat /\ DOMAIN OfficialSources = 1 .. Len(OfficialSources)
  BY OfficialBounds, SeqRange
<1>5. O!TypeOK'
  BY <1>1, <1>2, <1>4 DEF O!TypeOK, O!Inv
<1>6. O!Own' = {} /\ O!Inserted' = {} /\ O!Waiting' = {} /\ O!Rest' = 0
  <2>1. O!Own' = {}
    BY <1>1, <1>2, <1>3 DEF O!Own
  <2>2. O!Inserted' = {}
    BY <1>1, <1>2, <1>3 DEF O!Inserted, O!Inv, O!TypeOK
  <2>3. O!Waiting' = {}
    BY <1>2 DEF O!Waiting
  <2>4. O!Rest' = 0
    BY <1>2 DEF O!Rest
  <2> QED  BY <2>1, <2>2, <2>3, <2>4
<1>7. O!CountsTrue'
  <2>1. \A f : SumFunctionOnSet(f, {}) = 0
    BY SumEmpty
  <2>2. Cardinality({}) = 0
    BY FS_EmptySet
  <2>3. {i \in O!Own' : v1'[i].status = "success"} = {}
        /\ \A X : X \cap O!Waiting' = {}
    BY <1>6
  <2> QED  BY <1>2, <1>6, <2>1, <2>2, <2>3, OfficialSizes, OfficialSums DEF O!CountsTrue, O!Zero
<1>8. O!SourcesRun'
  BY <1>2, <1>4 DEF O!SourcesRun
<1>9. O!RunsRecorded'
  BY <1>6 DEF O!RunsRecorded
<1>10. O!UnderWay'
  BY <1>1, <1>2, <1>3, <1>7, <1>8, <1>9 DEF O!UnderWay
<1> QED  BY <1>1, <1>2, <1>3, <1>5, <1>10, SyncStep DEF O!Inv

LEMMA SyncFetches ==
    ASSUME O!Inv, O!Fetch
    PROVE  O!Inv'
<1>1. PICK page \in Pages[OfficialSources[v3.at].slug] :
         LET done == O!SourceRuns(OfficialSources[v3.at], page)
             fatal == OfficialSources[v3.at].kind = "notes" /\ page.up
                      /\ O!CutsACharacter(page.body)
         IN v3' = IF fatal THEN O!Idle
                  ELSE [v3 EXCEPT !.pc = "run", !.todo = done,
                          !.count = O!Sum(@, O!Counted(OfficialSources[v3.at], page, done))]
  BY DEF O!Fetch
<1>2. v3.pc = "fetch" /\ v3.at <= Len(OfficialSources) /\ v1' = v1 /\ v2' = v2 /\ v4' = v4
  BY DEF O!Fetch
<1>3. CASE v3' = O!Idle
  BY <1>2, <1>3, BackToIdle
<1>4. CASE v3' # O!Idle
  <2> DEFINE source == OfficialSources[v3.at]
             done == O!SourceRuns(source, page)
             counted == O!Counted(source, page, done)
  <2>1. v3' = [v3 EXCEPT !.pc = "run", !.todo = done, !.count = O!Sum(@, counted)]
    BY <1>1, <1>4
  <2>2. O!UnderWay
    BY <1>2 DEF O!Inv
  <2>3. /\ v3.from \in 0 .. Len(v1) /\ ~v4.over /\ v3.todo = <<>> /\ v3.run = 0 /\ v3.rec = 0
        /\ O!CountsTrue /\ O!SourcesRun /\ O!RunsRecorded
    BY <1>2, <2>2 DEF O!UnderWay
  <2>4. v3.at \in DOMAIN OfficialSources
    <3>1. v3.at \in Nat /\ v3.at > 0
      BY <2>2, OfficialBounds, SeqRange DEF O!Inv, O!TypeOK, O!UnderWay
    <3> QED  BY <1>2, <3>1, OfficialBounds, SeqRange
  <2>5. O!Todo(done, source)
    BY <2>4, SourceTodo
  <2>6. counted.runs = Len(done) /\ counted.records = O!Records(done)
        /\ counted.ok = Cardinality(O!Successes(done))
    BY OfficialSizes DEF O!Counted
  <2>7. /\ v3'.pc = "run" /\ v3'.at = v3.at /\ v3'.from = v3.from /\ v3'.todo = done
        /\ v3'.run = 0 /\ v3'.rec = 0 /\ v3'.count = O!Sum(v3.count, counted)
        /\ DOMAIN v3' = DOMAIN v3 /\ v3' = [k \in DOMAIN v3 |-> v3'[k]]
    BY <2>1, <2>3, SyncFields
  <2> HIDE DEF source, done, counted
  <2>8. /\ Len(done) \in Nat /\ DOMAIN done = 1 .. Len(done)
        /\ \A Y \in SUBSET DOMAIN done : Cardinality(Y) \in Nat
        /\ Cardinality(DOMAIN done) = Len(done)
    <3>1. O!IsSeq(done)
      BY <2>5 DEF O!Todo
    <3>2. Len(done) \in Nat /\ DOMAIN done = 1 .. Len(done)
      BY <3>1, SeqRange
    <3>3. Cardinality(1 .. Len(done)) = Len(done)
      <4>1. \A b \in Int : Cardinality(1 .. b) = IF 1 > b THEN 0 ELSE b - 1 + 1
        BY FS_Interval
      <4> QED  BY <3>2, <4>1
    <3> QED  BY <3>1, <3>2, <3>3, SeqPlaces
  <2>9. /\ O!Own' = O!Own /\ O!Inserted' = O!Inserted /\ O!Rest = 0 /\ O!Rest' = 0
        /\ O!Waiting = {} /\ O!Waiting' = DOMAIN done
        /\ O!Successes(v3.todo) = {} /\ O!Successes(v3'.todo) \cap O!Waiting' = O!Successes(done)
        /\ v1' = v1
    <3>1. O!Own' = O!Own /\ O!Inserted' = O!Inserted /\ O!Rest = 0 /\ O!Rest' = 0
      BY <1>2, <2>7 DEF O!Own, O!Inserted, O!Rest
    <3>2. O!Waiting = {} /\ O!Waiting' = DOMAIN done /\ O!Successes(v3.todo) = {}
      BY <2>3, <2>7, <2>8 DEF O!Waiting, O!Successes
    <3> QED  BY <1>2, <2>7, <3>1, <3>2 DEF O!Successes
  <2>10. O!CountsTrue'
    <3>1. /\ v3.count.runs = Cardinality(O!Own)
          /\ v3.count.records = Cardinality(O!Inserted)
          /\ v3.count.ok = Cardinality({i \in O!Own : v1[i].status = "success"})
      <4>1. \A f : SumFunctionOnSet(f, {}) = 0
        BY SumEmpty
      <4>2. Cardinality({}) = 0 /\ {} \cap {} = {}
        BY FS_EmptySet
      <4>3. Cardinality(O!Own) \in Nat /\ Cardinality(O!Inserted) \in Nat
            /\ Cardinality({i \in O!Own : v1[i].status = "success"}) \in Nat
        BY <2>3, SyncSizes, FS_CardinalityType, FS_Subset
      <4> QED  BY <2>3, <2>9, <4>1, <4>2, <4>3, OfficialSizes, OfficialSums DEF O!CountsTrue
    <3>2. v3'.count.runs = v3.count.runs + counted.runs
          /\ v3'.count.records = v3.count.records + counted.records
          /\ v3'.count.ok = v3.count.ok + counted.ok
      BY <2>7 DEF O!Sum
    <3>3. O!Records(done) = SumFunctionOnSet(O!LengthOf(done), DOMAIN done)
      BY OfficialSums DEF O!Records, O!LengthOf
    <3>4. SumFunctionOnSet(O!LengthOf(done), DOMAIN done) \in Int
      <4>1. IsFiniteSet(DOMAIN done) /\ \A i \in DOMAIN done : O!LengthOf(done)[i] \in Int
        <5>1. O!IsSeq(done) /\ \A i \in DOMAIN done : O!IsSeq(done[i].records)
          BY <2>5 DEF O!Todo, O!RunOf
        <5> QED  BY <5>1, SeqPlaces, SeqRange DEF O!LengthOf
      <4> QED  BY <4>1, SumRemoves
    <3>5. Cardinality(O!Own) \in Nat /\ Cardinality(O!Inserted) \in Nat
      BY <2>3, SyncSizes, FS_CardinalityType
    <3>6. v3'.count.runs = Cardinality(O!Own') + Cardinality(O!Waiting')
      BY <2>6, <2>8, <2>9, <3>1, <3>2
    <3>7. v3'.count.records = Cardinality(O!Inserted')
             + SumFunctionOnSet(O!LengthOf(v3'.todo), O!Waiting') + O!Rest'
      BY <2>6, <2>7, <2>9, <3>1, <3>2, <3>3, <3>4, <3>5
    <3>8. v3'.count.ok = Cardinality({i \in O!Own' : v1'[i].status = "success"})
             + Cardinality(O!Successes(v3'.todo) \cap O!Waiting')
      BY <2>6, <2>9, <3>1, <3>2
    <3> QED  BY <3>6, <3>7, <3>8, OfficialSizes, OfficialSums DEF O!CountsTrue
  <2>11. O!SourcesRun'
    BY <1>2, <2>3, <2>7, <2>9 DEF O!SourcesRun
  <2>12. O!RunsRecorded'
    <3>1. \A i : ~O!Begun(i) /\ ~O!Begun(i)'
      BY <1>2, <2>7 DEF O!Begun
    <3> QED  BY <1>2, <2>3, <2>9, <3>1 DEF O!RunsRecorded
  <2>13. O!UnderWay'
    BY <1>2, <2>2, <2>3, <2>4, <2>5, <2>7, <2>8, <2>10, <2>11, <2>12 DEF O!UnderWay, source
  <2>14. O!TypeOK'
    BY <1>2, <2>7 DEF O!TypeOK, O!Inv
  <2> QED  BY <1>2, <2>3, <2>7, <2>13, <2>14, SyncStep DEF O!Inv
<1> QED  BY <1>3, <1>4

\* A run that is inserted no longer waits: its records do.
LEMMA SyncInsertsRun ==
    ASSUME O!Inv, O!InsertRun
    PROVE  O!Inv'
<1> DEFINE r == v3.todo[v3.run + 1]
           row == [slug |-> r.slug, kind |-> r.kind, status |-> r.status]
           n == Len(v1) + 1
<1>1. /\ v3.pc = "run" /\ v3.run < Len(v3.todo) /\ v1' = Append(v1, row)
      /\ v3' = [v3 EXCEPT !.pc = "records", !.run = @ + 1] /\ v2' = v2 /\ v4' = v4
  BY DEF O!InsertRun
<1>2. O!UnderWay
  BY <1>1 DEF O!Inv
<1>3. /\ v3.at > 0 /\ v3.from \in 0 .. Len(v1) /\ ~v4.over /\ v3.rec = 0
      /\ v3.at \in DOMAIN OfficialSources /\ O!Todo(v3.todo, OfficialSources[v3.at])
      /\ v3.run \in 0 .. Len(v3.todo)
      /\ O!CountsTrue /\ O!SourcesRun /\ O!RunsRecorded
  BY <1>1, <1>2 DEF O!UnderWay
<1>4. /\ v3'.pc = "records" /\ v3'.at = v3.at /\ v3'.from = v3.from /\ v3'.todo = v3.todo
      /\ v3'.run = v3.run + 1 /\ v3'.rec = 0 /\ v3'.count = v3.count
      /\ DOMAIN v3' = DOMAIN v3 /\ v3' = [k \in DOMAIN v3 |-> v3'[k]]
  BY <1>1, <1>3, SyncFields
<1>5. /\ Len(v1) \in Nat /\ DOMAIN v1 = 1 .. Len(v1)
      /\ Len(v3.todo) \in Nat /\ DOMAIN v3.todo = 1 .. Len(v3.todo)
      /\ IsFiniteSet(O!Own) /\ IsFiniteSet(O!Inserted) /\ IsFiniteSet(O!Waiting)
      /\ \A i \in DOMAIN v3.todo : Len(v3.todo[i].records) \in Nat
  BY <1>1, <1>3, SyncSizes
<1>6. v3.run + 1 \in DOMAIN v3.todo /\ v3.run + 1 \in O!Waiting
  BY <1>1, <1>3, <1>5 DEF O!Waiting
<1>7. O!RunOf(r, OfficialSources[v3.at]) /\ Len(r.records) \in Nat
  BY <1>3, <1>5, <1>6 DEF O!Todo
<1>8. row.slug = r.slug /\ row.status = r.status
      /\ row = [slug |-> r.slug, kind |-> r.kind, status |-> r.status]
  OBVIOUS
<1>9. r = v3.todo[v3.run + 1]
  OBVIOUS
<1> HIDE DEF r, row
<1>10. /\ O!IsSeq(v1') /\ Len(v1') = n /\ DOMAIN v1' = 1 .. n
       /\ \A i \in DOMAIN v1 : v1'[i] = v1[i]
       /\ v1'[n] = row
  BY <1>1, AppendIsSeq DEF O!Inv
<1>11. n \in Nat /\ n \notin DOMAIN v1 /\ n = Len(v1) + 1 /\ DOMAIN v1' = DOMAIN v1 \cup {n}
  BY <1>5, <1>10
<1> HIDE DEF n
<1>12. /\ O!Own' = O!Own \cup {n} /\ n \notin O!Own /\ O!Own \subseteq DOMAIN v1
       /\ O!Inserted' = O!Inserted
       /\ O!Waiting' = O!Waiting \ {v3.run + 1}
       /\ O!Rest = 0 /\ O!Rest' = Len(r.records)
  <2>1. O!Own' = O!Own \cup {n} /\ n \notin O!Own /\ O!Own \subseteq DOMAIN v1
    BY <1>3, <1>4, <1>5, <1>10, <1>11 DEF O!Own
  <2>2. O!Inserted' = O!Inserted
    BY <1>1, <1>4 DEF O!Inserted
  <2>3. O!Waiting' = O!Waiting \ {v3.run + 1}
    BY <1>3, <1>4, <1>5 DEF O!Waiting
  <2>4. O!Rest = 0
    BY <1>1 DEF O!Rest
  <2>5. O!Rest' = Len(r.records)
    BY <1>4, <1>7, <1>9 DEF O!Rest, O!InHand
  <2> QED  BY <2>1, <2>2, <2>3, <2>4, <2>5
<1>13. O!CountsTrue'
  <2> DEFINE good == {i \in O!Own : v1[i].status = "success"}
             waits == O!Successes(v3.todo) \cap O!Waiting
  <2>1. /\ v3.count.runs = Cardinality(O!Own) + Cardinality(O!Waiting)
        /\ v3.count.records = Cardinality(O!Inserted)
              + SumFunctionOnSet(O!LengthOf(v3.todo), O!Waiting) + 0
        /\ v3.count.ok = Cardinality(good) + Cardinality(waits)
    BY <1>3, <1>12, OfficialSizes, OfficialSums DEF O!CountsTrue
  <2>2. v3'.count.runs = Cardinality(O!Own') + Cardinality(O!Waiting')
    <3>1. Cardinality(O!Own') = Cardinality(O!Own) + 1 /\ Cardinality(O!Own) \in Nat
      BY <1>5, <1>12, FS_AddElement, FS_CardinalityType
    <3>2. Cardinality(O!Waiting') = Cardinality(O!Waiting) - 1 /\ Cardinality(O!Waiting) \in Nat
      BY <1>5, <1>6, <1>12, FS_RemoveElement, FS_CardinalityType
    <3> QED  BY <1>4, <2>1, <3>1, <3>2
  <2>3. v3'.count.records = Cardinality(O!Inserted')
             + SumFunctionOnSet(O!LengthOf(v3'.todo), O!Waiting') + O!Rest'
    <3> DEFINE f == O!LengthOf(v3.todo)
    <3>1. \A i \in DOMAIN v3.todo : f[i] = Len(v3.todo[i].records)
      BY DEF O!LengthOf
    <3>2. O!Waiting \subseteq DOMAIN v3.todo
      BY DEF O!Waiting
    <3> HIDE DEF f
    <3>3. \A i \in O!Waiting : f[i] \in Int
      BY <1>5, <3>1, <3>2
    <3>4. f[v3.run + 1] = Len(r.records)
      BY <1>6, <1>9, <3>1
    <3>5. /\ SumFunctionOnSet(f, O!Waiting) \in Int
          /\ SumFunctionOnSet(f, O!Waiting)
               = f[v3.run + 1] + SumFunctionOnSet(f, O!Waiting \ {v3.run + 1})
      BY <1>5, <1>6, <3>3, SumRemoves
    <3>6. SumFunctionOnSet(f, O!Waiting \ {v3.run + 1}) \in Int
      <4>1. IsFiniteSet(O!Waiting \ {v3.run + 1})
        BY <1>5, FS_Subset
      <4> QED  BY <3>3, <4>1, SumRemoves
    <3>7. Cardinality(O!Inserted) \in Nat
      BY <1>5, FS_CardinalityType
    <3>8. v3.count.records = Cardinality(O!Inserted) + SumFunctionOnSet(f, O!Waiting) + 0
      BY <2>1 DEF f
    <3>9. v3'.count.records = Cardinality(O!Inserted')
             + SumFunctionOnSet(f, O!Waiting') + O!Rest'
      BY <1>4, <1>7, <1>12, <3>4, <3>5, <3>6, <3>7, <3>8
    <3> QED  BY <1>4, <3>9 DEF f
  <2>4. v3'.count.ok = Cardinality({i \in O!Own' : v1'[i].status = "success"})
             + Cardinality(O!Successes(v3'.todo) \cap O!Waiting')
    <3>1. IsFiniteSet(good) /\ IsFiniteSet(waits)
          /\ Cardinality(good) \in Nat /\ Cardinality(waits) \in Nat
      <4>1. good \in SUBSET O!Own /\ waits \in SUBSET O!Waiting
        OBVIOUS
      <4> HIDE DEF good, waits
      <4> QED  BY <1>5, <4>1, FS_Subset, FS_CardinalityType
    <3>2. CASE r.status = "success"
      <4>1. {i \in O!Own' : v1'[i].status = "success"} = good \cup {n} /\ n \notin good
        BY <1>8, <1>10, <1>12, <3>2
      <4>2. /\ O!Successes(v3'.todo) \cap O!Waiting' = waits \ {v3.run + 1}
            /\ v3.run + 1 \in waits
        BY <1>4, <1>6, <1>9, <1>12, <3>2 DEF O!Successes
      <4> HIDE DEF good, waits
      <4>3. Cardinality(good \cup {n}) = Cardinality(good) + 1
            /\ Cardinality(waits \ {v3.run + 1}) = Cardinality(waits) - 1
        BY <3>1, <4>1, <4>2, FS_AddElement, FS_RemoveElement
      <4>4. Cardinality({i \in O!Own' : v1'[i].status = "success"}) = Cardinality(good) + 1
            /\ Cardinality(O!Successes(v3'.todo) \cap O!Waiting') = Cardinality(waits) - 1
        BY <4>1, <4>2, <4>3
      <4> QED  BY <1>4, <2>1, <3>1, <4>4
    <3>3. CASE r.status # "success"
      <4>1. {i \in O!Own' : v1'[i].status = "success"} = good
        BY <1>8, <1>10, <1>12, <3>3
      <4>2. O!Successes(v3'.todo) \cap O!Waiting' = waits
        BY <1>4, <1>9, <1>12, <3>3 DEF O!Successes
      <4> QED  BY <1>4, <2>1, <4>1, <4>2
    <3> QED  BY <3>2, <3>3
  <2> QED  BY <2>2, <2>3, <2>4, OfficialSizes, OfficialSums DEF O!CountsTrue
<1>14. O!SourcesRun'
  <2> SUFFICES ASSUME NEW k \in DOMAIN OfficialSources, k <= v3.at
               PROVE  \E i \in O!Own' : v1'[i].slug = OfficialSources[k].slug
    <3>1. DOMAIN OfficialSources = 1 .. Len(OfficialSources) /\ Len(OfficialSources) \in Nat
      BY OfficialBounds, SeqRange
    <3> QED  BY <1>3, <1>4, <3>1 DEF O!SourcesRun
  <2>1. k \in Nat /\ v3.at \in Nat
    <3>1. DOMAIN OfficialSources = 1 .. Len(OfficialSources) /\ Len(OfficialSources) \in Nat
      BY OfficialBounds, SeqRange
    <3> QED  BY <1>3, <3>1
  <2>2. CASE k < v3.at \/ v3.run > 0
    <3>1. PICK i \in O!Own : v1[i].slug = OfficialSources[k].slug
      BY <1>3, <2>1, <2>2 DEF O!SourcesRun
    <3> QED  BY <1>10, <1>12, <3>1
  <2>3. CASE k = v3.at /\ v3.run = 0
    <3>1. r.slug = OfficialSources[k].slug
      BY <1>3, <1>9, <2>3 DEF O!Todo
    <3> QED  BY <1>8, <1>10, <1>12, <3>1
  <2> QED  BY <1>3, <2>1, <2>2, <2>3
<1>15. O!RunsRecorded'
  <2> SUFFICES ASSUME NEW i \in O!Own'
               PROVE  /\ v1'[i].status = "success" /\ v1'[i].slug # O!Incidents /\ ~O!Begun(i)'
                            => \E m \in DOMAIN v2 : v2[m].run = i
                      /\ v1'[i].status = "skipped" => \A m \in DOMAIN v2 : v2[m].run # i
    BY <1>1 DEF O!RunsRecorded
  <2>1. CASE i = n
    <3>1. O!Begun(i)'
      BY <1>4, <1>10, <2>1 DEF O!Begun
    <3>2. \A m \in DOMAIN v2 : v2[m].run # n
      BY <1>11 DEF O!Inv, O!TypeOK
    <3> QED  BY <2>1, <3>1, <3>2
  <2>2. CASE i # n
    <3>1. i \in O!Own /\ v1'[i] = v1[i] /\ ~O!Begun(i)
      BY <1>1, <1>10, <1>12, <2>2 DEF O!Begun
    <3> QED  BY <1>3, <3>1 DEF O!RunsRecorded
  <2> QED  BY <2>1, <2>2
<1>16. O!UnderWay'
  <2>1. v3'.run \in 0 .. Len(v3'.todo) /\ v3'.run > 0 /\ v3'.from < Len(v1')
        /\ v3'.from \in 0 .. Len(v1')
    BY <1>1, <1>3, <1>4, <1>5, <1>10, <1>11
  <2>2. v3'.rec \in 0 .. Len(O!InHand.records)'
        /\ v1'[Len(v1')] = [slug |-> O!InHand'.slug, kind |-> O!InHand'.kind,
                           status |-> O!InHand'.status]
    BY <1>4, <1>7, <1>8, <1>9, <1>10 DEF O!InHand
  <2> QED  BY <1>1, <1>3, <1>4, <1>13, <1>14, <1>15, <2>1, <2>2 DEF O!UnderWay
<1>17. O!TypeOK'
  BY <1>1, <1>4, <1>11 DEF O!TypeOK, O!Inv
<1>18. \A i \in DOMAIN v1' :
          \/ v1'[i].slug = O!Incidents
          \/ \E k \in DOMAIN OfficialSources : v1'[i].slug = OfficialSources[k].slug
  <2>1. r.slug \in {OfficialSources[v3.at].slug, O!Incidents}
    BY <1>7 DEF O!RunOf
  <2> QED  BY <1>3, <1>8, <1>10, <1>11, <2>1 DEF O!Inv
<1>19. O!IsSeq(v2')
  BY <1>1 DEF O!Inv
<1> QED  BY <1>1, <1>3, <1>4, <1>10, <1>16, <1>17, <1>18, <1>19, SyncStep

\* A record that is inserted no longer waits.
LEMMA SyncInsertsRecord ==
    ASSUME O!Inv, O!InsertRecord
    PROVE  O!Inv'
<1> DEFINE row == [run |-> Len(v1), rec |-> O!InHand.records[v3.rec + 1]]
           n == Len(v2) + 1
<1>1. /\ v3.pc = "records" /\ v3.rec < Len(O!InHand.records) /\ v2' = Append(v2, row)
      /\ v3' = [v3 EXCEPT !.rec = @ + 1] /\ v1' = v1 /\ v4' = v4
  BY DEF O!InsertRecord
<1>2. O!UnderWay
  BY <1>1 DEF O!Inv
<1>3. /\ v3.at > 0 /\ v3.from \in 0 .. Len(v1) /\ ~v4.over
      /\ v3.at \in DOMAIN OfficialSources /\ O!Todo(v3.todo, OfficialSources[v3.at])
      /\ v3.run \in 0 .. Len(v3.todo) /\ v3.run > 0 /\ v3.rec \in 0 .. Len(O!InHand.records)
      /\ v3.from < Len(v1)
      /\ v1[Len(v1)] = [slug |-> O!InHand.slug, kind |-> O!InHand.kind,
                        status |-> O!InHand.status]
      /\ O!CountsTrue /\ O!SourcesRun /\ O!RunsRecorded
  BY <1>1, <1>2 DEF O!UnderWay
<1>4. /\ v3'.pc = "records" /\ v3'.at = v3.at /\ v3'.from = v3.from /\ v3'.todo = v3.todo
      /\ v3'.run = v3.run /\ v3'.rec = v3.rec + 1 /\ v3'.count = v3.count
      /\ DOMAIN v3' = DOMAIN v3 /\ v3' = [k \in DOMAIN v3 |-> v3'[k]]
  BY <1>1, <1>3, SyncFields
<1>5. /\ Len(v1) \in Nat /\ DOMAIN v1 = 1 .. Len(v1)
      /\ Len(v2) \in Nat /\ DOMAIN v2 = 1 .. Len(v2)
      /\ Len(v3.todo) \in Nat /\ DOMAIN v3.todo = 1 .. Len(v3.todo)
      /\ IsFiniteSet(O!Inserted) /\ IsFiniteSet(O!Waiting)
      /\ \A i \in DOMAIN v3.todo : Len(v3.todo[i].records) \in Nat
  BY <1>1, <1>3, SyncSizes
<1>6. Len(O!InHand.records) \in Nat /\ O!RunOf(O!InHand, OfficialSources[v3.at])
  <2>1. v3.run \in DOMAIN v3.todo
    BY <1>3, <1>5
  <2> QED  BY <1>3, <1>5, <2>1 DEF O!InHand, O!Todo
<1>7. row.run = Len(v1)
  OBVIOUS
<1> HIDE DEF row
<1>8. /\ O!IsSeq(v2') /\ DOMAIN v2' = 1 .. n
      /\ \A m \in DOMAIN v2 : v2'[m] = v2[m]
      /\ v2'[n] = row
  BY <1>1, AppendIsSeq DEF O!Inv
<1>9. n \in Nat /\ n \notin DOMAIN v2 /\ DOMAIN v2' = DOMAIN v2 \cup {n}
  BY <1>5, <1>8
<1> HIDE DEF n
<1>10. /\ O!Own' = O!Own /\ O!Waiting' = O!Waiting /\ O!InHand' = O!InHand
       /\ O!Inserted' = O!Inserted \cup {n} /\ n \notin O!Inserted
       /\ O!Rest = Len(O!InHand.records) - v3.rec
       /\ O!Rest' = Len(O!InHand.records) - (v3.rec + 1)
  <2>1. O!Own' = O!Own /\ O!Waiting' = O!Waiting /\ O!InHand' = O!InHand
    BY <1>1, <1>4 DEF O!Own, O!Waiting, O!InHand
  <2>2. O!Inserted' = O!Inserted \cup {n} /\ n \notin O!Inserted
    BY <1>3, <1>4, <1>5, <1>7, <1>8, <1>9 DEF O!Inserted
  <2> QED  BY <1>1, <1>4, <2>1, <2>2 DEF O!Rest
<1>11. O!CountsTrue'
  <2>1. /\ v3'.count.runs = Cardinality(O!Own') + Cardinality(O!Waiting')
        /\ v3'.count.ok = Cardinality({i \in O!Own' : v1'[i].status = "success"})
              + Cardinality(O!Successes(v3'.todo) \cap O!Waiting')
    BY <1>1, <1>3, <1>4, <1>10, OfficialSizes DEF O!CountsTrue
  <2>2. v3'.count.records = Cardinality(O!Inserted')
             + SumFunctionOnSet(O!LengthOf(v3'.todo), O!Waiting') + O!Rest'
    <3> DEFINE sum == SumFunctionOnSet(O!LengthOf(v3.todo), O!Waiting)
    <3>1. v3.count.records = Cardinality(O!Inserted) + sum + O!Rest
      BY <1>3, OfficialSizes, OfficialSums DEF O!CountsTrue
    <3>2. sum \in Int
      <4>1. O!Waiting \subseteq DOMAIN v3.todo
        BY DEF O!Waiting
      <4>2. \A i \in O!Waiting : O!LengthOf(v3.todo)[i] \in Int
        BY <1>5, <4>1 DEF O!LengthOf
      <4> QED  BY <1>5, <4>2, SumRemoves
    <3>3. Cardinality(O!Inserted') = Cardinality(O!Inserted) + 1
          /\ Cardinality(O!Inserted) \in Nat
      <4>1. O!Inserted' = O!Inserted \cup {n} /\ n \notin O!Inserted /\ IsFiniteSet(O!Inserted)
        BY <1>5, <1>10
      <4>2. Cardinality(O!Inserted \cup {n}) = Cardinality(O!Inserted) + 1
        BY <4>1, FS_AddElement
      <4> QED  BY <4>1, <4>2, FS_CardinalityType
    <3> HIDE DEF sum
    <3>4. v3'.count.records = Cardinality(O!Inserted') + sum + O!Rest'
      <4> DEFINE len == Len(O!InHand.records)
                 had == Cardinality(O!Inserted)
                 r == v3.rec
      <4>1. r \in Nat /\ len \in Nat /\ had \in Nat
        BY <1>3, <1>6, <3>3
      <4>2. /\ O!Rest = len - r /\ O!Rest' = len - (r + 1)
            /\ Cardinality(O!Inserted') = had + 1
            /\ v3.count.records = had + sum + O!Rest
        BY <1>10, <3>1, <3>3
      <4> HIDE DEF len, had, r
      <4>3. had + sum + (len - r) = (had + 1) + sum + (len - (r + 1))
        BY <3>2, <4>1
      <4> QED  BY <1>4, <4>2, <4>3
    <3> QED  BY <1>4, <1>10, <3>4 DEF sum
  <2> QED  BY <2>1, <2>2, OfficialSizes, OfficialSums DEF O!CountsTrue
<1>12. O!SourcesRun'
  BY <1>1, <1>3, <1>4, <1>10 DEF O!SourcesRun
<1>13. O!RunsRecorded'
  <2> SUFFICES ASSUME NEW i \in O!Own
               PROVE  /\ v1[i].status = "success" /\ v1[i].slug # O!Incidents /\ ~O!Begun(i)'
                            => \E m \in DOMAIN v2' : v2'[m].run = i
                      /\ v1[i].status = "skipped" => \A m \in DOMAIN v2' : v2'[m].run # i
    BY <1>1, <1>10 DEF O!RunsRecorded
  <2>1. CASE i = Len(v1)
    <3>1. v1[i].status # "skipped"
      <4>1. v1[i].status = O!InHand.status
        BY <1>3, <2>1
      <4>2. Len(O!InHand.records) > 0
        BY <1>1, <1>3, <1>6
      <4> QED  BY <1>6, <4>1, <4>2 DEF O!RunOf, O!HasRecords
    <3>2. v2'[n].run = i /\ n \in DOMAIN v2'
      BY <1>7, <1>8, <1>9, <2>1
    <3> QED  BY <3>1, <3>2
  <2>2. CASE i # Len(v1)
    <3>1. ~O!Begun(i)
      BY <2>2 DEF O!Begun
    <3>2. /\ v1[i].status = "success" /\ v1[i].slug # O!Incidents
                => \E m \in DOMAIN v2 : v2[m].run = i
          /\ v1[i].status = "skipped" => \A m \in DOMAIN v2 : v2[m].run # i
      BY <1>3, <3>1 DEF O!RunsRecorded
    <3> QED  BY <1>7, <1>8, <1>9, <2>2, <3>2
  <2> QED  BY <2>1, <2>2
<1>14. O!UnderWay'
  <2>1. v3'.rec \in 0 .. Len(O!InHand.records)
    BY <1>1, <1>3, <1>4, <1>6
  <2> QED  BY <1>1, <1>3, <1>4, <1>10, <1>11, <1>12, <1>13, <2>1 DEF O!UnderWay
<1>15. O!TypeOK'
  <2>1. \A m \in DOMAIN v2' : v2'[m].run \in DOMAIN v1
    <3>1. Len(v1) \in DOMAIN v1
      BY <1>3, <1>5
    <3>2. \A m \in DOMAIN v2 : v2[m].run \in DOMAIN v1
      BY DEF O!TypeOK, O!Inv
    <3> QED  BY <1>7, <1>8, <1>9, <3>1, <3>2
  <2> QED  BY <1>1, <1>4, <2>1 DEF O!TypeOK, O!Inv
<1> QED  BY <1>1, <1>3, <1>4, <1>8, <1>14, <1>15, SyncStep DEF O!Inv

\* The runs of a source are done one by one, and so are the sources.
LEMMA SyncGoesOn ==
    ASSUME O!Inv, O!RunDone \/ O!NextSource
    PROVE  O!Inv'
<1>1. v1' = v1 /\ v2' = v2 /\ v4' = v4 /\ v3.pc \in {"run", "records"}
  BY DEF O!RunDone, O!NextSource
<1>2. O!UnderWay
  BY <1>1 DEF O!Inv
<1>3. /\ v3.at > 0 /\ v3.from \in 0 .. Len(v1) /\ ~v4.over
      /\ v3.at \in DOMAIN OfficialSources /\ O!Todo(v3.todo, OfficialSources[v3.at])
      /\ v3.run \in 0 .. Len(v3.todo)
      /\ O!CountsTrue /\ O!SourcesRun /\ O!RunsRecorded
  BY <1>1, <1>2 DEF O!UnderWay
<1>4. DOMAIN OfficialSources = 1 .. Len(OfficialSources) /\ Len(OfficialSources) \in Nat
  BY OfficialBounds, SeqRange
<1>5. /\ Len(v3.todo) \in Nat /\ DOMAIN v3.todo = 1 .. Len(v3.todo)
      /\ Len(v1) \in Nat
  BY <1>1, <1>3, SyncSizes
<1>6. CASE O!RunDone
  <2>1. /\ v3.pc = "records" /\ v3.rec = Len(O!InHand.records)
        /\ v3' = [v3 EXCEPT !.pc = "run", !.rec = 0]
    BY <1>6 DEF O!RunDone
  <2>2. /\ v3'.pc = "run" /\ v3'.at = v3.at /\ v3'.from = v3.from /\ v3'.todo = v3.todo
        /\ v3'.run = v3.run /\ v3'.rec = 0 /\ v3'.count = v3.count
        /\ DOMAIN v3' = DOMAIN v3 /\ v3' = [k \in DOMAIN v3 |-> v3'[k]]
    BY <2>1, SyncFields
  <2>3. /\ v3.run > 0 /\ v3.rec \in 0 .. Len(O!InHand.records) /\ v3.from < Len(v1)
        /\ v1[Len(v1)] = [slug |-> O!InHand.slug, kind |-> O!InHand.kind,
                          status |-> O!InHand.status]
    BY <1>2, <2>1 DEF O!UnderWay
  <2>4. O!RunOf(O!InHand, OfficialSources[v3.at]) /\ Len(O!InHand.records) \in Nat
    <3>1. v3.run \in DOMAIN v3.todo
      BY <1>3, <1>5, <2>3
    <3>2. O!RunOf(O!InHand, OfficialSources[v3.at])
      BY <1>3, <3>1 DEF O!InHand, O!Todo
    <3> QED  BY <3>2, SeqRange DEF O!RunOf
  <2>5. /\ O!Own' = O!Own /\ O!Inserted' = O!Inserted /\ O!Waiting' = O!Waiting
        /\ O!Rest = 0 /\ O!Rest' = 0
    BY <1>1, <2>1, <2>2, <2>4 DEF O!Own, O!Inserted, O!Waiting, O!Rest
  <2>6. O!CountsTrue'
    BY <1>1, <1>3, <2>2, <2>5 DEF O!CountsTrue
  <2>7. O!SourcesRun'
    BY <1>1, <1>3, <2>2, <2>5 DEF O!SourcesRun
  <2>8. O!RunsRecorded'
    <3> SUFFICES ASSUME NEW i \in O!Own
                 PROVE  /\ v1[i].status = "success" /\ v1[i].slug # O!Incidents
                              => \E m \in DOMAIN v2 : v2[m].run = i
                        /\ v1[i].status = "skipped" => \A m \in DOMAIN v2 : v2[m].run # i
      BY <1>1, <2>5 DEF O!RunsRecorded
    <3>1. O!Begun(i) => ~(v1[i].status = "success" /\ v1[i].slug # O!Incidents)
      <4> SUFFICES ASSUME O!Begun(i), v1[i].status = "success", v1[i].slug # O!Incidents
                   PROVE  FALSE
        OBVIOUS
      <4>1. v3.rec = 0 /\ O!InHand.status = "success" /\ O!InHand.slug # O!Incidents
        BY <2>3 DEF O!Begun
      <4>2. Len(O!InHand.records) > 0
        BY <2>4, <4>1 DEF O!RunOf, O!HasRecords
      <4> QED  BY <2>1, <4>1, <4>2
    <3> QED  BY <1>3, <3>1 DEF O!RunsRecorded
  <2>9. O!UnderWay'
    BY <1>1, <1>3, <2>2, <2>6, <2>7, <2>8 DEF O!UnderWay
  <2>10. O!TypeOK'
    BY <1>1, <2>2 DEF O!TypeOK, O!Inv
  <2> QED  BY <1>1, <1>3, <2>2, <2>9, <2>10, SyncStep DEF O!Inv
<1>7. CASE O!NextSource
  <2>1. /\ v3.pc = "run" /\ v3.run = Len(v3.todo)
        /\ v3' = [v3 EXCEPT !.pc = "fetch", !.at = @ + 1, !.todo = <<>>, !.run = 0]
    BY <1>7 DEF O!NextSource
  <2>2. v3.rec = 0 /\ Len(v3.todo) > 0
    BY <1>2, <1>3, <2>1 DEF O!UnderWay, O!Todo
  <2>3. /\ v3'.pc = "fetch" /\ v3'.at = v3.at + 1 /\ v3'.from = v3.from /\ v3'.todo = <<>>
        /\ v3'.run = 0 /\ v3'.rec = 0 /\ v3'.count = v3.count
        /\ DOMAIN v3' = DOMAIN v3 /\ v3' = [k \in DOMAIN v3 |-> v3'[k]]
    BY <2>1, <2>2, SyncFields
  <2>4. /\ O!Own' = O!Own /\ O!Inserted' = O!Inserted /\ O!Waiting = {} /\ O!Waiting' = {}
        /\ O!Rest = 0 /\ O!Rest' = 0
    <3>1. O!Own' = O!Own /\ O!Inserted' = O!Inserted /\ O!Rest = 0 /\ O!Rest' = 0
      BY <1>1, <2>1, <2>3 DEF O!Own, O!Inserted, O!Rest
    <3>2. O!Waiting = {}
      BY <1>5, <2>1 DEF O!Waiting
    <3>3. O!Waiting' = {}
      BY <2>3 DEF O!Waiting
    <3> QED  BY <3>1, <3>2, <3>3
  <2>5. O!CountsTrue'
    <3>1. \A X : X \cap O!Waiting = {} /\ X \cap O!Waiting' = {}
      BY <2>4
    <3>2. \A f : SumFunctionOnSet(f, {}) = 0
      BY SumEmpty
    <3>3. /\ v3.count.runs = Cardinality(O!Own) + Cardinality({})
          /\ v3.count.records = Cardinality(O!Inserted) + 0 + 0
          /\ v3.count.ok = Cardinality({i \in O!Own : v1[i].status = "success"})
                          + Cardinality({})
      BY <1>3, <2>4, <3>1, <3>2, OfficialSizes, OfficialSums DEF O!CountsTrue
    <3> QED  BY <1>1, <2>3, <2>4, <3>1, <3>2, <3>3, OfficialSizes, OfficialSums DEF O!CountsTrue
  <2>6. O!SourcesRun'
    <3> SUFFICES ASSUME NEW k \in DOMAIN OfficialSources, k <= v3.at
                 PROVE  \E i \in O!Own : v1[i].slug = OfficialSources[k].slug
      BY <1>1, <1>3, <1>4, <2>3, <2>4 DEF O!SourcesRun
    <3>1. k < v3.at \/ (k = v3.at /\ v3.run > 0)
      BY <1>3, <1>4, <2>1, <2>2
    <3> QED  BY <1>3, <3>1 DEF O!SourcesRun
  <2>7. O!RunsRecorded'
    <3>1. \A i : ~O!Begun(i) /\ ~O!Begun(i)'
      BY <2>1, <2>3 DEF O!Begun
    <3> QED  BY <1>1, <1>3, <2>4, <3>1 DEF O!RunsRecorded
  <2>8. O!UnderWay'
    <3>1. v3'.at > 0
      BY <1>3, <1>4, <2>3
    <3> QED  BY <1>1, <1>3, <2>3, <2>5, <2>6, <2>7, <3>1 DEF O!UnderWay
  <2>9. O!TypeOK'
    <3>1. v3'.at \in 0 .. Len(OfficialSources) + 1
      BY <1>3, <1>4, <2>3
    <3> QED  BY <1>1, <2>3, <3>1 DEF O!TypeOK, O!Inv
  <2> QED  BY <1>1, <1>3, <2>3, <2>8, <2>9, SyncStep DEF O!Inv
<1> QED  BY <1>6, <1>7

\* At its end a sync has counted what it inserted, and every source has a run.
LEMMA SyncEnds ==
    ASSUME O!Inv, O!Finish
    PROVE  O!Inv'
<1>1. /\ v3.pc = "fetch" /\ v3.at > Len(OfficialSources) /\ v1' = v1 /\ v2' = v2
      /\ v3' = O!Idle /\ v4' = [over |-> TRUE, from |-> v3.from, count |-> v3.count]
  BY DEF O!Finish
<1>2. O!UnderWay
  BY <1>1 DEF O!Inv
<1>3. /\ v3.from \in 0 .. Len(v1) /\ v3.todo = <<>> /\ v3.run = 0 /\ v3.rec = 0
      /\ O!CountsTrue /\ O!SourcesRun /\ O!RunsRecorded
  BY <1>1, <1>2 DEF O!UnderWay
<1>4. /\ Len(v1) \in Nat /\ DOMAIN v1 = 1 .. Len(v1) /\ IsFiniteSet(O!Own)
      /\ Len(v2) \in Nat /\ DOMAIN v2 = 1 .. Len(v2) /\ IsFiniteSet(O!Inserted)
  <2>1. Len(v1) \in Nat
    BY SyncSizes
  <2>2. v3.from \in Nat
    BY <1>3, <2>1
  <2> QED  BY <2>2, SyncSizes
<1>5. v4'.over = TRUE /\ v4'.from = v3.from /\ v4'.count = v3.count
  BY <1>1
<1>6. /\ v3.count.runs = Cardinality(O!Own)
      /\ v3.count.records = Cardinality(O!Inserted)
      /\ v3.count.ok = Cardinality({i \in O!Own : v1[i].status = "success"})
  <2>1. O!Waiting = {} /\ O!Rest = 0
    BY <1>1, <1>3 DEF O!Waiting, O!Rest
  <2>2. \A f : SumFunctionOnSet(f, {}) = 0
    BY SumEmpty
  <2>3. Cardinality({}) = 0 /\ \A X : X \cap {} = {}
    BY FS_EmptySet
  <2>4. Cardinality(O!Own) \in Nat /\ Cardinality(O!Inserted) \in Nat
        /\ Cardinality({i \in O!Own : v1[i].status = "success"}) \in Nat
    BY <1>4, FS_CardinalityType, FS_Subset
  <2> QED  BY <1>3, <2>1, <2>2, <2>3, <2>4, OfficialSizes, OfficialSums DEF O!CountsTrue
<1>7. O!SummaryTrue'
  <2>1. O!Inserted = {i \in DOMAIN v2 : v2[i].run \in O!Own}
    BY <1>3, <1>4 DEF O!Inserted, O!Own, O!Inv, O!TypeOK
  <2>2. v4'.from + 1 .. Len(v1') = O!Own
    BY <1>1, <1>5 DEF O!Own
  <2> QED  BY <1>1, <1>5, <1>6, <2>1, <2>2, OfficialSizes DEF O!SummaryTrue
<1>8. O!ReportOfThisSync'
  <2> SUFFICES ASSUME NEW s \in O!OfficialSync', s.slug # O!Incidents
               PROVE  /\ s.run > v4'.from
                      /\ s.status = "success" => s.records > 0
                      /\ s.status = "skipped" => s.records = 0
    BY DEF O!ReportOfThisSync
  <2>1. PICK i \in O!LatestRuns' :
           s = [slug |-> v1'[i].slug, status |-> v1'[i].status, run |-> i,
                records |-> O!Cardinality(O!RecordsOf(i)')]
    BY DEF O!OfficialSync
  <2>2. /\ s.slug = v1[i].slug /\ s.status = v1[i].status /\ s.run = i
        /\ s.records = Cardinality({m \in DOMAIN v2 : v2[m].run = i})
    <3>1. O!RecordsOf(i)' = {m \in DOMAIN v2 : v2[m].run = i}
      BY <1>1 DEF O!RecordsOf
    <3> QED  BY <1>1, <2>1, <3>1, OfficialSizes
  <2>3. i \in DOMAIN v1 /\ \A j \in DOMAIN v1 : v1[j].slug = v1[i].slug => j <= i
    BY <1>1 DEF O!LatestRuns
  <2>4. PICK k \in DOMAIN OfficialSources : v1[i].slug = OfficialSources[k].slug
    BY <2>2, <2>3 DEF O!Inv
  <2>5. PICK j \in O!Own : v1[j].slug = OfficialSources[k].slug
    <3>1. k < v3.at
      <4>1. DOMAIN OfficialSources = 1 .. Len(OfficialSources) /\ Len(OfficialSources) \in Nat
        BY OfficialBounds, SeqRange
      <4> QED  BY <1>1, <4>1 DEF O!Inv, O!TypeOK
    <3> QED  BY <1>3, <3>1 DEF O!SourcesRun
  <2>6. j \in DOMAIN v1 /\ j <= i /\ i \in O!Own
    BY <1>3, <1>4, <2>3, <2>4, <2>5 DEF O!Own
  <2>7. /\ v1[i].status = "success" => \E m \in DOMAIN v2 : v2[m].run = i
        /\ v1[i].status = "skipped" => \A m \in DOMAIN v2 : v2[m].run # i
    <3>1. ~O!Begun(i)
      BY <1>1 DEF O!Begun
    <3> QED  BY <1>3, <2>2, <2>6, <3>1 DEF O!RunsRecorded
  <2> DEFINE own == {m \in DOMAIN v2 : v2[m].run = i}
  <2>8. IsFiniteSet(own) /\ Cardinality(own) \in Nat /\ (own # {} => Cardinality(own) > 0)
        /\ (own = {} => Cardinality(own) = 0)
    <3>1. own \in SUBSET DOMAIN v2 /\ O!IsSeq(v2)
      BY DEF O!Inv
    <3> HIDE DEF own
    <3> QED  BY <3>1, SeqPlaces, FS_EmptySet
  <2>9. /\ v1[i].status = "success" => own # {}
        /\ v1[i].status = "skipped" => own = {}
    BY <2>7
  <2>10. i > v4'.from
    BY <1>3, <1>4, <1>5, <2>6 DEF O!Own
  <2> QED  BY <2>2, <2>8, <2>9, <2>10
<1>9. O!TypeOK'
  <2>1. Len(OfficialSources) \in Nat
    BY OfficialBounds, SeqRange
  <2> QED  BY <1>1, <1>5, <2>1, IdleFields DEF O!TypeOK, O!Inv
<1>10. /\ v3'.pc = "idle"
       /\ v3' = [k \in {"pc", "at", "from", "todo", "run", "rec", "count"} |-> v3'[k]]
  BY <1>1, IdleFields
<1>11. O!IsSeq(v1)' /\ O!IsSeq(v2)'
  BY <1>1 DEF O!Inv, O!IsSeq
<1>12. \A i \in DOMAIN v1' :
          \/ v1'[i].slug = O!Incidents
          \/ \E k \in DOMAIN OfficialSources : v1'[i].slug = OfficialSources[k].slug
  BY <1>1 DEF O!Inv
<1> QED  BY <1>7, <1>8, <1>9, <1>10, <1>11, <1>12 DEF O!Inv, O!SyncReported

LEMMA OfficialStep == O!Inv /\ [O!Next]_(O!vars) => O!Inv'
<1> SUFFICES ASSUME O!Inv, [O!Next]_(O!vars) PROVE O!Inv'
  OBVIOUS
<1>1. CASE O!Start
  BY <1>1, SyncStarts
<1>2. CASE O!Fetch
  BY <1>2, SyncFetches
<1>3. CASE O!InsertRun
  BY <1>3, SyncInsertsRun
<1>4. CASE O!InsertRecord
  BY <1>4, SyncInsertsRecord
<1>5. CASE O!RunDone \/ O!NextSource
  BY <1>5, SyncGoesOn
<1>6. CASE O!Finish
  BY <1>6, SyncEnds
<1>7. CASE O!Crash
  BY <1>7, BackToIdle DEF O!Crash
<1>8. CASE UNCHANGED O!vars
  <2>1. v1' = v1 /\ v2' = v2 /\ v3' = v3 /\ v4' = v4
    BY <1>8 DEF O!vars
  <2>2. /\ O!Own' = O!Own /\ O!Inserted' = O!Inserted /\ O!Waiting' = O!Waiting
        /\ O!InHand' = O!InHand /\ O!Rest' = O!Rest
        /\ O!OfficialSync' = O!OfficialSync
    BY <2>1 DEF O!Own, O!Inserted, O!Waiting, O!InHand, O!Rest, O!OfficialSync, O!LatestRuns,
                O!RecordsOf
  <2>3. O!CountsTrue' <=> O!CountsTrue
    BY <2>1, <2>2 DEF O!CountsTrue
  <2>4. O!SourcesRun' <=> O!SourcesRun
    BY <2>1, <2>2 DEF O!SourcesRun
  <2>5. O!RunsRecorded' <=> O!RunsRecorded
    BY <2>1, <2>2 DEF O!RunsRecorded, O!Begun
  <2>6. O!UnderWay' <=> O!UnderWay
    BY <2>1, <2>2, <2>3, <2>4, <2>5 DEF O!UnderWay
  <2>7. O!TypeOK' <=> O!TypeOK
    BY <2>1 DEF O!TypeOK
  <2>8. O!SyncReported' <=> O!SyncReported
    BY <2>1, <2>2 DEF O!SyncReported, O!SummaryTrue, O!ReportOfThisSync
  <2>9. O!IsSeq(v1)' <=> O!IsSeq(v1)
    BY <2>1 DEF O!IsSeq
  <2>10. O!IsSeq(v2)' <=> O!IsSeq(v2)
    BY <2>1 DEF O!IsSeq
  <2> QED  BY <2>1, <2>6, <2>7, <2>8, <2>9, <2>10 DEF O!Inv
<1> QED  BY <1>1, <1>2, <1>3, <1>4, <1>5, <1>6, <1>7, <1>8 DEF O!Next

-----------------------------------------------------------------------------
(* The other providers: the logs *)

\* What holds at 0 and goes from each number to the next holds at n.
LEMMA UpTo ==
    ASSUME NEW n \in Nat, NEW Good, 0 \in Good,
           \A k \in 1..n : k - 1 \in Good => k \in Good
    PROVE  n \in Good
<1> DEFINE Bad == {k \in 0..n : k \notin Good}
<1> SUFFICES ASSUME Bad # {} PROVE FALSE
  OBVIOUS
<1>1. PICK m \in Bad : \A k \in Bad : m <= k
  <2>1. Bad \subseteq Nat
    OBVIOUS
  <2> HIDE DEF Bad
  <2> QED  BY <2>1, LeastNumber
<1>2. m \in 1..n /\ m - 1 \in 0..n
  BY <1>1
<1>3. m - 1 \in Good
  BY <1>1, <1>2
<1> QED  BY <1>1, <1>2, <1>3

\* What a program writes.
LEMMA AlphabetIs ==
    ASSUME NEW k \in {"codex", "pi", "amp", "opencode", "cursor", "copilot"},
           k \in LogKinds, NEW r \in LogLines[k]
    PROVE  /\ r.id \in Nat /\ r.to \in Nat /\ r.tokens \in Nat
           /\ k = "codex" => r.what \in CodexWhats
BY Instances DEF S!SourcesAssumption, CodexWhats

LEMMA OwnIs ==
    ASSUME NEW k \in {"codex", "pi", "amp", "opencode", "cursor", "copilot"},
           k \in LogKinds, NEW r \in LogLines[k], NEW f \in LogFiles
    PROVE  LET e == S!Own(k, r, f)
           IN  /\ e.id \in Ids /\ e.to \in Ids /\ e.tokens \in Nat
               /\ k # "opencode" => e.id = S!NoId \/ e.id[1] = f
               /\ k = "codex" => e.what \in CodexWhats
               /\ k = "opencode" => e.id[1] = 0
<1>1. f \in Nat
  BY Instances DEF S!SourcesAssumption
<1>2. /\ r.id \in Nat /\ r.to \in Nat /\ r.tokens \in Nat
      /\ k = "codex" => r.what \in CodexWhats
  BY AlphabetIs
<1>3. \A n \in Nat : S!IdIn(f, n) = IF n = 0 THEN <<0, 0>> ELSE <<f, n>>
  BY DEF S!IdIn, S!NoId
<1>4. \A n \in Nat : S!IdIn(f, n) \in Ids
  BY <1>1, <1>3 DEF Ids
<1>5. <<0, r.id>> \in Ids
  BY <1>2 DEF Ids
<1> QED  BY <1>1, <1>2, <1>3, <1>4, <1>5 DEF S!Own, S!Rec, S!NoId

\* What a log holds that Written speaks of.
LEMMA WrittenIs ==
    ASSUME S!Written, v1 \in LogKinds, NEW f \in LogFiles, NEW i \in DOMAIN v2[f]
    PROVE  /\ i \in 1..Len(v2[f])
           /\ v2[f][i].id \in Ids /\ v2[f][i].to \in Ids /\ v2[f][i].tokens \in Nat
           /\ v1 = "codex" => v2[f][i].what \in CodexWhats
           /\ v1 \notin {"codex", "opencode"} => v2[f][i].id = S!NoId \/ v2[f][i].id[1] = f
           /\ v1 = "opencode" => v2[f][i].id[1] = 0
<1>1. v2[f] \in Seq(S!Entries(v1, f))
  BY DEF S!Written
<1>2. i \in 1..Len(v2[f]) /\ v2[f][i] \in S!Entries(v1, f)
  BY <1>1
<1>4. PICK r \in LogLines[v1], g \in LogFiles :
        /\ v2[f][i] = S!Own(v1, r, g)
        /\ v1 # "codex" => g = f
  BY <1>2 DEF S!Entries
<1>5. v1 \in {"codex", "pi", "amp", "opencode", "cursor", "copilot"}
  BY Instances DEF S!SourcesAssumption
<1> QED  BY <1>2, <1>4, <1>5, OwnIs

-----------------------------------------------------------------------------
(* The other providers: what a loop over the lines has read *)

LEMMA NothingIs == DOMAIN S!Nothing = {}
BY DEF S!Nothing

LEMMA PiReadsOne ==
    ASSUME NEW f, NEW lines, NEW k \in Nat, k # 0, NEW seen, PiRead(lines, k - 1, seen)
    PROVE  PiRead(lines, k, S!PiLine(f, seen, lines[k]))
<1>1. k \in 1..k /\ \A i \in 1..k : i \in 1..(k - 1) \/ i = k
  OBVIOUS
<1>2. CASE lines[k].id = S!NoId \/ lines[k].tokens = 0
  <2>1. PiUsed(lines, k) = PiUsed(lines, k - 1)
    BY <1>1, <1>2 DEF PiUsed
  <2>2. S!PiLine(f, seen, lines[k]) = seen
    BY <1>2 DEF S!PiLine
  <2> QED  BY <2>1, <2>2 DEF PiRead
<1>3. CASE ~(lines[k].id = S!NoId \/ lines[k].tokens = 0)
  <2> DEFINE row == S!Row(lines[k].id, S!StemOf(f), lines[k].tokens, 0)
             out == S!Put(seen, lines[k].id, row)
  <2>1. PiUsed(lines, k) = PiUsed(lines, k - 1) \cup {k}
    BY <1>1, <1>3 DEF PiUsed
  <2>2. S!PiLine(f, seen, lines[k]) = out
    BY <1>3 DEF S!PiLine
  <2>3. row.id = lines[k].id /\ row.tokens = lines[k].tokens
    BY DEF S!Row
  <2> HIDE DEF row
  <2>4. /\ DOMAIN out = DOMAIN seen \cup {lines[k].id}
        /\ \A d \in DOMAIN out : out[d] = IF d = lines[k].id THEN row ELSE seen[d]
    <3>1. DOMAIN out = DOMAIN seen \cup {lines[k].id}
      BY DEF S!Put
    <3>2. \A d \in DOMAIN seen \cup {lines[k].id} : out[d] = IF d = lines[k].id THEN row ELSE seen[d]
      BY DEF S!Put
    <3> HIDE DEF out
    <3> QED  BY <3>1, <3>2
  <2> HIDE DEF out
  <2>5. DOMAIN out = {lines[i].id : i \in PiUsed(lines, k)}
    BY <2>1, <2>4 DEF PiRead
  <2>6. ASSUME NEW d \in DOMAIN out
        PROVE  /\ out[d].id = d
               /\ \E i \in PiUsed(lines, k) :
                   /\ lines[i].id = d /\ lines[i].tokens = out[d].tokens
                   /\ \A j \in PiUsed(lines, k) : lines[j].id = d => j <= i
    <3>0. \A j \in PiUsed(lines, k) : j \in 1..k
      BY DEF PiUsed
    <3>1. CASE d = lines[k].id
      BY <2>1, <2>3, <2>4, <3>0, <3>1
    <3>2. CASE d # lines[k].id
      <4>1. d \in DOMAIN seen /\ out[d] = seen[d]
        BY <2>4, <3>2
      <4>2. PICK i \in PiUsed(lines, k - 1) :
              /\ lines[i].id = d /\ lines[i].tokens = seen[d].tokens
              /\ \A j \in PiUsed(lines, k - 1) : lines[j].id = d => j <= i
        BY <4>1 DEF PiRead
      <4>3. seen[d].id = d
        BY <4>1 DEF PiRead
      <4> QED  BY <2>1, <3>2, <4>1, <4>2, <4>3
    <3> QED  BY <3>1, <3>2
  <2> QED  BY <2>2, <2>5, <2>6 DEF PiRead
<1> QED  BY <1>2, <1>3

LEMMA PiReads ==
    ASSUME NEW f, NEW X, NEW lines \in Seq(X)
    PROVE  PiRead(lines, Len(lines), S!ParsePi(f, lines))
<1> DEFINE n == Len(lines)
           Follows(g, m) == g = [k \in 0..m |-> IF k = 0 THEN S!Nothing
                                                ELSE S!PiLine(f, g[k - 1], lines[k])]
           Some == {m \in 0..n : \E g : Follows(g, m)}
           seen == CHOOSE g : Follows(g, n)
           Good == {k \in 0..n : PiRead(lines, k, seen[k])}
<1>0. n \in Nat
  BY LenProperties
<1> HIDE DEF n
<1>1. n \in Some
  <2>1. 0 \in Some
    <3> DEFINE h == [k \in 0..0 |-> S!Nothing]
    <3>1. ASSUME NEW k \in 0..0
          PROVE  S!Nothing = IF k = 0 THEN S!Nothing ELSE S!PiLine(f, h[k - 1], lines[k])
      OBVIOUS
    <3>2. Follows(h, 0)
      BY <3>1
    <3> HIDE DEF h, Follows
    <3> QED  BY <1>0, <3>2
  <2>2. ASSUME NEW m \in 1..n, m - 1 \in Some PROVE m \in Some
    <3>1. PICK g : Follows(g, m - 1)
      BY <2>2
    <3> DEFINE h == [k \in 0..m |-> IF k = m THEN S!PiLine(f, g[m - 1], lines[m]) ELSE g[k]]
    <3>2. ASSUME NEW k \in 0..m
          PROVE  h[k] = IF k = 0 THEN S!Nothing ELSE S!PiLine(f, h[k - 1], lines[k])
      BY <3>1
    <3>3. Follows(h, m)
      BY <3>2
    <3> HIDE DEF h, Follows
    <3> QED  BY <1>0, <3>3
  <2> HIDE DEF Some
  <2> QED  BY <1>0, <2>1, <2>2, UpTo
<1>2. Follows(seen, n)
  BY <1>1
<1>3. S!ParsePi(f, lines) = seen[n]
  BY DEF S!ParsePi, n
<1> HIDE DEF seen
<1>4. seen[0] = S!Nothing /\ \A k \in 1..n : seen[k] = S!PiLine(f, seen[k - 1], lines[k])
  BY <1>0, <1>2
<1>5. n \in Good
  <2>1. 0 \in Good
    BY <1>0, <1>4, NothingIs DEF PiRead, PiUsed
  <2>2. ASSUME NEW k \in 1..n, k - 1 \in Good PROVE k \in Good
    <3>1. k \in 0..n /\ k \in Nat /\ k # 0 /\ seen[k] = S!PiLine(f, seen[k - 1], lines[k])
      BY <1>0, <1>4
    <3>2. PiRead(lines, k - 1, seen[k - 1])
      BY <2>2
    <3> QED  BY <3>1, <3>2, PiReadsOne
  <2> HIDE DEF Good
  <2> QED  BY <1>0, <2>1, <2>2, UpTo
<1> QED  BY <1>3, <1>5 DEF n

LEMMA AmpReadsOne ==
    ASSUME NEW f, NEW lines, NEW k \in Nat, k # 0, NEW seen, NEW c,
           AmpRead(lines, k - 1, seen)
    PROVE  AmpRead(lines, k, S!AmpEvent(f, seen, lines[k], c))
<1> DEFINE new == S!AmpEvent(f, seen, lines[k], c)
<1>1. k \in 1..k /\ \A i \in 1..k : i \in 1..(k - 1) \/ i = k
  OBVIOUS
<1>2. \A i \in AmpEvents(lines, k - 1) : i \in Nat /\ i < k
  BY DEF AmpEvents
<1>3. CASE lines[k].what # "event" \/ lines[k].id = S!NoId
  <2>1. AmpEvents(lines, k) = AmpEvents(lines, k - 1)
    BY <1>1, <1>3 DEF AmpEvents
  <2>2. new = seen
    BY <1>3 DEF S!AmpEvent
  <2> QED  BY <2>1, <2>2 DEF AmpRead
<1>4. CASE ~(lines[k].what # "event" \/ lines[k].id = S!NoId) /\ lines[k].id \in DOMAIN seen
  <2>1. AmpEvents(lines, k) = AmpEvents(lines, k - 1) \cup {k}
    BY <1>1, <1>4 DEF AmpEvents
  <2>2. new = seen
    BY <1>4 DEF S!AmpEvent
  <2>3. DOMAIN seen = {lines[i].id : i \in AmpEvents(lines, k)}
    BY <1>4, <2>1 DEF AmpRead
  <2>4. ASSUME NEW d \in DOMAIN seen
        PROVE  /\ seen[d].id = d
               /\ \E i \in AmpEvents(lines, k) :
                   /\ lines[i].id = d /\ lines[i].tokens = seen[d].tokens
                   /\ \A j \in AmpEvents(lines, k) : lines[j].id = d => i <= j
    <3>1. PICK i \in AmpEvents(lines, k - 1) :
            /\ lines[i].id = d /\ lines[i].tokens = seen[d].tokens
            /\ \A j \in AmpEvents(lines, k - 1) : lines[j].id = d => i <= j
      BY DEF AmpRead
    <3>2. seen[d].id = d
      BY DEF AmpRead
    <3> QED  BY <1>2, <2>1, <3>1, <3>2
  <2> QED  BY <2>2, <2>3, <2>4 DEF AmpRead
<1>5. CASE ~(lines[k].what # "event" \/ lines[k].id = S!NoId) /\ lines[k].id \notin DOMAIN seen
  <2> DEFINE row == S!Row(lines[k].id, S!StemOf(f), lines[k].tokens, c)
             out == S!Put(seen, lines[k].id, row)
  <2>1. AmpEvents(lines, k) = AmpEvents(lines, k - 1) \cup {k}
    BY <1>1, <1>5 DEF AmpEvents
  <2>2. new = out
    BY <1>5 DEF S!AmpEvent
  <2>3. row.id = lines[k].id /\ row.tokens = lines[k].tokens
    BY DEF S!Row
  <2> HIDE DEF row
  <2>4. /\ DOMAIN out = DOMAIN seen \cup {lines[k].id}
        /\ \A d \in DOMAIN out : out[d] = IF d = lines[k].id THEN row ELSE seen[d]
    <3>1. DOMAIN out = DOMAIN seen \cup {lines[k].id}
      BY DEF S!Put
    <3>2. \A d \in DOMAIN seen \cup {lines[k].id} : out[d] = IF d = lines[k].id THEN row ELSE seen[d]
      BY DEF S!Put
    <3> HIDE DEF out
    <3> QED  BY <3>1, <3>2
  <2> HIDE DEF out
  <2>5. DOMAIN out = {lines[i].id : i \in AmpEvents(lines, k)}
    BY <2>1, <2>4 DEF AmpRead
  <2>6. ASSUME NEW d \in DOMAIN out
        PROVE  /\ out[d].id = d
               /\ \E i \in AmpEvents(lines, k) :
                   /\ lines[i].id = d /\ lines[i].tokens = out[d].tokens
                   /\ \A j \in AmpEvents(lines, k) : lines[j].id = d => i <= j
    <3>1. CASE d = lines[k].id
      <4>1. \A j \in AmpEvents(lines, k) : lines[j].id = d => j = k
        BY <1>5, <2>1, <3>1 DEF AmpRead
      <4> QED  BY <2>1, <2>3, <2>4, <3>1, <4>1
    <3>2. CASE d # lines[k].id
      <4>1. d \in DOMAIN seen /\ out[d] = seen[d]
        BY <2>4, <3>2
      <4>2. PICK i \in AmpEvents(lines, k - 1) :
              /\ lines[i].id = d /\ lines[i].tokens = seen[d].tokens
              /\ \A j \in AmpEvents(lines, k - 1) : lines[j].id = d => i <= j
        BY <4>1 DEF AmpRead
      <4>3. seen[d].id = d
        BY <4>1 DEF AmpRead
      <4> QED  BY <2>1, <3>2, <4>1, <4>2, <4>3
    <3> QED  BY <3>1, <3>2
  <2> QED  BY <2>2, <2>5, <2>6 DEF AmpRead
<1> QED  BY <1>3, <1>4, <1>5

LEMMA AmpReads ==
    ASSUME NEW f, NEW X, NEW lines \in Seq(X)
    PROVE  AmpRead(lines, Len(lines), S!ParseAmp(f, lines))
<1> DEFINE n == Len(lines)
           Follows(g, m) == g = [k \in 0..m |-> IF k = 0 THEN S!Nothing
                                                ELSE S!AmpEvent(f, g[k - 1], lines[k], S!Cached(lines, lines[k].to))]
           Some == {m \in 0..n : \E g : Follows(g, m)}
           seen == CHOOSE g : Follows(g, n)
           Good == {k \in 0..n : AmpRead(lines, k, seen[k])}
<1>0. n \in Nat
  BY LenProperties
<1> HIDE DEF n
<1>1. n \in Some
  <2>1. 0 \in Some
    <3> DEFINE h == [k \in 0..0 |-> S!Nothing]
    <3>1. ASSUME NEW k \in 0..0
          PROVE  S!Nothing = IF k = 0 THEN S!Nothing ELSE S!AmpEvent(f, h[k - 1], lines[k], S!Cached(lines, lines[k].to))
      OBVIOUS
    <3>2. Follows(h, 0)
      BY <3>1
    <3> HIDE DEF h, Follows
    <3> QED  BY <1>0, <3>2
  <2>2. ASSUME NEW m \in 1..n, m - 1 \in Some PROVE m \in Some
    <3>1. PICK g : Follows(g, m - 1)
      BY <2>2
    <3> DEFINE h == [k \in 0..m |-> IF k = m THEN S!AmpEvent(f, g[m - 1], lines[m], S!Cached(lines, lines[m].to)) ELSE g[k]]
    <3>2. ASSUME NEW k \in 0..m
          PROVE  h[k] = IF k = 0 THEN S!Nothing ELSE S!AmpEvent(f, h[k - 1], lines[k], S!Cached(lines, lines[k].to))
      BY <3>1
    <3>3. Follows(h, m)
      BY <3>2
    <3> HIDE DEF h, Follows
    <3> QED  BY <1>0, <3>3
  <2> HIDE DEF Some
  <2> QED  BY <1>0, <2>1, <2>2, UpTo
<1>2. Follows(seen, n)
  BY <1>1
<1>3. S!ParseAmp(f, lines) = seen[n]
  BY DEF S!ParseAmp, n
<1> HIDE DEF seen
<1>4. seen[0] = S!Nothing /\ \A k \in 1..n : seen[k] = S!AmpEvent(f, seen[k - 1], lines[k], S!Cached(lines, lines[k].to))
  BY <1>0, <1>2
<1>5. n \in Good
  <2>1. 0 \in Good
    BY <1>0, <1>4, NothingIs DEF AmpRead, AmpEvents
  <2>2. ASSUME NEW k \in 1..n, k - 1 \in Good PROVE k \in Good
    <3>1. k \in 0..n /\ k \in Nat /\ k # 0 /\ seen[k] = S!AmpEvent(f, seen[k - 1], lines[k], S!Cached(lines, lines[k].to))
      BY <1>0, <1>4
    <3>2. AmpRead(lines, k - 1, seen[k - 1])
      BY <2>2
    <3> QED  BY <3>1, <3>2, AmpReadsOne
  <2> HIDE DEF Good
  <2> QED  BY <1>0, <2>1, <2>2, UpTo
<1> QED  BY <1>3, <1>5 DEF n

LEMMA TurnAtIs ==
    ASSUME NEW lines, NEW k
    PROVE  S!TurnAt(lines, k) = IF Current(lines, k) # S!NoId THEN Current(lines, k)
                                ELSE S!LinePlace(k)
BY DEF S!TurnAt, Current, Opened

LEMMA CurrentStep ==
    ASSUME NEW lines, NEW k \in Nat, k # 0
    PROVE  Current(lines, k) = IF S!Opens(lines, k) THEN lines[k].id
                               ELSE Current(lines, k - 1)
<1>1. \A j : j \in 1..k <=> j \in 1..(k - 1) \/ j = k
  OBVIOUS
<1>2. CASE S!Opens(lines, k)
  <2>1. k \in Opened(lines, k) /\ \A j \in Opened(lines, k) : k >= j /\ j \in Nat
    BY <1>1, <1>2 DEF Opened
  <2>2. S!Max(Opened(lines, k)) = k
    BY <2>1 DEF S!Max
  <2> QED  BY <1>2, <2>1, <2>2 DEF Current
<1>3. CASE ~S!Opens(lines, k)
  <2>1. Opened(lines, k) = Opened(lines, k - 1)
    BY <1>1, <1>3 DEF Opened
  <2> QED  BY <1>3, <2>1 DEF Current
<1> QED  BY <1>2, <1>3

LEMMA CountsReadOne ==
    ASSUME NEW lines, NEW k \in Nat, k # 0, NEW seen, CountsRead(lines, k - 1, seen), NEW row,
           lines[k].what = "count",
           row.id = S!TurnAt(lines, k), row.tokens = lines[k].tokens
    PROVE  CountsRead(lines, k, S!Put(seen, S!TurnAt(lines, k), row))
<1> DEFINE turn == S!TurnAt(lines, k)
           out == S!Put(seen, turn, row)
<1>0. k \in 1..k /\ \A i \in 1..k : i \in 1..(k - 1) \/ i = k
  OBVIOUS
<1>1. CountsTill(lines, k) = CountsTill(lines, k - 1) \cup {k}
  BY <1>0 DEF CountsTill
<1>2. \A j \in CountsTill(lines, k) : j \in Nat /\ j <= k
  BY DEF CountsTill
<1>3. DOMAIN out = DOMAIN seen \cup {turn}
  BY DEF S!Put
<1>4. \A d \in DOMAIN seen \cup {turn} : out[d] = IF d = turn THEN row ELSE seen[d]
  BY DEF S!Put
<1>a. row.id = turn
  OBVIOUS
<1>b. DOMAIN seen = {S!TurnAt(lines, i) : i \in CountsTill(lines, k - 1)}
  BY DEF CountsRead
<1>c. turn = S!TurnAt(lines, k)
  OBVIOUS
<1> HIDE DEF out, turn
<1>5. DOMAIN out = {S!TurnAt(lines, i) : i \in CountsTill(lines, k)}
  BY <1>1, <1>3, <1>b, <1>c
<1>6. ASSUME NEW d \in DOMAIN out
      PROVE  /\ out[d].id = d
             /\ \E i \in CountsTill(lines, k) :
                 /\ S!TurnAt(lines, i) = d /\ lines[i].tokens = out[d].tokens
                 /\ \A j \in CountsTill(lines, k) : S!TurnAt(lines, j) = d => j <= i
  <2>1. CASE d = turn
    BY <1>1, <1>2, <1>3, <1>4, <1>a, <1>c, <2>1
  <2>2. CASE d # turn
    <3>1. d \in DOMAIN seen /\ out[d] = seen[d]
      BY <1>3, <1>4, <2>2
    <3>2. PICK i \in CountsTill(lines, k - 1) :
            /\ S!TurnAt(lines, i) = d /\ lines[i].tokens = seen[d].tokens
            /\ \A j \in CountsTill(lines, k - 1) : S!TurnAt(lines, j) = d => j <= i
      BY <3>1 DEF CountsRead
    <3>3. seen[d].id = d
      BY <3>1 DEF CountsRead
    <3> QED  BY <1>1, <1>c, <2>2, <3>1, <3>2, <3>3
  <2> QED  BY <2>1, <2>2
<1> QED  BY <1>5, <1>6 DEF CountsRead, out, turn

LEMMA CodexReadsOne ==
    ASSUME NEW lines, NEW k \in Nat, k # 0, NEW s, CodexRead(lines, k - 1, s),
           lines[k].what \in CodexWhats
    PROVE  CodexRead(lines, k, S!CodexLine(s, lines[k]))
<1> DEFINE r == lines[k]
<1>1. PICK session, model, contexts, tools, failed, turns :
        s = Codex(k - 1, session, Current(lines, k - 1), model, contexts, tools, failed, turns)
  BY DEF CodexRead
<1>2. CountsRead(lines, k - 1, turns)
  BY <1>1 DEF CodexRead, Codex
<1> DEFINE current == Current(lines, k - 1)
           t == Codex(k, session, current, model, contexts, tools, failed, turns)
<1>3. [s EXCEPT !.n = @ + 1] = t
  BY <1>1 DEF Codex
<1>4. Current(lines, k) = IF S!Opens(lines, k) THEN r.id ELSE current
  BY CurrentStep
<1>5. ASSUME r.what # "count" PROVE CountsRead(lines, k, turns)
  <2>1. k \in 1..k /\ \A i : i \in 1..k <=> i \in 1..(k - 1) \/ i = k
    OBVIOUS
  <2>2. CountsTill(lines, k) = CountsTill(lines, k - 1)
    BY <1>5, <2>1 DEF CountsTill
  <2> QED  BY <1>2, <2>2 DEF CountsRead
<1>6. ASSUME NEW u, NEW x1, NEW x2, NEW x3, NEW x4, NEW x5, NEW x6,
             u = Codex(k, x1, Current(lines, k), x2, x3, x4, x5, x6),
             CountsRead(lines, k, x6)
      PROVE  CodexRead(lines, k, u)
  <2>1. u.turns = x6
    BY <1>6 DEF Codex
  <2> QED  BY <1>6, <2>1 DEF CodexRead
<1> HIDE DEF current, r
<1>7. CASE r.what = "meta"
  <2>1. S!CodexLine(s, r) = Codex(k, r.id, current, model, contexts, tools, failed, turns)
    BY <1>3, <1>7 DEF S!CodexLine, S!CodexMeta, Codex
  <2>2. Current(lines, k) = current
    BY <1>4, <1>7 DEF S!Opens, r
  <2> QED  BY <1>5, <1>6, <1>7, <2>1, <2>2 DEF r
<1>8. CASE r.what = "context" /\ r.id = S!NoId
  <2>1. S!CodexLine(s, r) = t
    BY <1>3, <1>8 DEF S!CodexLine, S!CodexContext
  <2>2. Current(lines, k) = current
    BY <1>4, <1>8 DEF S!Opens, r
  <2> QED  BY <1>5, <1>6, <1>8, <2>1, <2>2 DEF r
<1>9. CASE r.what = "context" /\ r.id # S!NoId
  <2> DEFINE x == S!Put(contexts, r.id, r.to)
             y == IF r.to # S!NoId THEN r.to ELSE model
  <2>1. S!CodexLine(s, r) = Codex(k, session, r.id, y, x, tools, failed, turns)
    BY <1>3, <1>9 DEF S!CodexLine, S!CodexContext, Codex
  <2>2. Current(lines, k) = r.id
    BY <1>4, <1>9 DEF S!Opens, r
  <2> HIDE DEF x, y
  <2> QED  BY <1>5, <1>6, <1>9, <2>1, <2>2 DEF r
<1>10. CASE r.what = "started"
  <2> DEFINE x == IF r.id = S!NoId \/ r.id \in DOMAIN contexts THEN contexts
                  ELSE S!Put(contexts, r.id, model)
  <2>1. S!CodexLine(s, r) = Codex(k, session, r.id, model, x, tools, failed, turns)
    BY <1>3, <1>10 DEF S!CodexLine, S!CodexStarted, Codex
  <2>2. Current(lines, k) = r.id
    BY <1>4, <1>10 DEF S!Opens, r
  <2> HIDE DEF x
  <2> QED  BY <1>5, <1>6, <1>10, <2>1, <2>2 DEF r
<1>11. CASE r.what = "call"
  <2> DEFINE x == S!Put(tools, S!CodexTurn(t), S!Get(tools, S!CodexTurn(t), {}) \cup {r.id})
  <2>1. t.tools = tools /\ S!CodexLine(s, r) = [t EXCEPT !.tools = x]
    BY <1>3, <1>11 DEF S!CodexLine, S!CodexCall, Codex
  <2> HIDE DEF x
  <2>2. S!CodexLine(s, r) = Codex(k, session, current, model, contexts, x, failed, turns)
    BY <2>1 DEF Codex
  <2>3. Current(lines, k) = current
    BY <1>4, <1>11 DEF S!Opens, r
  <2> QED  BY <1>5, <1>6, <1>11, <2>2, <2>3 DEF r
<1>12. CASE r.what = "end"
  <2> DEFINE x == IF r.tokens # 0 THEN failed \cup {r.id} ELSE failed \ {r.id}
  <2>1. S!CodexLine(s, r) = Codex(k, session, current, model, contexts, tools, x, turns)
    BY <1>3, <1>12 DEF S!CodexLine, S!CodexEnd, Codex
  <2> HIDE DEF x
  <2>2. Current(lines, k) = current
    BY <1>4, <1>12 DEF S!Opens, r
  <2> QED  BY <1>5, <1>6, <1>12, <2>1, <2>2 DEF r
<1>13. CASE r.what = "count"
  <2>1. Current(lines, k) = current
    BY <1>4, <1>13 DEF S!Opens, r
  <2>2. S!CodexTurn(t) = S!TurnAt(lines, k)
    BY <2>1, TurnAtIs DEF S!CodexTurn, Codex
  <2> DEFINE turn == S!CodexTurn(t)
             own == S!Get(contexts, turn, S!NoId)
             named == IF own # S!NoId THEN own ELSE model
             row == S!Row(turn, session, r.tokens, named)
             x == S!Put(turns, turn, row)
             y == IF named # S!NoId THEN named ELSE model
  <2>3. S!CodexLine(s, r) = [t EXCEPT !.turns = x, !.model = y]
    BY <1>3, <1>13 DEF S!CodexLine, S!CodexCount, Codex
  <2>4. row.id = turn /\ row.tokens = r.tokens
    BY DEF S!Row
  <2> HIDE DEF row
  <2>5. CountsRead(lines, k, x)
    BY <1>2, <1>13, <2>2, <2>4, CountsReadOne DEF r
  <2> HIDE DEF x, y
  <2>6. S!CodexLine(s, r) = Codex(k, session, current, y, contexts, tools, failed, x)
    BY <2>3 DEF Codex
  <2> QED  BY <1>6, <2>1, <2>5, <2>6 DEF r
<1> QED  BY <1>7, <1>8, <1>9, <1>10, <1>11, <1>12, <1>13 DEF CodexWhats, r

LEMMA CodexReads ==
    ASSUME NEW f, NEW X, NEW lines \in Seq(X), \A k \in 1..Len(lines) : lines[k].what \in CodexWhats
    PROVE  CountsRead(lines, Len(lines), S!ParseCodex(f, lines))
<1> DEFINE n == Len(lines)
           Follows(g, m) == g = [k \in 0..m |-> IF k = 0 THEN S!CodexStart(f)
                                                ELSE S!CodexLine(g[k - 1], lines[k])]
           Some == {m \in 0..n : \E g : Follows(g, m)}
           read == CHOOSE g : Follows(g, n)
           Good == {k \in 0..n : CodexRead(lines, k, read[k])}
<1>0. n \in Nat
  BY LenProperties
<1> HIDE DEF n
<1>1. n \in Some
  <2>1. 0 \in Some
    <3> DEFINE h == [k \in 0..0 |-> S!CodexStart(f)]
    <3>1. ASSUME NEW k \in 0..0
          PROVE  S!CodexStart(f) = IF k = 0 THEN S!CodexStart(f)
                                   ELSE S!CodexLine(h[k - 1], lines[k])
      OBVIOUS
    <3>2. Follows(h, 0)
      BY <3>1
    <3> HIDE DEF h, Follows
    <3> QED  BY <1>0, <3>2
  <2>2. ASSUME NEW m \in 1..n, m - 1 \in Some PROVE m \in Some
    <3>1. PICK g : Follows(g, m - 1)
      BY <2>2
    <3> DEFINE h == [k \in 0..m |-> IF k = m THEN S!CodexLine(g[m - 1], lines[m]) ELSE g[k]]
    <3>2. ASSUME NEW k \in 0..m
          PROVE  h[k] = IF k = 0 THEN S!CodexStart(f) ELSE S!CodexLine(h[k - 1], lines[k])
      BY <3>1
    <3>3. Follows(h, m)
      BY <3>2
    <3> HIDE DEF h, Follows
    <3> QED  BY <1>0, <3>3
  <2> HIDE DEF Some
  <2> QED  BY <1>0, <2>1, <2>2, UpTo
<1>2. Follows(read, n)
  BY <1>1
<1>3. S!ParseCodex(f, lines) = read[n].turns
  BY DEF S!ParseCodex, n
<1> HIDE DEF read
<1>4. read[0] = S!CodexStart(f) /\ \A k \in 1..n : read[k] = S!CodexLine(read[k - 1], lines[k])
  BY <1>0, <1>2
<1>5. n \in Good
  <2>1. 0 \in Good
    <3>1. Opened(lines, 0) = {} /\ CountsTill(lines, 0) = {}
      BY DEF Opened, CountsTill
    <3>2. read[0] = Codex(0, S!StemOf(f), Current(lines, 0), S!NoId, S!Nothing, S!Nothing,
                          {}, S!Nothing)
      BY <1>4, <3>1 DEF S!CodexStart, Codex, Current
    <3>3. CountsRead(lines, 0, S!Nothing)
      BY <3>1, NothingIs DEF CountsRead
    <3>4. read[0].turns = S!Nothing
      BY <3>2 DEF Codex
    <3> QED  BY <1>0, <3>2, <3>3, <3>4 DEF CodexRead
  <2>2. ASSUME NEW k \in 1..n, k - 1 \in Good PROVE k \in Good
    <3>1. k \in 0..n /\ k \in Nat /\ k # 0 /\ read[k] = S!CodexLine(read[k - 1], lines[k])
      BY <1>0, <1>4
    <3>2. CodexRead(lines, k - 1, read[k - 1])
      BY <2>2
    <3> QED  BY <3>1, <3>2, CodexReadsOne DEF n
  <2> HIDE DEF Good
  <2> QED  BY <1>0, <2>1, <2>2, UpTo
<1> QED  BY <1>3, <1>5 DEF n, CodexRead

-----------------------------------------------------------------------------
(* The other providers: what is parsed *)

LEMMA ParseIs ==
    ASSUME v1 \in LogKinds, NEW f, NEW lines
    PROVE  /\ v1 = "codex" => S!Parse(f, lines) = S!ParseCodex(f, lines)
           /\ v1 = "pi" => S!Parse(f, lines) = S!ParsePi(f, lines)
           /\ v1 = "amp" => S!Parse(f, lines) = S!ParseAmp(f, lines)
           /\ v1 = "opencode" => S!Parse(f, lines) = S!ParseOpencode(f, lines)
           /\ v1 = "cursor" => S!Parse(f, lines) = S!ParseCursor(f, lines)
           /\ v1 = "copilot" => S!Parse(f, lines) = S!ParseCopilot(f, lines)
           /\ v1 \in {"codex", "pi", "amp", "opencode", "cursor", "copilot"}
<1>1. v1 \in {"codex", "pi", "amp", "opencode", "cursor", "copilot"}
  BY Instances DEF S!SourcesAssumption
<1> QED  BY <1>1 DEF S!Parse

LEMMA OpencodeReads ==
    ASSUME NEW f, NEW X, NEW lines \in Seq(X)
    PROVE  LET out == S!ParseOpencode(f, lines)
           IN  \A i \in DOMAIN out :
                /\ i \in 1..Len(lines) /\ out[i].id = S!MessageId(lines, i)
                /\ out[i].session = lines[i].to
                /\ \A j \in 1..(i - 1) :
                    lines[j].to = lines[i].to => S!MessageId(lines, j) # S!MessageId(lines, i)
<1> DEFINE key(i) == <<lines[i].to, S!MessageId(lines, i)>>
           first == {i \in DOMAIN lines : \A j \in 1 .. i - 1 : key(j) # key(i)}
           used == {i \in first : lines[i].tokens # 0}
           out == S!ParseOpencode(f, lines)
<1>1. out = [i \in used |-> S!Row(S!MessageId(lines, i), lines[i].to, lines[i].tokens, 0)]
  BY DEF S!ParseOpencode
<1>2. DOMAIN lines = 1..Len(lines)
  BY LenProperties
<1> SUFFICES ASSUME NEW i \in DOMAIN out
             PROVE  /\ i \in 1..Len(lines) /\ out[i].id = S!MessageId(lines, i)
                    /\ out[i].session = lines[i].to
                    /\ \A j \in 1..(i - 1) :
                        lines[j].to = lines[i].to => S!MessageId(lines, j) # S!MessageId(lines, i)
  OBVIOUS
<1>3. i \in used /\ out[i] = S!Row(S!MessageId(lines, i), lines[i].to, lines[i].tokens, 0)
  BY <1>1
<1>4. out[i].id = S!MessageId(lines, i) /\ out[i].session = lines[i].to
  BY <1>3 DEF S!Row
<1> HIDE DEF out
<1> QED  BY <1>2, <1>3, <1>4

LEMMA PlacesRead ==
    ASSUME NEW f, NEW X, NEW lines \in Seq(X)
    PROVE  /\ \A i \in DOMAIN S!ParseCursor(f, lines) :
                i \in 1..Len(lines) /\ S!ParseCursor(f, lines)[i].id = S!IdAt(f, lines, i)
           /\ \A i \in DOMAIN S!ParseCopilot(f, lines) :
                i \in 1..Len(lines) /\ S!ParseCopilot(f, lines)[i].id = S!IdAt(f, lines, i)
<1>1. DOMAIN lines = 1..Len(lines)
  BY LenProperties
<1>2. ASSUME NEW id, NEW session, NEW tokens PROVE S!Row(id, session, tokens, 0).id = id
  BY DEF S!Row
<1> QED  BY <1>1, <1>2 DEF S!ParseCursor, S!ParseCopilot

\* What is parsed is of the turns of the log: in terms of its lines.
LEMMA ParseReads ==
    ASSUME S!Written, v1 \in LogKinds, NEW f \in LogFiles
    PROVE  LET lines == v2[f]
               out == S!Parse(f, lines)
           IN  /\ v1 = "codex" => CountsRead(lines, Len(lines), out)
               /\ v1 = "pi" => PiRead(lines, Len(lines), out)
               /\ v1 = "amp" => AmpRead(lines, Len(lines), out)
<1>1. /\ v2[f] \in Seq(Range(v2[f])) /\ DOMAIN v2[f] = 1..Len(v2[f])
      /\ v1 = "codex" => \A i \in 1..Len(v2[f]) : v2[f][i].what \in CodexWhats
  <2>1. v2[f] \in Seq(S!Entries(v1, f))
    BY DEF S!Written
  <2>2. DOMAIN v2[f] = 1..Len(v2[f])
    BY <2>1
  <2>3. v2[f] \in Seq(Range(v2[f]))
    BY <2>1 DEF Range
  <2> QED  BY <2>2, <2>3, WrittenIs
<1> QED  BY <1>1, ParseIs, CodexReads, PiReads, AmpReads

LEMMA ParseEmpty ==
    ASSUME v1 \in LogKinds, NEW f
    PROVE  S!FirstOf(S!Parse(f, <<>>)) = {}
<1> DEFINE out == S!Parse(f, <<>>)
<1>1. <<>> \in Seq({}) /\ Len(<<>>) = 0
  OBVIOUS
<1>2. CASE v1 = "codex"
  <2>1. CountsRead(<<>>, 0, out)
    <3>1. CountsRead(<<>>, Len(<<>>), S!ParseCodex(f, <<>>))
      <4>1. \A k \in 1..Len(<<>>) : <<>>[k].what \in CodexWhats
        BY <1>1
      <4> QED  BY <1>1, <4>1, CodexReads
    <3>2. out = S!ParseCodex(f, <<>>)
      BY <1>2, ParseIs
    <3> HIDE DEF out
    <3> QED  BY <1>1, <3>1, <3>2
  <2> QED  BY <2>1 DEF CountsRead, CountsTill, S!FirstOf
<1>3. CASE v1 = "pi"
  <2>1. PiRead(<<>>, 0, out)
    BY <1>1, <1>3, ParseIs, PiReads
  <2> QED  BY <2>1 DEF PiRead, PiUsed, S!FirstOf
<1>4. CASE v1 = "amp"
  <2>1. AmpRead(<<>>, 0, out)
    BY <1>1, <1>4, ParseIs, AmpReads
  <2> QED  BY <2>1 DEF AmpRead, AmpEvents, S!FirstOf
<1>5. CASE v1 = "opencode"
  <2>1. \A i \in DOMAIN out : i \in 1..0
    <3>1. \A i \in DOMAIN S!ParseOpencode(f, <<>>) : i \in 1..Len(<<>>)
      BY <1>1, OpencodeReads
    <3>2. out = S!ParseOpencode(f, <<>>)
      BY <1>5, ParseIs
    <3> HIDE DEF out
    <3> QED  BY <1>1, <3>1, <3>2
  <2> QED  BY <2>1 DEF S!FirstOf
<1>6. CASE v1 \in {"cursor", "copilot"}
  <2>1. \A i \in DOMAIN out : i \in 1..0
    BY <1>1, <1>6, ParseIs, PlacesRead
  <2> QED  BY <2>1 DEF S!FirstOf
<1> QED  BY <1>2, <1>3, <1>4, <1>5, <1>6, ParseIs

\* The ids of what is parsed are the log's.
LEMMA ParseFrom ==
    ASSUME S!Written, v1 \in LogKinds, NEW f \in LogFiles,
           NEW i \in DOMAIN S!Parse(f, v2[f])
    PROVE  S!Parse(f, v2[f])[i].id[1] \in S!Marked(f)
<1> DEFINE lines == v2[f]
           out == S!Parse(f, lines)
<1>1. lines \in Seq(Range(lines)) /\ DOMAIN lines = 1..Len(lines)
  <2>1. lines \in Seq(S!Entries(v1, f))
    BY DEF S!Written
  <2> QED  BY <2>1 DEF Range
<1>2. \A j \in 1..Len(lines) :
        /\ v1 \notin {"codex", "opencode"} => lines[j].id = S!NoId \/ lines[j].id[1] = f
        /\ v1 = "opencode" => lines[j].id[1] = 0
  <2> SUFFICES ASSUME NEW j \in DOMAIN v2[f]
               PROVE  /\ v1 \notin {"codex", "opencode"} =>
                            v2[f][j].id = S!NoId \/ v2[f][j].id[1] = f
                      /\ v1 = "opencode" => v2[f][j].id[1] = 0
    BY <1>1
  <2> QED  BY WrittenIs
<1>3. CASE v1 = "pi"
  <2>1. PiRead(lines, Len(lines), out)
    BY <1>3, ParseReads
  <2>2. PICK j \in PiUsed(lines, Len(lines)) : lines[j].id = out[i].id
    BY <2>1 DEF PiRead
  <2> HIDE DEF out, lines
  <2>3. j \in 1..Len(lines) /\ lines[j].id # S!NoId
    BY <2>2 DEF PiUsed
  <2> QED  BY <1>2, <1>3, <2>2, <2>3 DEF out, lines, S!Marked
<1>4. CASE v1 = "amp"
  <2>1. AmpRead(lines, Len(lines), out)
    BY <1>4, ParseReads
  <2>2. PICK j \in AmpEvents(lines, Len(lines)) : lines[j].id = out[i].id
    BY <2>1 DEF AmpRead
  <2> HIDE DEF out, lines
  <2>3. j \in 1..Len(lines) /\ lines[j].id # S!NoId
    BY <2>2 DEF AmpEvents
  <2> QED  BY <1>2, <1>4, <2>2, <2>3 DEF out, lines, S!Marked
<1>5. CASE v1 = "opencode"
  <2>1. i \in 1..Len(lines) /\ out[i].id = S!MessageId(lines, i)
    BY <1>1, <1>5, ParseIs, OpencodeReads
  <2>2. lines[i].id[1] = 0
    BY <1>2, <1>5, <2>1
  <2> HIDE DEF out, lines
  <2>3. out[i].id[1] = 0
    BY <2>1, <2>2 DEF S!MessageId, S!LinePlace
  <2> QED  BY <1>5, <2>3 DEF out, lines, S!Marked
<1>6. CASE v1 \in {"cursor", "copilot"}
  <2>1. i \in 1..Len(lines) /\ out[i].id = S!IdAt(f, lines, i)
    <3>1. \/ out = S!ParseCursor(f, lines)
          \/ out = S!ParseCopilot(f, lines)
      BY <1>6, ParseIs
    <3>2. i \in DOMAIN out
      OBVIOUS
    <3> HIDE DEF out, lines
    <3> QED  BY <1>1, <3>1, <3>2, PlacesRead
  <2> HIDE DEF out, lines
  <2>2. S!IdAt(f, lines, i)[1] = f
    BY <1>2, <1>6, <2>1 DEF S!IdAt, S!Place
  <2> QED  BY <1>6, <2>1, <2>2 DEF out, lines, S!Marked
<1>7. CASE v1 = "codex"
  <2>1. CountsRead(lines, Len(lines), out)
    BY <1>7, ParseReads
  <2>2. PICK n \in CountsTill(lines, Len(lines)) : S!TurnAt(lines, n) = out[i].id
    BY <2>1 DEF CountsRead
  <2> HIDE DEF out, lines
  <2>3. n \in 1..Len(lines)
    BY <2>2 DEF CountsTill
  <2>4. CASE S!TurnAt(lines, n) = S!LinePlace(n)
    BY <1>7, <2>2, <2>4 DEF out, lines, S!Marked, S!LinePlace
  <2>5. CASE S!TurnAt(lines, n) # S!LinePlace(n)
    <3> DEFINE opens == {j \in 1 .. n : S!Opens(lines, j)}
    <3>1. opens # {} /\ S!TurnAt(lines, n) = lines[S!Max(opens)].id
      BY <2>5 DEF S!TurnAt
    <3>2. PICK m \in opens : \A j \in opens : j <= m
      <4>1. n \in Nat
        BY <1>1, <2>3
      <4>2. opens \subseteq Nat /\ \A j \in opens : j <= n
        BY <4>1
      <4> HIDE DEF opens
      <4> QED  BY <3>1, <4>1, <4>2, GreatestNumber
    <3>3. S!Max(opens) = m
      <4>1. n \in Nat
        BY <1>1, <2>3
      <4>2. opens \subseteq Nat
        BY <4>1
      <4> HIDE DEF opens
      <4>3. \A k \in opens : (\A j \in opens : j <= k) => k = m
        BY <3>2, <4>2
      <4>4. S!Max(opens) = CHOOSE k \in opens : \A j \in opens : k >= j
        BY DEF S!Max
      <4> QED  BY <3>2, <4>2, <4>3, <4>4
    <3>4. m \in DOMAIN lines
      BY <1>1, <2>3, <3>2
    <3>5. out[i].id[1] = lines[m].id[1]
      BY <2>2, <3>1, <3>3
    <3> QED  BY <1>7, <3>4, <3>5 DEF out, lines, S!Marked, S!Origins
  <2> QED  BY <2>4, <2>5
<1> QED  BY <1>3, <1>4, <1>5, <1>6, <1>7, ParseIs

\* Each log is read as its format means.
LEMMA ReadsRight ==
    ASSUME S!Written, v1 \in LogKinds
    PROVE  S!ParsedRight
<1> SUFFICES ASSUME NEW f \in LogFiles
             PROVE  LET out == S!Parse(f, v2[f]) IN
                    /\ v1 # "cursor" /\ v1 # "copilot" =>
                        \A i, j \in DOMAIN out :
                            out[i].id = out[j].id
                                /\ (v1 = "opencode" => out[i].session = out[j].session)
                            => i = j
                    /\ v1 = "codex" => S!CodexRight(v2[f], out)
                    /\ v1 = "pi" => S!PiRight(v2[f], out)
                    /\ v1 = "amp" => S!AmpRight(v2[f], out)
  BY DEF S!ParsedRight
<1> DEFINE lines == v2[f]
           out == S!Parse(f, lines)
<1>1. lines \in Seq(Range(lines)) /\ DOMAIN lines = 1..Len(lines) /\ Len(lines) \in Nat
  <2>1. lines \in Seq(S!Entries(v1, f))
    BY DEF S!Written
  <2> QED  BY <2>1 DEF Range
<1>2. /\ v1 = "codex" => CountsRead(lines, Len(lines), out)
      /\ v1 = "pi" => PiRead(lines, Len(lines), out)
      /\ v1 = "amp" => AmpRead(lines, Len(lines), out)
  BY ParseReads
<1>3. v1 = "opencode" =>
        \A i, j \in DOMAIN out : out[i].id = out[j].id /\ out[i].session = out[j].session => i = j
  <2> SUFFICES ASSUME v1 = "opencode", NEW i \in DOMAIN out, NEW j \in DOMAIN out,
                      out[i].id = out[j].id, out[i].session = out[j].session, i < j
               PROVE  FALSE
    <3>1. \A i \in DOMAIN out : v1 = "opencode" => i \in 1..Len(lines)
      BY <1>1, ParseIs, OpencodeReads
    <3> HIDE DEF out, lines
    <3> QED  BY <3>1
  <2>1. /\ i \in 1..Len(lines) /\ j \in 1..Len(lines)
        /\ out[i].id = S!MessageId(lines, i) /\ out[j].id = S!MessageId(lines, j)
        /\ out[i].session = lines[i].to /\ out[j].session = lines[j].to
        /\ \A m \in 1..(j - 1) :
            lines[m].to = lines[j].to => S!MessageId(lines, m) # S!MessageId(lines, j)
    BY <1>1, ParseIs, OpencodeReads
  <2>2. out[i].id = out[j].id /\ out[i].session = out[j].session /\ i < j
    OBVIOUS
  <2> HIDE DEF out, lines
  <2>3. i \in 1..(j - 1)
    BY <1>1, <2>1, <2>2
  <2> QED  BY <2>1, <2>2, <2>3
<1>4. v1 \in {"codex", "pi", "amp", "opencode", "cursor", "copilot"}
  BY ParseIs
<1> HIDE DEF out, lines
<1>5. v1 # "cursor" /\ v1 # "copilot" =>
        \A i, j \in DOMAIN out :
            out[i].id = out[j].id /\ (v1 = "opencode" => out[i].session = out[j].session)
            => i = j
  BY <1>2, <1>3, <1>4 DEF CountsRead, PiRead, AmpRead
<1>6. ASSUME v1 = "codex" PROVE S!CodexRight(lines, out)
  <2> DEFINE C == CountsTill(lines, Len(lines))
  <2>0. {i \in DOMAIN lines : lines[i].what = "count"} = C
    BY <1>1 DEF CountsTill
  <2> DEFINE Final == {i \in C : \A j \in C : S!TurnAt(lines, j) = S!TurnAt(lines, i) => j <= i}
  <2>1. S!CodexUsage(lines) = {<<S!TurnAt(lines, i), lines[i].tokens>> : i \in Final}
    BY <2>0 DEF S!CodexUsage
  <2>2. /\ DOMAIN out = {S!TurnAt(lines, i) : i \in C}
        /\ \A d \in DOMAIN out :
            /\ out[d].id = d
            /\ \E i \in C : /\ S!TurnAt(lines, i) = d /\ lines[i].tokens = out[d].tokens
                            /\ \A j \in C : S!TurnAt(lines, j) = d => j <= i
    BY <1>2, <1>6 DEF CountsRead
  <2>3. \A i \in C : i \in Nat
    BY DEF CountsTill
  <2> HIDE DEF C
  <2>4. ASSUME NEW d \in DOMAIN out
        PROVE  \E i \in Final : <<out[d].id, out[d].tokens>> = <<S!TurnAt(lines, i), lines[i].tokens>>
    BY <2>2
  <2>5. ASSUME NEW i \in Final
        PROVE  \E d \in DOMAIN out : <<out[d].id, out[d].tokens>> = <<S!TurnAt(lines, i), lines[i].tokens>>
    <3> DEFINE d == S!TurnAt(lines, i)
    <3>1. d \in DOMAIN out /\ out[d].id = d
      BY <2>2
    <3>2. PICK m \in C : /\ S!TurnAt(lines, m) = d /\ lines[m].tokens = out[d].tokens
                         /\ \A j \in C : S!TurnAt(lines, j) = d => j <= m
      BY <2>2, <3>1
    <3>3. m = i
      BY <2>3, <3>2
    <3> QED  BY <3>1, <3>2, <3>3
  <2> HIDE DEF Final
  <2> QED  BY <2>1, <2>4, <2>5 DEF S!CodexRight
<1>7. ASSUME v1 = "pi" PROVE S!PiRight(lines, out)
  <2>1. PiRead(lines, Len(lines), out)
    BY <1>2, <1>7
  <2>2. \A i \in 1..Len(lines) : lines[i].id # S!NoId /\ lines[i].tokens # 0 =>
            i \in PiUsed(lines, Len(lines))
    BY DEF PiUsed
  <2>3. \A i \in DOMAIN lines : lines[i].id # S!NoId /\ lines[i].tokens # 0 =>
            \E j \in DOMAIN out : out[j].id = lines[i].id
    BY <1>1, <2>1, <2>2 DEF PiRead
  <2>4. ASSUME NEW j \in DOMAIN out
        PROVE  \E i \in DOMAIN lines :
                /\ lines[i].id = out[j].id /\ lines[i].tokens = out[j].tokens
                /\ \A m \in i + 1 .. Len(lines) : lines[m].id = out[j].id => lines[m].tokens = 0
    <3>1. PICK i \in PiUsed(lines, Len(lines)) :
            /\ lines[i].id = j /\ lines[i].tokens = out[j].tokens /\ out[j].id = j
            /\ \A m \in PiUsed(lines, Len(lines)) : lines[m].id = j => m <= i
      BY <2>1 DEF PiRead
    <3>2. i \in 1..Len(lines) /\ lines[i].id # S!NoId
      BY <3>1 DEF PiUsed
    <3>3. ASSUME NEW m \in i + 1 .. Len(lines), lines[m].id = j PROVE lines[m].tokens = 0
      <4>1. m \in 1..Len(lines) /\ ~(m <= i)
        BY <1>1, <3>2
      <4> QED  BY <2>2, <3>1, <3>2, <3>3, <4>1
    <3> QED  BY <1>1, <3>1, <3>2, <3>3
  <2> QED  BY <2>3, <2>4 DEF S!PiRight
<1>8. ASSUME v1 = "amp" PROVE S!AmpRight(lines, out)
  <2>1. AmpRead(lines, Len(lines), out)
    BY <1>2, <1>8
  <2>2. ASSUME NEW i \in DOMAIN lines, lines[i].what = "event", lines[i].id # S!NoId,
               \A m \in 1 .. i - 1 : lines[m].what = "event" => lines[m].id # lines[i].id
        PROVE  \E j \in DOMAIN out : out[j].id = lines[i].id /\ out[j].tokens = lines[i].tokens
    <3> DEFINE d == lines[i].id
    <3>1. i \in AmpEvents(lines, Len(lines))
      BY <1>1, <2>2 DEF AmpEvents
    <3>2. d \in DOMAIN out /\ out[d].id = d
      BY <2>1, <3>1 DEF AmpRead
    <3>3. PICK m \in AmpEvents(lines, Len(lines)) :
            /\ lines[m].id = d /\ lines[m].tokens = out[d].tokens
            /\ \A j \in AmpEvents(lines, Len(lines)) : lines[j].id = d => m <= j
      BY <2>1, <3>2 DEF AmpRead
    <3>4. m \in 1..Len(lines) /\ lines[m].what = "event" /\ m <= i /\ i \in 1..Len(lines)
      BY <1>1, <3>1, <3>3 DEF AmpEvents
    <3>5. m = i
      BY <2>2, <3>3, <3>4
    <3> QED  BY <3>2, <3>3, <3>5
  <2> QED  BY <2>2 DEF S!AmpRight
<1> QED  BY <1>5, <1>6, <1>7, <1>8 DEF lines, out

-----------------------------------------------------------------------------
(* The other providers: the scan *)

LEMMA SourceFiles ==
    /\ LogFiles \subseteq Nat \ {0} /\ LogFiles # {} /\ MaxLog \in Nat
BY Instances DEF S!SourcesAssumption

LEMMA LeastFile ==
    ASSUME NEW X, X \subseteq LogFiles, X # {}
    PROVE  S!Min(X) \in X /\ \A f \in X : S!Min(X) <= f
<1>1. PICK m \in X : \A f \in X : m <= f
  BY SourceFiles, LeastNumber
<1>2. m \in X /\ \A f \in X : m <= f
  BY <1>1
<1> QED  BY <1>2 DEF S!Min

LEMMA AdvanceIs ==
    ASSUME S!Advance, v9 \in LogFiles
    PROVE  /\ v8' \in {"look", "idle"} /\ v9' \in LogFiles \cup {0}
           /\ v8' = "idle" <=> v9' = 0
<1>1. CASE \E f \in LogFiles : f > v9
  <2>1. v9' = S!Min({f \in LogFiles : f > v9}) /\ v8' = "look"
    BY <1>1 DEF S!Advance
  <2>2. v9' \in {f \in LogFiles : f > v9}
    <3> DEFINE X == {f \in LogFiles : f > v9}
    <3>1. X \subseteq LogFiles /\ X # {} /\ v9' = S!Min(X)
      BY <1>1, <2>1
    <3> HIDE DEF X
    <3>2. v9' \in X
      BY <3>1, LeastFile
    <3> QED  BY <3>2 DEF X
  <2> QED  BY <2>1, <2>2, SourceFiles
<1>2. CASE ~\E f \in LogFiles : f > v9
  BY <1>2 DEF S!Advance
<1> QED  BY <1>1, <1>2

\* What a log is parsed to in the next state.
LEMMA ParseNext ==
    ASSUME v1' = v1, NEW f
    PROVE  S!Parse(f, v2[f])' = S!Parse(f, v2'[f])
BY DEF S!Parse

LEMMA StoredKept ==
    ASSUME v1' = v1, NEW f, v2'[f] = v2[f], S!OfFile(f)' = S!OfFile(f), SameHidden(f)
    PROVE  S!Stored(f)' <=> S!Stored(f)
<1>1. S!Due(f)' = S!Due(f)
  BY ParseNext DEF S!Due
<1> QED  BY <1>1 DEF S!Stored, SameHidden

LEMMA AtRestKept ==
    ASSUME v1' = v1, NEW f, v2'[f] = v2[f], v3'[f] = v3[f], v6'[f] = v6[f],
           S!OfFile(f)' = S!OfFile(f), SameHidden(f), S!AtRest(f)
    PROVE  S!AtRest(f)'
BY StoredKept DEF S!AtRest

LEMMA UnderWayKept ==
    ASSUME v1' = v1, NEW f, v2'[f] = v2[f], v3'[f] = v3[f], v6'[f] = v6[f],
           S!OfFile(f)' = S!OfFile(f), SameHidden(f), v8' = v8, v10' = v10, v11' = v11,
           S!UnderWay(f)
    PROVE  S!UnderWay(f)'
<1>1. S!Parse(f, v2[f])' = S!Parse(f, v2[f])
  BY ParseNext
<1> QED  BY <1>1, StoredKept DEF S!UnderWay, S!Live

\* A file without a mark and without a time is as it should be when it has no rows.
LEMMA GoneIsStored ==
    ASSUME v1 \in LogKinds, NEW f, v2[f] = <<>>, S!OfFile(f) = {}
    PROVE  S!Stored(f)
<1>1. S!Due(f) = {}
  BY ParseEmpty DEF S!Due
<1> QED  BY <1>1 DEF S!Stored

\* What the ids of a log begin with stays with the log, and so does where an id of
\* a row is from.
LEMMA MarkedKept ==
    ASSUME v1' = v1, NEW f, v2'[f] = v2[f]
    PROVE  S!Marked(f)' = S!Marked(f)
BY DEF S!Marked, S!Origins

LEMMA FromKept ==
    ASSUME v1' = v1, v2' = v2, v3' = v3, v12 \subseteq v12', NEW f, NEW p, S!From(f, p),
           v8 = "idle" /\ v6[f] # 0 => v8' = "idle" /\ v6'[f] # 0
    PROVE  S!From(f, p)'
<1>1. \A g : S!Marked(g)' = S!Marked(g)
  BY MarkedKept
<1>2. CASE p \in S!Marked(f)
  BY <1>1, <1>2 DEF S!From
<1>3. CASE p \notin S!Marked(f)
  <2>1. /\ v1 = "codex" /\ f \notin ArchivedLogs /\ ~S!Live(f) /\ p = f /\ \E g \in LogFiles : p \in S!Marked(g)
        /\ \A g \in LogFiles \ v12 : p \in S!Marked(g) => v8 = "idle" /\ v6[f] # 0
    BY <1>3 DEF S!From
  <2>2. ~S!Live(f)'
    BY <2>1 DEF S!Live
  <2> QED  BY <1>1, <2>1, <2>2 DEF S!From
<1> QED  BY <1>2, <1>3

LEMMA ApartKept ==
    ASSUME v1' = v1, v2' = v2, S!Apart
    PROVE  S!Apart'
<1>1. \A g : S!Marked(g)' = S!Marked(g)
  BY MarkedKept
<1> QED  BY <1>1 DEF S!Apart

\* Written and Still of a step that touches no log.
LEMMA WrittenKept ==
    ASSUME v1' = v1, v2' = v2, S!Written
    PROVE  S!Written'
<1>1. \A g : S!Origins(g)' = S!Origins(g)
  BY DEF S!Origins
<1> QED  BY <1>1 DEF S!Written

LEMMA SourcesStart == S!Init => S!Inv
<1> SUFFICES ASSUME S!Init PROVE S!Inv
  OBVIOUS
<1> USE SourceFiles DEF S!Init
<1>1. S!TypeOK
  BY DEF S!TypeOK
<1>2. S!Times
  BY DEF S!Times, S!InHand
<1>3. S!Written
  BY DEF S!Written, S!Origins
<1>4. S!RowsFrom /\ S!HiddenKept /\ S!Still
  BY DEF S!RowsFrom, S!HiddenKept, S!Still, S!InHand
<1>5. S!FilesKept
  <2> SUFFICES ASSUME NEW f \in LogFiles PROVE S!AtRest(f) /\ ~S!InHand
    BY DEF S!FilesKept
  <2>1. S!OfFile(f) = {} /\ v2[f] = <<>> /\ ~S!InHand
    BY DEF S!OfFile, S!InHand
  <2> QED  BY <2>1, GoneIsStored DEF S!AtRest
<1>6. S!SidecarKept
  BY DEF S!SidecarKept, S!Live
<1>7. S!Apart
  <2>1. v1 \in {"codex", "pi", "amp", "opencode", "cursor", "copilot"}
    BY Instances DEF S!SourcesAssumption
  <2>2. \A f \in LogFiles : S!Origins(f) = {}
    BY DEF S!Origins
  <2> QED  BY <2>1, <2>2 DEF S!Apart, S!Marked
<1> QED  BY <1>1, <1>2, <1>3, <1>4, <1>5, <1>6, <1>7 DEF S!Inv

LEMMA SourcesWrites ==
    ASSUME S!Inv, S!Write
    PROVE  S!Inv'
<1> USE SourceFiles
<1>1. PICK f \in LogFiles, r \in LogLines[v1] :
        /\ S!Grows(f)
        /\ v2' = [v2 EXCEPT ![f] = Append(@, S!Own(v1, r, f))]
        /\ v3' = [v3 EXCEPT ![f] = v4 + 1]
        /\ v12' = IF v1 = "cursor" /\ v9 = f /\ v8 \in {"read", "stat"}
                  THEN v12 \cup {f} ELSE v12
  BY DEF S!Write
<1>2. /\ v4 < MaxLog /\ v4' = v4 + 1 /\ v1' = v1 /\ v5' = v5 /\ v6' = v6 /\ v7' = v7
      /\ v8' = v8 /\ v9' = v9 /\ v10' = v10 /\ v11' = v11 /\ v13' = v13
  BY DEF S!Write, S!scanner
<1>3. /\ S!TypeOK /\ S!Times /\ S!Written /\ S!Apart /\ S!RowsFrom
      /\ S!FilesKept /\ S!HiddenKept /\ S!SidecarKept /\ S!Still
  BY DEF S!Inv
<1>t. /\ v4 \in Nat /\ v3 \in [LogFiles -> Nat] /\ v6 \in [LogFiles -> Nat]
      /\ v7 \in [LogFiles -> Nat] /\ v10 \in Nat /\ DOMAIN v2 = LogFiles
  BY <1>3 DEF S!TypeOK, S!Written
<1>4. S!TypeOK'
  BY <1>1, <1>2, <1>3 DEF S!TypeOK
<1>5. \A g \in LogFiles : g # f => v2'[g] = v2[g] /\ v3'[g] = v3[g]
  BY <1>1, <1>t
<1>6. v3'[f] = v4 + 1 /\ v2'[f] = Append(v2[f], S!Own(v1, r, f)) /\ v3'[f] # 0
  BY <1>1, <1>t
<1>7. S!Times'
  BY <1>2, <1>3, <1>5, <1>6, <1>t DEF S!Times, S!InHand, S!OfFile, S!HiddenAt
<1>11. v12 \subseteq v12'
  BY <1>1
<1>h. f \notin ArchivedLogs /\ \A g \in LogFiles \ {f} : f \notin S!Origins(g)
  BY <1>1 DEF S!Grows
<1>k. v1 \in {"codex", "pi", "amp", "opencode", "cursor", "copilot"} /\ f # 0 /\ f \in Nat
  BY <1>3, Instances DEF S!TypeOK, S!SourcesAssumption
<1>9. S!Origins(f) \subseteq S!Origins(f)' /\ S!Origins(f)' \subseteq S!Origins(f) \cup {f}
  <2>1. S!Own(v1, r, f).id[1] \in {0, f}
    BY <1>3, <1>k, OwnIs DEF S!NoId, S!TypeOK
  <2>2. v2[f] \in Seq(S!Entries(v1, f))
    BY <1>3 DEF S!Written
  <2> DEFINE e == S!Own(v1, r, f)
             n == Len(v2[f])
  <2>3. n \in Nat /\ DOMAIN v2[f] = 1 .. n /\ DOMAIN Append(v2[f], e) = 1 .. n + 1
    BY <2>2
  <2>4. \A i \in 1 .. n : Append(v2[f], e)[i] = v2[f][i]
    BY <2>2
  <2>5. Append(v2[f], e)[n + 1] = e
    BY <2>2
  <2>6. S!Origins(f)' = {Append(v2[f], e)[i].id[1] : i \in 1 .. n + 1} \ {0}
    BY <1>6, <2>3 DEF S!Origins
  <2>7. S!Origins(f) = {v2[f][i].id[1] : i \in 1 .. n} \ {0}
    BY <2>3 DEF S!Origins
  <2>8. e.id[1] \in {0, f}
    BY <2>1
  <2>9. \A i \in 1 .. n + 1 : i \in 1 .. n \/ i = n + 1
    BY <2>3
  <2>10. \A i \in 1 .. n : i \in 1 .. n + 1
    BY <2>3
  <2> HIDE DEF e, n
  <2>11. ASSUME NEW x \in S!Origins(f) PROVE x \in S!Origins(f)'
    <3>1. PICK i \in 1 .. n : x = v2[f][i].id[1] /\ x # 0
      BY <2>7
    <3>2. x = Append(v2[f], e)[i].id[1] /\ i \in 1 .. n + 1
      BY <2>4, <2>10, <3>1
    <3> QED  BY <2>6, <3>1, <3>2
  <2>12. ASSUME NEW x \in S!Origins(f)' PROVE x \in S!Origins(f) \cup {f}
    <3>1. PICK i \in 1 .. n + 1 : x = Append(v2[f], e)[i].id[1] /\ x # 0
      BY <2>6
    <3>2. CASE i = n + 1
      BY <2>5, <2>8, <3>1, <3>2
    <3>3. CASE i \in 1 .. n
      BY <2>4, <2>7, <3>1, <3>3
    <3> QED  BY <2>9, <3>2, <3>3
  <2> QED  BY <2>11, <2>12
<1>8. S!Written'
  <2>1. S!Own(v1, r, f) \in S!Entries(v1, f)
    BY DEF S!Entries
  <2>2. ASSUME NEW g \in LogFiles PROVE v2'[g] \in Seq(S!Entries(v1, g))
    <3>1. v2[g] \in Seq(S!Entries(v1, g))
      BY <1>3 DEF S!Written
    <3>2. g = f => Append(v2[g], S!Own(v1, r, f)) \in Seq(S!Entries(v1, g))
      BY <2>1, <3>1
    <3> QED  BY <1>5, <1>6, <3>1, <3>2
  <2>3. DOMAIN v2' = LogFiles
    BY <1>1, <1>t
  <2>4. ASSUME NEW g \in LogFiles \ ArchivedLogs PROVE S!Origins(g)' \subseteq {g}
    <3>1. S!Origins(g) \subseteq {g}
      BY <1>3 DEF S!Written
    <3>2. g # f => S!Origins(g)' = S!Origins(g)
      BY <1>5 DEF S!Origins
    <3> QED  BY <1>9, <3>1, <3>2
  <2> QED  BY <1>2, <2>2, <2>3, <2>4 DEF S!Written
<1>a. S!Apart' /\ S!RowsFrom'
  <2>1. \A g \in LogFiles : g # f => S!Marked(g)' = S!Marked(g)
    <3> SUFFICES ASSUME NEW g \in LogFiles, g # f PROVE S!Marked(g)' = S!Marked(g)
      OBVIOUS
    <3> QED  BY <1>2, <1>5, MarkedKept
  <2>2. S!Marked(f) \subseteq S!Marked(f)' /\ S!Marked(f)' \subseteq S!Marked(f) \cup {0, f}
    BY <1>2, <1>9, <1>h, <1>k DEF S!Marked
  <2>3. \A g \in LogFiles \ {f} : f \notin S!Marked(g)
    BY <1>h, <1>k DEF S!Marked
  <2>4. S!Apart'
    BY <1>3, <2>1, <2>2, <2>3 DEF S!Apart
  <2>5. ASSUME NEW g \in LogFiles, NEW p, S!From(g, p) PROVE S!From(g, p)'
    <3>1. CASE p \in S!Marked(g)
      BY <2>1, <2>2, <3>1 DEF S!From
    <3>2. CASE p \notin S!Marked(g)
      <4>1. /\ v1 = "codex" /\ g \notin ArchivedLogs /\ ~S!Live(g) /\ p = g /\ \E h \in LogFiles : p \in S!Marked(h)
            /\ \A h \in LogFiles \ v12 : p \in S!Marked(h) => v8 = "idle" /\ v6[g] # 0
        BY <2>5, <3>2 DEF S!From
      <4>2. g # f
        BY <2>3, <3>2, <4>1
      <4>3. ~S!Live(g)'
        BY <1>5, <4>1, <4>2 DEF S!Live
      <4>4. p # 0
        BY <1>k, <3>2, <4>1 DEF S!Marked
      <4> QED  BY <1>2, <1>11, <2>1, <2>2, <4>1, <4>2, <4>3, <4>4 DEF S!From
    <3> QED  BY <3>1, <3>2
  <2>6. (\A q \in v5 : q.file \in LogFiles) /\ (v8 \in {"stat", "store"} => v9 \in LogFiles)
    BY <1>3 DEF S!TypeOK, S!Times
  <2> QED  BY <1>2, <1>3, <2>4, <2>5, <2>6 DEF S!RowsFrom
<1>10. \A g : S!OfFile(g)' = S!OfFile(g)
  BY <1>2 DEF S!OfFile
<1>s. \A g : SameHidden(g)
  BY <1>2 DEF SameHidden
<1>12. S!FilesKept'
  <2> SUFFICES ASSUME NEW g \in LogFiles \ v12
               PROVE  IF S!InHand /\ v9 = g THEN S!UnderWay(g)' ELSE S!AtRest(g)'
    BY <1>2, <1>11 DEF S!FilesKept, S!InHand
  <2>1. IF S!InHand /\ v9 = g THEN S!UnderWay(g) ELSE S!AtRest(g)
    BY <1>3 DEF S!FilesKept
  <2>2. CASE g # f
    BY <1>2, <1>5, <1>10, <1>s, <2>1, <2>2, UnderWayKept, AtRestKept
  <2>3. CASE g = f /\ S!InHand /\ v9 = g
    <3>1. v10 # v3'[g] /\ v6[g] # v3'[g]
      <4>1. v10 <= v4 /\ v6[g] <= v4
        BY <1>3 DEF S!Times
      <4> QED  BY <1>6, <1>t, <2>3, <4>1
    <3> QED  BY <1>2, <1>6, <1>10, <2>1, <2>3, <3>1 DEF S!UnderWay, S!Live
  <2>4. CASE g = f /\ ~(S!InHand /\ v9 = g)
    <3>1. v6[g] # v3'[g]
      <4>1. v6[g] <= v4
        BY <1>3 DEF S!Times
      <4> QED  BY <1>6, <1>t, <2>4, <4>1
    <3> QED  BY <1>2, <1>6, <1>10, <2>1, <2>4, <3>1 DEF S!AtRest
  <2> QED  BY <2>2, <2>3, <2>4
<1>13. S!SidecarKept'
  <2> SUFFICES ASSUME v1 = "cursor", NEW g \in LogFiles \ v12'
               PROVE  /\ v3'[g] # 0 /\ v7[g] = v3'[g] =>
                            v6[g] = v3'[g] \/ (v9 = g /\ v8 \in {"store", "mark"} /\ v10 = v3'[g])
                      /\ v9 = g /\ v8 \in {"read", "stat"} => v10 = v3'[g]
    BY <1>2 DEF S!SidecarKept, S!Live
  <2>1. CASE g # f
    <3>1. g \in LogFiles \ v12 /\ v3'[g] = v3[g]
      BY <1>5, <1>11, <2>1
    <3> QED  BY <1>3, <3>1 DEF S!SidecarKept, S!Live
  <2>2. CASE g = f
    <3>1. v7[g] # v3'[g]
      <4>1. v7[g] <= v4
        BY <1>3 DEF S!Times
      <4> QED  BY <1>6, <1>t, <2>2, <4>1
    <3>2. ~(v9 = g /\ v8 \in {"read", "stat"})
      BY <1>1, <2>2
    <3> QED  BY <3>1, <3>2
  <2> QED  BY <2>1, <2>2
<1>14. S!HiddenKept' /\ S!Still'
  <2>1. S!HiddenKept'
    BY <1>2, <1>3, <1>11 DEF S!HiddenKept, S!MayHide
  <2>2. \A g \in ArchivedLogs : g \in LogFiles /\ g # f
    BY <1>h, Instances DEF S!SourcesAssumption
  <2> QED  BY <1>2, <1>3, <1>5, <2>1, <2>2 DEF S!Still, S!InHand
<1> QED  BY <1>4, <1>7, <1>8, <1>a, <1>12, <1>13, <1>14 DEF S!Inv

LEMMA GoneStays ==
    ASSUME v1 \in LogKinds, v1' = v1, NEW f, v2'[f] = <<>>, S!OfFile(f)' = {}
    PROVE  S!Stored(f)'
<1>1. S!Due(f)' = {}
  BY ParseNext, ParseEmpty DEF S!Due
<1> QED  BY <1>1 DEF S!Stored

\* What the parts of the invariant say of the variables.
LEMMA SourceTypes ==
    ASSUME S!Inv
    PROVE  /\ v1 \in LogKinds /\ v4 \in Nat /\ v10 \in Nat /\ v12 \subseteq LogFiles
           /\ v3 \in [LogFiles -> Nat] /\ v6 \in [LogFiles -> Nat] /\ v7 \in [LogFiles -> Nat]
           /\ DOMAIN v2 = LogFiles /\ v9 \in LogFiles \cup {0} /\ (v8 # "idle" => v9 \in LogFiles)
           /\ v8 \in {"idle", "look", "read", "stat", "store", "mark"}
           /\ S!TypeOK /\ S!Times /\ S!Written /\ S!Apart /\ S!RowsFrom
           /\ S!FilesKept /\ S!HiddenKept /\ S!SidecarKept /\ S!Still
BY SourceFiles DEF S!Inv, S!TypeOK, S!Times, S!Written

\* The files that a step leaves alone are kept as they are.
LEMMA OthersKept ==
    ASSUME S!Inv, NEW f \in LogFiles \ v12, v1' = v1, v2'[f] = v2[f], v3'[f] = v3[f],
           v6'[f] = v6[f], S!OfFile(f)' = S!OfFile(f), SameHidden(f), S!InHand => v9 # f
    PROVE  S!AtRest(f)'
<1>1. S!AtRest(f)
  BY SourceTypes DEF S!FilesKept
<1> QED  BY <1>1, AtRestKept

\* The ids that rows and turns have are still from where they were, when no log
\* changes and no file is excused no more.
LEMMA RowsFromKept ==
    ASSUME S!Inv, v1' = v1, v2' = v2, v3' = v3, v12 \subseteq v12', v5' \subseteq v5,
           v8 = "idle" => v8' = "idle" /\ v6' = v6,
           v8' \in {"stat", "store"} =>
                v8 \in {"stat", "store"} /\ v9' = v9 /\ v11' = v11
    PROVE  S!RowsFrom'
<1>1. S!RowsFrom
  BY SourceTypes
<1>2. ASSUME NEW s \in v5' PROVE S!From(s.file, s.row.id[1])'
  <2>1. S!From(s.file, s.row.id[1])
    BY <1>1 DEF S!RowsFrom
  <2> QED  BY <2>1, FromKept
<1>3. ASSUME v8' \in {"stat", "store"}, NEW i \in DOMAIN v11
      PROVE  S!From(v9, v11[i].id[1])'
  <2>1. S!From(v9, v11[i].id[1]) /\ v8 # "idle"
    BY <1>1, <1>3 DEF S!RowsFrom
  <2> QED  BY <1>3, <2>1, FromKept
<1> QED  BY <1>2, <1>3 DEF S!RowsFrom

LEMMA SourcesMove ==
    ASSUME S!Inv, S!Archive
    PROVE  S!Inv'
<1> USE SourceFiles
<1>1. PICK f \in LogFiles \ ArchivedLogs, g \in ArchivedLogs :
        /\ v3[f] # 0 /\ v3[g] = 0
        /\ v2' = [v2 EXCEPT ![f] = <<>>, ![g] = v2[f]]
        /\ v3' = [v3 EXCEPT ![f] = 0, ![g] = v3[f]]
        /\ v12' = IF v8 # "idle" \/ f \in v12 THEN v12 \cup {f, g} ELSE v12
  BY DEF S!Archive
<1>2. /\ v1 = "codex" /\ v1' = v1 /\ v4' = v4 /\ v5' = v5 /\ v6' = v6 /\ v7' = v7
      /\ v8' = v8 /\ v9' = v9 /\ v10' = v10 /\ v11' = v11 /\ v13' = v13
  BY DEF S!Archive, S!scanner
<1>3. /\ S!TypeOK /\ S!Times /\ S!Written /\ S!Apart /\ S!RowsFrom
      /\ S!FilesKept /\ S!HiddenKept /\ S!Still
  BY SourceTypes
<1>t. /\ v4 \in Nat /\ v3 \in [LogFiles -> Nat] /\ v6 \in [LogFiles -> Nat] /\ v10 \in Nat
      /\ DOMAIN v2 = LogFiles /\ v12 \subseteq LogFiles /\ v1 \in LogKinds
  BY SourceTypes
<1>g. g \in LogFiles /\ ArchivedLogs \subseteq LogFiles /\ f # 0
  BY <1>1, Instances DEF S!SourcesAssumption
<1>4. S!TypeOK'
  BY <1>1, <1>2, <1>3, <1>g DEF S!TypeOK
<1>5. \A h \in LogFiles : h # f /\ h # g => v2'[h] = v2[h] /\ v3'[h] = v3[h]
  BY <1>1, <1>t, <1>g
<1>6. f # g /\ v2'[f] = <<>> /\ v3'[f] = 0 /\ v2'[g] = v2[f] /\ v3'[g] = v3[f] /\ v2[g] = <<>>
  BY <1>1, <1>3, <1>t, <1>g DEF S!Times
<1>7. S!Times'
  <2>1. ASSUME NEW h \in LogFiles PROVE (v3'[h] = 0 => v2'[h] = <<>>) /\ v3'[h] <= v4
    <3>1. CASE h # f /\ h # g
      BY <1>3, <1>5, <3>1 DEF S!Times
    <3>2. CASE h = f
      BY <1>6, <1>t, <3>2
    <3>3. CASE h = g
      BY <1>1, <1>3, <1>6, <3>3 DEF S!Times
    <3> QED  BY <3>1, <3>2, <3>3
  <2>2. \A h \in LogFiles : v6[h] <= v4 /\ v7[h] <= v4
    BY <1>3 DEF S!Times
  <2> QED  BY <1>2, <1>3, <2>1, <2>2 DEF S!Times, S!InHand, S!OfFile, S!HiddenAt
<1>m. /\ \A h \in LogFiles : h # f /\ h # g => S!Marked(h)' = S!Marked(h)
      /\ S!Marked(f)' = {0} /\ S!Marked(g)' = S!Marked(f) /\ S!Marked(f) \subseteq {0, f}
      /\ S!Origins(f)' = {}
  <2>1. \A h \in LogFiles : h # f /\ h # g => S!Origins(h)' = S!Origins(h)
    BY <1>5 DEF S!Origins
  <2>2. S!Origins(g)' = S!Origins(f)
    BY <1>6 DEF S!Origins
  <2>3. S!Origins(f) \subseteq {f}
    BY <1>1, <1>3 DEF S!Written
  <2>4. S!Origins(f)' = {}
    <3>1. DOMAIN v2'[f] = {}
      BY <1>6
    <3> QED  BY <3>1 DEF S!Origins
  <2> QED  BY <1>1, <1>2, <2>1, <2>2, <2>3, <2>4 DEF S!Marked
<1>8. S!Written'
  <2>1. ASSUME NEW h \in LogFiles PROVE v2'[h] \in Seq(S!Entries(v1, h))
    <3>1. S!Entries(v1, f) = S!Entries(v1, g)
      BY <1>2 DEF S!Entries
    <3>2. v2[f] \in Seq(S!Entries(v1, f)) /\ v2[h] \in Seq(S!Entries(v1, h))
      BY <1>3 DEF S!Written
    <3>3. <<>> \in Seq(S!Entries(v1, f))
      OBVIOUS
    <3> QED  BY <1>5, <1>6, <3>1, <3>2, <3>3
  <2>2. DOMAIN v2' = LogFiles
    BY <1>1, <1>t
  <2>3. ASSUME NEW h \in LogFiles \ ArchivedLogs PROVE S!Origins(h)' \subseteq {h}
    <3>1. CASE h = f
      BY <1>m, <3>1
    <3>2. CASE h # f
      <4>1. h # g
        BY <1>1
      <4>2. S!Origins(h)' = S!Origins(h)
        BY <1>5, <3>2, <4>1 DEF S!Origins
      <4> QED  BY <1>3, <4>2 DEF S!Written
    <3> QED  BY <3>1, <3>2
  <2> QED  BY <1>2, <2>1, <2>2, <2>3 DEF S!Written
<1>10. \A h : S!OfFile(h)' = S!OfFile(h)
  BY <1>2 DEF S!OfFile
<1>11. v12 \subseteq v12'
  BY <1>1
<1>9. S!SidecarKept' /\ S!HiddenKept'
  BY <1>2, <1>3, <1>11 DEF S!SidecarKept, S!HiddenKept, S!MayHide
<1>c. S!InHand' = S!InHand
  BY <1>2 DEF S!InHand
<1>s. \A h : SameHidden(h)
  BY <1>2 DEF SameHidden
<1>12. S!FilesKept'
  <2> SUFFICES ASSUME NEW h \in LogFiles \ v12'
               PROVE  IF S!InHand /\ v9 = h THEN S!UnderWay(h)' ELSE S!AtRest(h)'
    BY <1>2, <1>c DEF S!FilesKept
  <2>1. h \in LogFiles \ v12 /\ IF S!InHand /\ v9 = h THEN S!UnderWay(h) ELSE S!AtRest(h)
    BY <1>3, <1>11 DEF S!FilesKept
  <2>2. CASE h # f /\ h # g
    BY <1>2, <1>5, <1>10, <1>s, <2>1, <2>2, UnderWayKept, AtRestKept
  <2>3. CASE h = f
    <3>1. v8 = "idle" /\ ~S!InHand
      BY <1>1, <2>3 DEF S!InHand
    <3>2. S!AtRest(f)
      BY <2>1, <2>3, <3>1
    <3>3. v6[f] = 0 => S!OfFile(f) = {} /\ S!Stored(f)'
      BY <1>2, <1>6, <1>10, <1>t, <3>2, GoneStays DEF S!AtRest
    <3> QED  BY <1>2, <1>6, <1>10, <2>3, <3>1, <3>3 DEF S!AtRest
  <2>4. CASE h = g
    <3>1. v6[g] = 0 /\ ~(S!InHand /\ v9 = g) /\ v3'[g] # 0
      <4>1. v6[g] = 0 /\ (S!InHand /\ v9 = g => v10 = 0)
        BY <1>1, <1>3 DEF S!Still
      <4>2. S!InHand => v10 # 0
        BY <1>3 DEF S!Times
      <4> QED  BY <1>1, <1>6, <4>1, <4>2
    <3>2. S!AtRest(g)
      BY <2>1, <2>4, <3>1
    <3> QED  BY <1>2, <1>10, <2>4, <3>1, <3>2 DEF S!AtRest
  <2> QED  BY <2>2, <2>3, <2>4
<1>13. S!Apart' /\ S!RowsFrom'
  <2>1. S!Apart'
    BY <1>3, <1>g, <1>m DEF S!Apart
  <2>2. ASSUME NEW h \in LogFiles, NEW p, S!From(h, p),
               v8 = "idle" /\ h = f /\ f \notin v12 => v6[f] # 0
        PROVE  S!From(h, p)'
    <3>1. CASE h = f /\ p \in S!Marked(f)
      <4>1. CASE p = 0
        BY <1>m, <3>1, <4>1 DEF S!From
      <4>2. CASE p # 0
        <5>1. p = f /\ p \in S!Marked(g)' /\ ~S!Live(f)'
          BY <1>6, <1>m, <3>1, <4>2 DEF S!Live
        <5>2. ASSUME NEW k \in LogFiles \ v12', p \in S!Marked(k)'
              PROVE  v8 = "idle" /\ v6[f] # 0
          <6>1. k # f
            BY <1>m, <4>2, <5>2
          <6>2. k = g
            <7>1. k # g => S!Marked(k)' = S!Marked(k) /\ S!Marked(k) \cap S!Marked(f) \subseteq {0}
              BY <1>3, <1>m, <6>1 DEF S!Apart
            <7> QED  BY <3>1, <4>2, <5>2, <7>1
          <6>3. v8 = "idle" /\ f \notin v12
            BY <1>1, <5>2, <6>2
          <6> QED  BY <2>2, <3>1, <6>3
        <5> QED  BY <1>2, <1>g, <3>1, <5>1, <5>2 DEF S!From
      <4> QED  BY <4>1, <4>2
    <3>2. CASE h # f /\ p \in S!Marked(h)
      <4>1. h # g => p \in S!Marked(h)'
        BY <1>m, <3>2
      <4>2. S!Marked(g) = {0} /\ 0 \in S!Marked(g)'
        BY <1>2, <1>6, <1>m DEF S!Marked, S!Origins
      <4> QED  BY <3>2, <4>1, <4>2 DEF S!From
    <3>3. CASE p \notin S!Marked(h)
      <4>1. /\ h \notin ArchivedLogs /\ ~S!Live(h) /\ p = h /\ \E k \in LogFiles : p \in S!Marked(k)
            /\ \A k \in LogFiles \ v12 : p \in S!Marked(k) => v8 = "idle" /\ v6[h] # 0
        BY <2>2, <3>3 DEF S!From
      <4>2. h # f
        BY <1>1, <4>1 DEF S!Live
      <4>3. p # 0
        BY <4>1
      <4>4. p \notin S!Marked(f)
        BY <1>m, <4>1, <4>2, <4>3
      <4>5. p \notin S!Marked(g) /\ p \notin S!Marked(g)'
        BY <1>2, <1>6, <1>m, <4>3, <4>4 DEF S!Marked, S!Origins
      <4>6. \A k \in LogFiles : p \in S!Marked(k)' <=> p \in S!Marked(k)
        BY <1>m, <4>3, <4>4, <4>5
      <4>7. h # g => ~S!Live(h)'
        BY <1>5, <4>1, <4>2 DEF S!Live
      <4>8. h # g
        BY <1>1, <4>1
      <4> QED  BY <1>2, <1>11, <4>1, <4>6, <4>7, <4>8 DEF S!From
    <3> QED  BY <3>1, <3>2, <3>3
  <2>3. ASSUME NEW q \in v5 PROVE S!From(q.file, q.row.id[1])'
    <3>1. q.file \in LogFiles /\ S!From(q.file, q.row.id[1])
      BY <1>3 DEF S!TypeOK, S!RowsFrom
    <3>2. v8 = "idle" /\ q.file = f /\ f \notin v12 => v6[f] # 0
      <4> SUFFICES ASSUME v8 = "idle", q.file = f, f \notin v12 PROVE v6[f] # 0
        OBVIOUS
      <4>1. S!AtRest(f)
        BY <1>3 DEF S!FilesKept, S!InHand
      <4>2. q \in S!OfFile(f)
        BY DEF S!OfFile
      <4> QED  BY <4>1, <4>2 DEF S!AtRest
    <3> QED  BY <2>2, <3>1, <3>2
  <2>4. ASSUME v8 \in {"stat", "store"}, NEW i \in DOMAIN v11 PROVE S!From(v9, v11[i].id[1])'
    <3>1. v9 \in LogFiles /\ S!From(v9, v11[i].id[1])
      BY <1>3, <2>4 DEF S!TypeOK, S!Times, S!RowsFrom
    <3>2. v8 # "idle"
      BY <2>4
    <3> QED  BY <1>2, <2>2, <3>1, <3>2
  <2> QED  BY <1>2, <2>1, <2>3, <2>4 DEF S!RowsFrom
<1>14. S!Still'
  <2> SUFFICES ASSUME NEW h \in ArchivedLogs
               PROVE  v6[h] \in {0, v3'[h]} /\ (S!InHand /\ v9 = h => v10 = v3'[h])
    BY <1>2, <1>c DEF S!Still
  <2>1. CASE h # g
    BY <1>1, <1>3, <1>5, <1>g, <2>1 DEF S!Still
  <2>2. CASE h = g
    <3>1. v6[g] = 0 /\ (S!InHand /\ v9 = g => v10 = 0)
      BY <1>1, <1>3 DEF S!Still
    <3>2. S!InHand => v10 # 0
      BY <1>3 DEF S!Times
    <3> QED  BY <2>2, <3>1, <3>2
  <2> QED  BY <2>1, <2>2
<1> QED  BY <1>4, <1>7, <1>8, <1>9, <1>12, <1>13, <1>14 DEF S!Inv

LEMMA SourcesSweep ==
    ASSUME S!Inv, S!Start
    PROVE  S!Inv'
<1> USE SourceFiles
<1> DEFINE stale == {f \in LogFiles : v6[f] # 0 /\ v3[f] = 0}
<1>1. /\ v8 = "idle" /\ v8' = "look" /\ v9' = S!Min(LogFiles) /\ v10' = 0 /\ v11' = S!Nothing
      /\ v5' = {r \in v5 : r.file \notin stale}
      /\ v6' = [f \in LogFiles |-> IF f \in stale THEN 0 ELSE v6[f]]
  BY DEF S!Start, S!Sweep
<1>2. /\ v1' = v1 /\ v2' = v2 /\ v3' = v3 /\ v4' = v4 /\ v7' = v7 /\ v12' = v12
      /\ v13' = v13
  BY DEF S!Start
<1>3. /\ S!TypeOK /\ S!Times /\ S!Written /\ S!Apart /\ S!RowsFrom
      /\ S!HiddenKept /\ S!SidecarKept /\ S!Still
  BY SourceTypes
<1>t. v6 \in [LogFiles -> Nat] /\ v3 \in [LogFiles -> Nat] /\ v4 \in Nat /\ v1 \in LogKinds
  BY SourceTypes
<1>4. v9' \in LogFiles /\ v9' # 0
  BY <1>1, LeastFile
<1>5. ~S!InHand /\ ~S!InHand'
  BY <1>1 DEF S!InHand
<1>6. \A f \in LogFiles : v6'[f] = IF v6[f] # 0 /\ v3[f] = 0 THEN 0 ELSE v6[f]
  BY <1>1
<1>7. S!TypeOK'
  BY <1>1, <1>2, <1>3, <1>4, <1>6 DEF S!TypeOK
<1>8. S!Times'
  BY <1>1, <1>2, <1>3, <1>4, <1>5, <1>6, <1>t DEF S!Times, S!HiddenAt
<1>9. S!Written' /\ S!Apart' /\ S!HiddenKept'
  BY <1>2, <1>3, WrittenKept, ApartKept DEF S!HiddenKept, S!MayHide
<1>s. \A f : SameHidden(f)
  BY <1>2 DEF SameHidden
<1>10. \A f \in LogFiles : S!OfFile(f)' = IF f \in stale THEN {} ELSE S!OfFile(f)
  BY <1>1 DEF S!OfFile
<1>11. S!FilesKept'
  <2> SUFFICES ASSUME NEW f \in LogFiles \ v12 PROVE S!AtRest(f)'
    BY <1>2, <1>5 DEF S!FilesKept
  <2>1. CASE f \in stale
    <3>1. v2'[f] = <<>> /\ S!OfFile(f)' = {}
      BY <1>2, <1>3, <1>10, <2>1 DEF S!Times
    <3> QED  BY <1>2, <1>t, <3>1, GoneStays DEF S!AtRest
  <2>2. CASE f \notin stale
    BY <1>2, <1>5, <1>6, <1>10, <1>s, <2>2, OthersKept
  <2> QED  BY <2>1, <2>2
<1>12. S!SidecarKept'
  BY <1>1, <1>2, <1>3, <1>6 DEF S!SidecarKept, S!Live
<1>13. S!RowsFrom' /\ S!Still'
  <2>1. ASSUME NEW q \in v5' PROVE S!From(q.file, q.row.id[1])'
    <3>1. q \in v5 /\ q.file \in LogFiles /\ q.file \notin stale
      BY <1>1, <1>3 DEF S!TypeOK
    <3>2. S!From(q.file, q.row.id[1])
      BY <1>3, <3>1 DEF S!RowsFrom
    <3>3. CASE q.row.id[1] \in S!Marked(q.file)
      BY <1>2, <3>3, MarkedKept DEF S!From
    <3>4. CASE q.row.id[1] \notin S!Marked(q.file)
      <4>1. /\ v1 = "codex" /\ q.file \notin ArchivedLogs /\ ~S!Live(q.file)
            /\ q.row.id[1] = q.file /\ \E g \in LogFiles : q.row.id[1] \in S!Marked(g)
            /\ \A g \in LogFiles \ v12 : q.row.id[1] \in S!Marked(g) => v6[q.file] # 0
        BY <3>2, <3>4 DEF S!From
      <4>2. v6[q.file] = 0
        BY <3>1, <4>1 DEF S!Live
      <4>3. \A g \in LogFiles \ v12 : q.row.id[1] \notin S!Marked(g)
        BY <4>1, <4>2
      <4>4. ~S!Live(q.file)' /\ \A g : S!Marked(g)' = S!Marked(g)
        BY <1>2, <4>1, MarkedKept DEF S!Live
      <4> HIDE DEF stale
      <4> QED  BY <1>2, <4>1, <4>3, <4>4 DEF S!From
    <3> QED  BY <3>3, <3>4
  <2>2. S!RowsFrom'
    BY <1>1, <2>1 DEF S!RowsFrom
  <2>3. ArchivedLogs \subseteq LogFiles
    BY Instances DEF S!SourcesAssumption
  <2> HIDE DEF stale
  <2> QED  BY <1>2, <1>3, <1>5, <1>6, <2>2, <2>3 DEF S!Still
<1> QED  BY <1>7, <1>8, <1>9, <1>11, <1>12, <1>13 DEF S!Inv

LEMMA SourcesSkip ==
    ASSUME S!Inv, S!Skip
    PROVE  S!Inv'
<1> USE SourceFiles
<1>1. v8 = "look" /\ S!Advance
  BY DEF S!Skip
<1>2. /\ v1' = v1 /\ v2' = v2 /\ v3' = v3 /\ v4' = v4 /\ v5' = v5 /\ v6' = v6 /\ v7' = v7
      /\ v10' = v10 /\ v11' = v11 /\ v12' = v12 /\ v13' = v13
  BY DEF S!Skip
<1>3. /\ S!TypeOK /\ S!Times /\ S!Written /\ S!Apart /\ S!RowsFrom
      /\ S!FilesKept /\ S!HiddenKept /\ S!SidecarKept /\ S!Still
  BY SourceTypes
<1>4. v8' \in {"look", "idle"} /\ v9' \in LogFiles \cup {0} /\ (v8' = "idle" <=> v9' = 0)
  <2>1. v9 \in LogFiles
    BY <1>1, SourceTypes
  <2> QED  BY <1>1, <2>1, AdvanceIs
<1>5. ~S!InHand /\ ~S!InHand'
  BY <1>1, <1>4 DEF S!InHand
<1>6. S!TypeOK'
  BY <1>2, <1>3, <1>4 DEF S!TypeOK
<1>7. S!Times'
  BY <1>2, <1>3, <1>4, <1>5 DEF S!Times, S!HiddenAt
<1>8. S!Written' /\ S!Apart' /\ S!HiddenKept'
  BY <1>2, <1>3, WrittenKept, ApartKept DEF S!HiddenKept, S!MayHide
<1>r. S!RowsFrom'
  BY <1>1, <1>2, <1>4, RowsFromKept
<1>s. \A f : SameHidden(f)
  BY <1>2 DEF SameHidden
<1>9. \A f : S!OfFile(f)' = S!OfFile(f)
  BY <1>2 DEF S!OfFile
<1>10. S!FilesKept'
  BY <1>2, <1>5, <1>9, <1>s, OthersKept DEF S!FilesKept
<1>11. S!SidecarKept'
  BY <1>1, <1>2, <1>3, <1>4 DEF S!SidecarKept, S!Live
<1>12. S!Still'
  BY <1>2, <1>3, <1>5 DEF S!Still
<1> QED  BY <1>6, <1>7, <1>8, <1>r, <1>10, <1>11, <1>12 DEF S!Inv

LEMMA SourcesLook ==
    ASSUME S!Inv, S!Look
    PROVE  S!Inv'
<1> USE SourceFiles
<1>1. /\ v8 = "look" /\ v8' = "read" /\ v3[v9] # 0 /\ v3[v9] # v6[v9] /\ v10' = v3[v9]
      /\ v13' = v13 \ S!HiddenAt(v9)
      /\ v5' = IF v6[v9] # 0 THEN {r \in v5 : r.file # v9} ELSE v5
  BY DEF S!Look
<1>2. /\ v1' = v1 /\ v2' = v2 /\ v3' = v3 /\ v4' = v4 /\ v6' = v6 /\ v7' = v7
      /\ v9' = v9 /\ v11' = v11 /\ v12' = v12
  BY DEF S!Look
<1>3. /\ S!TypeOK /\ S!Times /\ S!Written /\ S!Apart /\ S!RowsFrom
      /\ S!FilesKept /\ S!HiddenKept /\ S!SidecarKept /\ S!Still
  BY SourceTypes
<1>t. /\ v9 \in LogFiles /\ v6 \in [LogFiles -> Nat] /\ v3 \in [LogFiles -> Nat]
      /\ v4 \in Nat /\ v1 \in LogKinds
  BY <1>1, SourceTypes
<1>4. ~S!InHand /\ S!InHand'
  BY <1>1 DEF S!InHand
<1>5. S!TypeOK'
  BY <1>1, <1>2, <1>3, <1>t DEF S!TypeOK, S!HiddenAt
<1>6. \A f \in LogFiles : S!OfFile(f)' = IF f = v9 /\ v6[v9] # 0 THEN {} ELSE S!OfFile(f)
  BY <1>1 DEF S!OfFile
<1>s. (\A f : f # v9 => SameHidden(f)) /\ v13' \subseteq v13 /\ S!HiddenAt(v9)' = {}
  BY <1>1, <1>2 DEF SameHidden, S!HiddenAt
<1>7. S!Times'
  BY <1>1, <1>2, <1>3, <1>6, <1>s, <1>t DEF S!Times
<1>8. S!Written' /\ S!Apart' /\ S!HiddenKept'
  BY <1>2, <1>3, <1>s, WrittenKept, ApartKept DEF S!HiddenKept, S!MayHide
<1>r. S!RowsFrom'
  BY <1>1, <1>2, RowsFromKept
<1>9. S!FilesKept'
  <2> SUFFICES ASSUME NEW f \in LogFiles \ v12
               PROVE  IF v9 = f THEN S!UnderWay(f)' ELSE S!AtRest(f)'
    BY <1>2, <1>4 DEF S!FilesKept
  <2>1. CASE f = v9
    <3>1. S!AtRest(f)
      BY <1>3, <1>4 DEF S!FilesKept
    <3>2. S!OfFile(f)' = {}
      BY <1>6, <2>1, <3>1 DEF S!AtRest
    <3> QED  BY <1>1, <1>2, <2>1, <3>2 DEF S!UnderWay, S!Live
  <2>2. CASE f # v9
    BY <1>2, <1>6, <1>s, <2>2, OthersKept
  <2> QED  BY <2>1, <2>2
<1>10. S!SidecarKept'
  BY <1>1, <1>2, <1>3 DEF S!SidecarKept, S!Live
<1>11. S!Still'
  BY <1>1, <1>2, <1>3 DEF S!Still
<1> QED  BY <1>5, <1>7, <1>8, <1>r, <1>9, <1>10, <1>11 DEF S!Inv

LEMMA SourcesCached ==
    ASSUME S!Inv, S!ReadCached
    PROVE  S!Inv'
<1> USE SourceFiles
<1>1. v8 = "read" /\ v8' = "store" /\ v11' = S!Nothing /\ v1 = "cursor" /\ v7[v9] = v3[v9] /\ v7[v9] # 0
  BY DEF S!ReadCached, S!IsCacheFresh
<1>2. /\ v1' = v1 /\ v2' = v2 /\ v3' = v3 /\ v4' = v4 /\ v5' = v5 /\ v6' = v6 /\ v7' = v7
      /\ v9' = v9 /\ v10' = v10 /\ v12' = v12 /\ v13' = v13
  BY DEF S!ReadCached
<1>3. /\ S!TypeOK /\ S!Times /\ S!Written /\ S!Apart /\ S!RowsFrom
      /\ S!FilesKept /\ S!HiddenKept /\ S!SidecarKept /\ S!Still
  BY SourceTypes
<1>t. v9 \in LogFiles
  BY <1>1, SourceTypes
<1>4. S!InHand /\ S!InHand'
  BY <1>1 DEF S!InHand
<1>5. v9 \in v12
  <2> SUFFICES ASSUME v9 \notin v12 PROVE FALSE
    OBVIOUS
  <2>1. v3[v9] # 0 /\ v6[v9] # v3[v9]
    BY <1>3, <1>4, <1>t DEF S!FilesKept, S!UnderWay, S!Live
  <2> QED  BY <1>1, <1>3, <1>t, <2>1 DEF S!SidecarKept, S!Live
<1>6. S!TypeOK'
  BY <1>1, <1>2, <1>3 DEF S!TypeOK
<1>7. S!Times'
  BY <1>1, <1>2, <1>3, <1>4 DEF S!Times, S!HiddenAt
<1>8. S!Written' /\ S!Apart' /\ S!HiddenKept'
  BY <1>2, <1>3, WrittenKept, ApartKept DEF S!HiddenKept, S!MayHide
<1>r. S!RowsFrom'
  <2>1. \A q \in v5 : S!From(q.file, q.row.id[1])'
    BY <1>1, <1>2, <1>3, FromKept DEF S!RowsFrom
  <2> QED  BY <1>1, <1>2, <2>1, NothingIs DEF S!RowsFrom
<1>s. \A f : SameHidden(f)
  BY <1>2 DEF SameHidden
<1>9. \A f : S!OfFile(f)' = S!OfFile(f)
  BY <1>2 DEF S!OfFile
<1>10. S!FilesKept'
  BY <1>2, <1>5, <1>9, <1>s, OthersKept DEF S!FilesKept
<1>11. S!SidecarKept' /\ S!Still'
  BY <1>1, <1>2, <1>3, <1>4, <1>5 DEF S!SidecarKept, S!Still, S!Live
<1> QED  BY <1>6, <1>7, <1>8, <1>r, <1>10, <1>11 DEF S!Inv

LEMMA SourcesRead ==
    ASSUME S!Inv, S!Read
    PROVE  S!Inv'
<1> USE SourceFiles
<1>1. /\ v8 = "read" /\ ~S!IsCacheFresh(v9) /\ v11' = S!Parse(v9, v2[v9])
      /\ v8' = IF v1 = "cursor" THEN "stat" ELSE "store"
      /\ v12' = IF v6[v9] # 0 /\ v10 = v3[v9] THEN v12 \ {v9} ELSE v12
  BY DEF S!Read
<1>2. /\ v1' = v1 /\ v2' = v2 /\ v3' = v3 /\ v4' = v4 /\ v5' = v5 /\ v6' = v6 /\ v7' = v7
      /\ v9' = v9 /\ v10' = v10 /\ v13' = v13
  BY DEF S!Read
<1>3. /\ S!TypeOK /\ S!Times /\ S!Written /\ S!Apart /\ S!RowsFrom
      /\ S!FilesKept /\ S!HiddenKept /\ S!SidecarKept /\ S!Still
  BY SourceTypes
<1>t. v9 \in LogFiles /\ v1 \in LogKinds /\ v6 \in [LogFiles -> Nat] /\ v3 \in [LogFiles -> Nat]
  BY <1>1, SourceTypes
<1>4. S!InHand /\ S!InHand' /\ v8' \in {"stat", "store"}
  BY <1>1 DEF S!InHand
<1>5. S!TypeOK'
  BY <1>1, <1>2, <1>3 DEF S!TypeOK
<1>6. S!Times'
  BY <1>1, <1>2, <1>3, <1>4 DEF S!Times, S!HiddenAt
<1>7. S!Written' /\ S!Apart'
  BY <1>2, <1>3, WrittenKept, ApartKept
<1>s. \A f : SameHidden(f)
  BY <1>2 DEF SameHidden
<1>8. \A f : S!OfFile(f)' = S!OfFile(f)
  BY <1>2 DEF S!OfFile
<1>9. \A f \in LogFiles : f # v9 /\ f \notin v12' => f \notin v12
  BY <1>1
<1>a. v6[v9] # v10 /\ v10 # 0 /\ (v6[v9] # 0 => S!OfFile(v9) = {})
  BY <1>1, <1>3, <1>4 DEF S!Times
<1>10. S!FilesKept'
  <2> SUFFICES ASSUME NEW f \in LogFiles \ v12'
               PROVE  IF v9 = f THEN S!UnderWay(f)' ELSE S!AtRest(f)'
    BY <1>2, <1>4 DEF S!FilesKept
  <2>1. CASE f = v9
    <3>1. v3[f] # 0 /\ v6[f] # v3[f] /\ S!OfFile(f) = {}
      <4>1. CASE f \notin v12
        <5>1. S!UnderWay(f)
          BY <1>3, <1>4, <2>1, <4>1 DEF S!FilesKept
        <5> QED  BY <1>1, <5>1 DEF S!UnderWay, S!Live
      <4>2. CASE f \in v12
        <5>1. v6[f] # 0 /\ v10 = v3[f]
          BY <1>1, <2>1, <4>2
        <5> QED  BY <1>a, <2>1, <5>1
      <4> QED  BY <4>1, <4>2
    <3>2. v11' = S!Parse(f, v2[f])'
      BY <1>1, <1>2, <2>1, ParseNext
    <3> QED  BY <1>2, <1>4, <1>8, <2>1, <3>1, <3>2 DEF S!UnderWay, S!Live
  <2>2. CASE f # v9
    BY <1>2, <1>8, <1>9, <1>s, <2>2, OthersKept
  <2> QED  BY <2>1, <2>2
<1>11. S!SidecarKept'
  <2> SUFFICES ASSUME v1 = "cursor", NEW f \in LogFiles \ v12'
               PROVE  /\ v3[f] # 0 /\ v7[f] = v3[f] => v6[f] = v3[f]
                      /\ v9 = f => v10 = v3[f]
    BY <1>2, <1>4 DEF S!SidecarKept, S!Live
  <2>1. CASE f # v9
    BY <1>1, <1>3, <1>9, <2>1 DEF S!SidecarKept, S!Live
  <2>2. CASE f = v9
    <3>1. ~(v3[f] # 0 /\ v7[f] = v3[f])
      BY <1>1, <2>2 DEF S!IsCacheFresh
    <3>2. v10 = v3[f]
      BY <1>1, <1>3, <2>2 DEF S!SidecarKept
    <3> QED  BY <3>1, <3>2
  <2> QED  BY <2>1, <2>2
<1>12. S!HiddenKept' /\ S!Still'
  <2>1. S!HiddenAt(v9) = {}
    BY <1>1, <1>3 DEF S!Times
  <2> QED  BY <1>1, <1>2, <1>3, <1>4, <2>1 DEF S!HiddenKept, S!MayHide, S!HiddenAt, S!Still
<1>13. S!RowsFrom'
  <2>1. \A g : S!Marked(g)' = S!Marked(g) /\ (S!Live(g)' <=> S!Live(g))
    BY <1>2, MarkedKept DEF S!Live
  \* A log whose excuse ends here is not in the archive: that one would be marked
  \* with its time.
  <2>2. v9 \in v12 /\ v9 \notin v12' => v9 \notin ArchivedLogs
    BY <1>1, <1>3, <1>4, <1>a DEF S!Still
  <2>3. ASSUME NEW f, NEW p, S!From(f, p) PROVE S!From(f, p)'
    <3>1. CASE p \in S!Marked(f)
      BY <2>1, <3>1 DEF S!From
    <3>2. CASE p \notin S!Marked(f)
      <4>1. /\ v1 = "codex" /\ f \notin ArchivedLogs /\ ~S!Live(f) /\ p = f
            /\ \E g \in LogFiles : p \in S!Marked(g)
            /\ \A g \in LogFiles \ v12 : p \notin S!Marked(g)
        BY <1>1, <2>3, <3>2 DEF S!From
      <4>2. v9 \notin ArchivedLogs => p \notin S!Marked(v9)
        <5> SUFFICES ASSUME v9 \notin ArchivedLogs, p \in S!Marked(v9) PROVE FALSE
          OBVIOUS
        <5>1. p \in {0, v9}
          BY <1>3, <1>t, <4>1 DEF S!Written, S!Marked
        <5>2. 0 \in S!Marked(f)
          BY <4>1 DEF S!Marked
        <5> QED  BY <3>2, <4>1, <5>1, <5>2
      <4>3. \A g \in LogFiles \ v12' : p \notin S!Marked(g)
        BY <1>9, <2>2, <4>1, <4>2
      <4> QED  BY <1>2, <2>1, <4>1, <4>3 DEF S!From
    <3> QED  BY <3>1, <3>2
  <2>4. (\A i \in DOMAIN v11 : S!From(v9, v11[i].id[1]))'
    <3>1. \A i \in DOMAIN v11' : v11'[i].id[1] \in S!Marked(v9)
      BY <1>1, <1>3, <1>t, ParseFrom
    <3> QED  BY <1>2, <2>1, <3>1 DEF S!From
  <2> QED  BY <1>2, <1>3, <2>3, <2>4 DEF S!RowsFrom
<1> QED  BY <1>5, <1>6, <1>7, <1>10, <1>11, <1>12, <1>13 DEF S!Inv

LEMMA SourcesUnreadable ==
    ASSUME S!Inv, S!Unreadable
    PROVE  S!Inv'
<1> USE SourceFiles
<1>1. /\ v8 = "read" /\ v11' = S!Nothing
      /\ v8' = IF v1 = "cursor" THEN "stat" ELSE "store"
      /\ v12' = v12 \cup {v9}
  BY DEF S!Unreadable
<1>2. /\ v1' = v1 /\ v2' = v2 /\ v3' = v3 /\ v4' = v4 /\ v5' = v5 /\ v6' = v6 /\ v7' = v7
      /\ v9' = v9 /\ v10' = v10 /\ v13' = v13
  BY DEF S!Unreadable
<1>3. /\ S!TypeOK /\ S!Times /\ S!Written /\ S!Apart /\ S!RowsFrom
      /\ S!FilesKept /\ S!HiddenKept /\ S!SidecarKept /\ S!Still
  BY SourceTypes
<1>t. v9 \in LogFiles
  BY <1>1, SourceTypes
<1>4. S!InHand /\ S!InHand' /\ v8' \in {"stat", "store"}
  BY <1>1 DEF S!InHand
<1>5. S!TypeOK'
  BY <1>1, <1>2, <1>3, <1>t DEF S!TypeOK
<1>6. S!Times'
  BY <1>1, <1>2, <1>3, <1>4 DEF S!Times, S!HiddenAt
<1>7. S!Written' /\ S!Apart' /\ S!HiddenKept'
  BY <1>1, <1>2, <1>3, WrittenKept, ApartKept DEF S!HiddenKept, S!MayHide
<1>r. S!RowsFrom'
  <2>1. \A q \in v5 : S!From(q.file, q.row.id[1])'
    BY <1>1, <1>2, <1>3, FromKept DEF S!RowsFrom
  <2> QED  BY <1>1, <1>2, <2>1, NothingIs DEF S!RowsFrom
<1>s. \A f : SameHidden(f)
  BY <1>2 DEF SameHidden
<1>8. \A f : S!OfFile(f)' = S!OfFile(f)
  BY <1>2 DEF S!OfFile
<1>9. S!FilesKept'
  BY <1>1, <1>2, <1>8, <1>s, OthersKept DEF S!FilesKept
<1>10. S!SidecarKept'
  BY <1>1, <1>2, <1>3 DEF S!SidecarKept, S!Live
<1>11. S!Still'
  BY <1>2, <1>3, <1>4 DEF S!Still
<1> QED  BY <1>5, <1>6, <1>7, <1>r, <1>9, <1>10, <1>11 DEF S!Inv

LEMMA SourcesSave ==
    ASSUME S!Inv, S!SaveCache
    PROVE  S!Inv'
<1> USE SourceFiles
<1>1. v8 = "stat" /\ v8' = "store" /\ v7' = [v7 EXCEPT ![v9] = v3[v9]]
  BY DEF S!SaveCache
<1>2. /\ v1' = v1 /\ v2' = v2 /\ v3' = v3 /\ v4' = v4 /\ v5' = v5 /\ v6' = v6
      /\ v9' = v9 /\ v10' = v10 /\ v11' = v11 /\ v12' = v12 /\ v13' = v13
  BY DEF S!SaveCache
<1>3. /\ S!TypeOK /\ S!Times /\ S!Written /\ S!Apart /\ S!RowsFrom
      /\ S!FilesKept /\ S!HiddenKept /\ S!SidecarKept /\ S!Still
  BY SourceTypes
<1>t. v9 \in LogFiles /\ v7 \in [LogFiles -> Nat] /\ v3 \in [LogFiles -> Nat] /\ v4 \in Nat
  BY <1>1, SourceTypes
<1>4. S!InHand /\ S!InHand' /\ v1 = "cursor"
  BY <1>1, <1>3 DEF S!InHand, S!Times
<1>5. S!TypeOK'
  BY <1>1, <1>2, <1>3, <1>t DEF S!TypeOK
<1>6. \A f \in LogFiles : v7'[f] = IF f = v9 THEN v3[f] ELSE v7[f]
  BY <1>1, <1>t
<1>7. S!Times'
  BY <1>1, <1>2, <1>3, <1>4, <1>6 DEF S!Times, S!HiddenAt
<1>8. S!Written' /\ S!Apart' /\ S!HiddenKept'
  BY <1>2, <1>3, WrittenKept, ApartKept DEF S!HiddenKept, S!MayHide
<1>r. S!RowsFrom'
  BY <1>1, <1>2, RowsFromKept
<1>s. \A f : SameHidden(f)
  BY <1>2 DEF SameHidden
<1>9. \A f : S!OfFile(f)' = S!OfFile(f)
  BY <1>2 DEF S!OfFile
<1>10. S!FilesKept'
  <2> SUFFICES ASSUME NEW f \in LogFiles \ v12
               PROVE  IF v9 = f THEN S!UnderWay(f)' ELSE S!AtRest(f)'
    BY <1>2, <1>4 DEF S!FilesKept
  <2>1. CASE f = v9
    <3>1. S!UnderWay(f)
      BY <1>3, <1>4, <2>1 DEF S!FilesKept
    <3>2. S!Parse(f, v2[f])' = S!Parse(f, v2[f])
      BY <1>2, ParseNext
    <3>3. v11 = S!Parse(f, v2[f]) \/ v10 # v3[f]
      BY <1>1, <3>1 DEF S!UnderWay
    <3>4. S!OfFile(f)' = {}
      BY <1>1, <1>9, <3>1 DEF S!UnderWay
    <3>5. S!Live(f)' /\ v6'[f] # v3'[f]
      BY <1>2, <3>1 DEF S!UnderWay, S!Live
    <3>6. v10' = v3'[f] => v11' = S!Parse(f, v2[f])'
      BY <1>2, <3>2, <3>3
    <3> QED  BY <1>1, <2>1, <3>4, <3>5, <3>6 DEF S!UnderWay
  <2>2. CASE f # v9
    BY <1>2, <1>9, <1>s, <2>2, OthersKept
  <2> QED  BY <2>1, <2>2
<1>11. S!SidecarKept'
  BY <1>1, <1>2, <1>3, <1>4, <1>6 DEF S!SidecarKept, S!Live
<1>12. S!Still'
  BY <1>2, <1>3, <1>4 DEF S!Still
<1> QED  BY <1>5, <1>7, <1>8, <1>r, <1>10, <1>11, <1>12 DEF S!Inv

LEMMA SourcesStore ==
    ASSUME S!Inv, S!Store
    PROVE  S!Inv'
<1> USE SourceFiles
<1> DEFINE new == {r \in S!FirstOf(v11) : \A s \in v5 : s.row.id # r.id}
<1>1. /\ v8 = "store" /\ v8' = "mark"
      /\ v5' = v5 \cup {[row |-> r, file |-> v9] : r \in new}
      /\ v13' = v13 \cup ({v9} \X S!TakenIds)
  BY DEF S!Store, S!InsertTurns
<1>2. /\ v1' = v1 /\ v2' = v2 /\ v3' = v3 /\ v4' = v4 /\ v6' = v6 /\ v7' = v7
      /\ v9' = v9 /\ v10' = v10 /\ v11' = v11 /\ v12' = v12
  BY DEF S!Store
<1>3. /\ S!TypeOK /\ S!Times /\ S!Written /\ S!Apart /\ S!RowsFrom
      /\ S!FilesKept /\ S!HiddenKept /\ S!SidecarKept /\ S!Still
  BY SourceTypes
<1>t. v9 \in LogFiles
  BY <1>1, SourceTypes
<1>4. S!InHand /\ S!InHand'
  BY <1>1 DEF S!InHand
<1>a. \A s \in v5' : s \in v5 \/ (s.file = v9 /\ s.row \in new)
  BY <1>1
<1>b. \A r \in new : \E i \in DOMAIN v11 : r = v11[i]
  BY DEF S!FirstOf
<1>s. /\ \A f : f # v9 => SameHidden(f)
      /\ \A h \in v13' : h \in v13 \/ (h[1] = v9 /\ h[2] \in S!TakenIds)
  BY <1>1 DEF SameHidden
<1>5. S!TypeOK'
  <2>1. \A h \in v13' : h[1] \in LogFiles
    BY <1>3, <1>s, <1>t DEF S!TypeOK
  <2>2. \A q \in v5' : q.file \in LogFiles
    BY <1>3, <1>a, <1>t DEF S!TypeOK
  <2> HIDE DEF new
  <2> QED  BY <1>1, <1>2, <1>3, <2>1, <2>2 DEF S!TypeOK
<1>6. S!Times'
  BY <1>1, <1>2, <1>3, <1>4 DEF S!Times
<1>7. S!Written' /\ S!Apart' /\ S!RowsFrom'
  <2>1. \A q \in v5 : S!From(q.file, q.row.id[1])'
    BY <1>1, <1>2, <1>3, FromKept DEF S!RowsFrom
  <2>2. \A r \in new : S!From(v9, r.id[1])'
    <3> SUFFICES ASSUME NEW r \in new PROVE S!From(v9, r.id[1])'
      OBVIOUS
    <3>1. S!From(v9, r.id[1])
      BY <1>1, <1>3, <1>b DEF S!RowsFrom
    <3> HIDE DEF new
    <3> QED  BY <1>1, <1>2, <3>1, FromKept
  <2>3. \A q \in v5' : S!From(q.file, q.row.id[1])'
    <3> HIDE DEF new
    <3> QED  BY <1>2, <1>a, <2>1, <2>2
  <2>4. v8' = "mark"
    BY <1>1
  <2> HIDE DEF new
  <2> QED  BY <1>2, <1>3, <2>3, <2>4, WrittenKept, ApartKept DEF S!RowsFrom
<1>8. \A f : f # v9 => S!OfFile(f)' = S!OfFile(f)
  BY <1>1 DEF S!OfFile
<1>9. S!OfFile(v9)' = S!OfFile(v9) \cup {[row |-> r, file |-> v9] : r \in new}
  <2>1. S!OfFile(v9)' = {s \in v5' : s.file = v9}
    BY <1>2 DEF S!OfFile
  <2>2. \A r \in new : [row |-> r, file |-> v9].file = v9
    OBVIOUS
  <2> HIDE DEF new
  <2> QED  BY <1>1, <2>1, <2>2 DEF S!OfFile
<1>10. S!FilesKept'
  <2> SUFFICES ASSUME NEW f \in LogFiles \ v12
               PROVE  IF v9 = f THEN S!UnderWay(f)' ELSE S!AtRest(f)'
    BY <1>2, <1>4 DEF S!FilesKept
  <2>1. CASE f = v9
    <3>1. S!UnderWay(f) /\ S!OfFile(v9) = {}
      BY <1>1, <1>3, <1>4, <2>1 DEF S!FilesKept, S!UnderWay
    <3>2. \A q \in v5 : q.file # v9
      BY <3>1 DEF S!OfFile
    <3> DEFINE kept == {r \in S!FirstOf(v11) : <<v9, r.id>> \notin v13'}
    <3>3. new = kept
      <4>1. \A x : <<v9, x>> \notin v13
        BY <1>1, <1>3 DEF S!Times, S!HiddenAt
      <4>2. \A x : <<v9, x>> \in v13' <=> x \in S!TakenIds
        BY <1>1, <4>1
      <4>3. ASSUME NEW r \in S!FirstOf(v11)
            PROVE  r.id \in S!TakenIds <=> \E q \in v5 : q.row.id = r.id
        BY <3>2 DEF S!TakenIds
      <4> QED  BY <4>2, <4>3
    <3>4. S!OfFile(v9)' = {[row |-> r, file |-> v9] : r \in kept}
      BY <1>9, <3>1, <3>3
    <3>5. {q.row : q \in S!OfFile(v9)'} = kept
      <4>1. \A r \in kept : [row |-> r, file |-> v9].row = r
        OBVIOUS
      <4> HIDE DEF kept
      <4>2. ASSUME NEW x \in {q.row : q \in S!OfFile(v9)'} PROVE x \in kept
        <5>1. PICK q \in S!OfFile(v9)' : x = q.row
          OBVIOUS
        <5>2. PICK r \in kept : q = [row |-> r, file |-> v9]
          BY <3>4
        <5> QED  BY <4>1, <5>1, <5>2
      <4>3. ASSUME NEW r \in kept PROVE r \in {q.row : q \in S!OfFile(v9)'}
        <5>1. [row |-> r, file |-> v9] \in S!OfFile(v9)'
          BY <3>4
        <5> QED  BY <4>1, <5>1
      <4> QED  BY <4>2, <4>3
    <3>6. v10 = v3[f] => S!Stored(f)'
      <4> SUFFICES ASSUME v10 = v3[f] PROVE S!Stored(f)'
        OBVIOUS
      <4>1. v11 = S!Parse(f, v2[f])'
        BY <1>1, <1>2, <3>1, ParseNext DEF S!UnderWay
      <4>2. S!Due(f)' = S!FirstOf(v11)
        BY <4>1 DEF S!Due
      <4>3. S!OfFile(f)' = S!OfFile(v9)' /\ f = v9
        BY <1>2, <2>1
      <4> QED  BY <3>5, <4>2, <4>3 DEF S!Stored
    <3>7. S!Live(f)' /\ v6'[f] # v3'[f]
      BY <1>2, <3>1 DEF S!UnderWay, S!Live
    <3>8. v10' = v3'[f] => S!Stored(f)'
      BY <1>2, <3>6
    <3> QED  BY <1>1, <2>1, <3>7, <3>8 DEF S!UnderWay
  <2>2. CASE f # v9
    BY <1>2, <1>8, <1>s, <2>2, OthersKept
  <2> QED  BY <2>1, <2>2
<1>11. S!SidecarKept'
  BY <1>1, <1>2, <1>3 DEF S!SidecarKept, S!Live
<1>12. S!Still'
  BY <1>2, <1>3, <1>4 DEF S!Still
<1>13. S!HiddenKept'
  <2> SUFFICES ASSUME NEW h \in v13', h[1] \notin v12 PROVE S!MayHide(h)
    BY <1>2 DEF S!HiddenKept, S!MayHide
  <2>1. CASE h \in v13
    BY <1>3, <2>1 DEF S!HiddenKept
  <2>2. CASE h[1] = v9 /\ h[2] \in S!TakenIds
    <3>1. PICK r \in S!FirstOf(v11), q \in v5 : r.id = h[2] /\ q.file # v9 /\ q.row.id = r.id
      BY <2>2 DEF S!TakenIds
    <3> DEFINE p == h[2][1]
    <3>2. S!From(v9, p)
      <4>1. PICK i \in DOMAIN v11 : r = v11[i]
        BY <3>1 DEF S!FirstOf
      <4> QED  BY <1>1, <1>3, <3>1, <4>1 DEF S!RowsFrom
    <3>3. S!From(q.file, p) /\ q.file \in LogFiles
      BY <1>3, <3>1 DEF S!RowsFrom, S!TypeOK
    <3>4. S!Live(v9)
      BY <1>3, <1>4, <1>t, <2>2 DEF S!FilesKept, S!UnderWay
    <3> HIDE DEF p
    <3>5. p \in S!Marked(v9)
      BY <3>2, <3>4 DEF S!From
    <3>6. p \in S!Marked(q.file)
      BY <1>1, <1>t, <2>2, <3>3, <3>5 DEF S!From
    <3>7. p = 0
      BY <1>3, <1>t, <3>1, <3>3, <3>5, <3>6 DEF S!Apart
    <3>8. v1 \in {"codex", "opencode"}
      BY <1>t, <3>5, <3>7, SourceFiles DEF S!Marked
    <3> QED  BY <3>7, <3>8 DEF S!MayHide, p
  <2> QED  BY <1>s, <2>1, <2>2
<1> QED  BY <1>5, <1>6, <1>7, <1>10, <1>11, <1>12, <1>13 DEF S!Inv

LEMMA SourcesMark ==
    ASSUME S!Inv, S!Mark
    PROVE  S!Inv'
<1> USE SourceFiles
<1>1. v8 = "mark" /\ v6' = [v6 EXCEPT ![v9] = v10] /\ v10' = 0 /\ S!Advance
  BY DEF S!Mark
<1>2. /\ v1' = v1 /\ v2' = v2 /\ v3' = v3 /\ v4' = v4 /\ v5' = v5 /\ v7' = v7 /\ v12' = v12
      /\ v13' = v13
  BY DEF S!Mark
<1>3. /\ S!TypeOK /\ S!Times /\ S!Written /\ S!Apart /\ S!RowsFrom
      /\ S!FilesKept /\ S!HiddenKept /\ S!SidecarKept /\ S!Still
  BY SourceTypes
<1>t. v9 \in LogFiles /\ v6 \in [LogFiles -> Nat] /\ v10 \in Nat /\ v4 \in Nat
  BY <1>1, SourceTypes
<1>4. v8' \in {"look", "idle"} /\ v9' \in LogFiles \cup {0} /\ (v8' = "idle" <=> v9' = 0)
  BY <1>1, <1>t, AdvanceIs
<1>5. S!InHand /\ ~S!InHand'
  BY <1>1, <1>4 DEF S!InHand
<1>6. \A f \in LogFiles : v6'[f] = IF f = v9 THEN v10 ELSE v6[f]
  BY <1>1, <1>t
<1>7. S!TypeOK'
  BY <1>1, <1>2, <1>3, <1>4, <1>6, <1>t DEF S!TypeOK
<1>8. S!Times'
  BY <1>1, <1>2, <1>3, <1>4, <1>5, <1>6, <1>t DEF S!Times, S!HiddenAt
<1>9. S!Written' /\ S!Apart' /\ S!HiddenKept'
  BY <1>2, <1>3, WrittenKept, ApartKept DEF S!HiddenKept, S!MayHide
<1>r. S!RowsFrom'
  BY <1>1, <1>2, <1>4, RowsFromKept
<1>s. \A f : SameHidden(f)
  BY <1>2 DEF SameHidden
<1>10. \A f : S!OfFile(f)' = S!OfFile(f)
  BY <1>2 DEF S!OfFile
<1>11. S!FilesKept'
  <2> SUFFICES ASSUME NEW f \in LogFiles \ v12 PROVE S!AtRest(f)'
    BY <1>2, <1>5 DEF S!FilesKept
  <2>1. CASE f = v9
    <3>1. S!UnderWay(f)
      BY <1>3, <1>5, <2>1 DEF S!FilesKept
    <3>2. v10 # 0 /\ v6'[f] = v10
      BY <1>3, <1>5, <1>6, <2>1 DEF S!Times
    <3>3. v10 = v3[f] => S!Stored(f)'
      BY <1>1, <1>2, <1>10, <1>s, <3>1, StoredKept DEF S!UnderWay
    <3> QED  BY <1>2, <3>2, <3>3 DEF S!AtRest
  <2>2. CASE f # v9
    BY <1>2, <1>6, <1>10, <1>s, <2>2, OthersKept
  <2> QED  BY <2>1, <2>2
<1>12. S!SidecarKept'
  <2> SUFFICES ASSUME v1 = "cursor", NEW f \in LogFiles \ v12, v3[f] # 0, v7[f] = v3[f]
               PROVE  v6'[f] = v3[f]
    BY <1>2, <1>4 DEF S!SidecarKept, S!Live
  <2>1. v6[f] = v3[f] \/ (v9 = f /\ v10 = v3[f])
    BY <1>3 DEF S!SidecarKept, S!Live
  <2>2. v9 = f => v6[f] # v3[f]
    BY <1>3, <1>5 DEF S!FilesKept, S!UnderWay
  <2> QED  BY <1>6, <2>1, <2>2
<1>13. S!Still'
  <2>1. ArchivedLogs \subseteq LogFiles
    BY Instances DEF S!SourcesAssumption
  <2> QED  BY <1>2, <1>3, <1>5, <1>6, <2>1 DEF S!Still
<1> QED  BY <1>7, <1>8, <1>9, <1>r, <1>11, <1>12, <1>13 DEF S!Inv

LEMMA SourcesCrash ==
    ASSUME S!Inv, S!Crash
    PROVE  S!Inv'
<1> USE SourceFiles
<1>1. /\ v8 # "idle" /\ v8' = "idle" /\ v9' = 0 /\ v10' = 0
      /\ v12' = IF v8 # "look" /\ (v1 = "cursor" \/ (v8 = "mark" /\ v6[v9] = 0))
                THEN v12 \cup {v9} ELSE v12
  BY DEF S!Crash
<1>2. /\ v1' = v1 /\ v2' = v2 /\ v3' = v3 /\ v4' = v4 /\ v5' = v5 /\ v6' = v6 /\ v7' = v7
      /\ v13' = v13
  BY DEF S!Crash
<1>3. /\ S!TypeOK /\ S!Times /\ S!Written /\ S!Apart /\ S!RowsFrom
      /\ S!FilesKept /\ S!HiddenKept /\ S!SidecarKept /\ S!Still
  BY SourceTypes
<1>t. v9 \in LogFiles /\ v8 \in {"look", "read", "stat", "store", "mark"} /\ v4 \in Nat
  BY <1>1, SourceTypes
<1>4. (S!InHand <=> v8 # "look") /\ ~S!InHand' /\ v12 \subseteq v12'
  BY <1>1, <1>t DEF S!InHand
<1>5. S!TypeOK'
  BY <1>1, <1>2, <1>3, <1>t DEF S!TypeOK
<1>6. S!Times'
  BY <1>1, <1>2, <1>3, <1>4, <1>t DEF S!Times, S!HiddenAt
<1>7. S!Written' /\ S!Apart' /\ S!HiddenKept'
  BY <1>2, <1>3, <1>4, WrittenKept, ApartKept DEF S!HiddenKept, S!MayHide
<1>r. S!RowsFrom'
  BY <1>1, <1>2, <1>4, RowsFromKept
<1>s. \A f : SameHidden(f)
  BY <1>2 DEF SameHidden
<1>8. \A f : S!OfFile(f)' = S!OfFile(f)
  BY <1>2 DEF S!OfFile
<1>9. S!FilesKept'
  <2> SUFFICES ASSUME NEW f \in LogFiles \ v12' PROVE S!AtRest(f)'
    BY <1>4 DEF S!FilesKept
  <2>1. f \in LogFiles \ v12
    BY <1>4
  <2>2. CASE S!InHand /\ f = v9
    <3>1. S!UnderWay(f)
      BY <1>3, <2>1, <2>2 DEF S!FilesKept
    <3>2. v6[f] = 0 => S!OfFile(f) = {}
      BY <1>1, <1>4, <1>t, <2>2, <3>1 DEF S!UnderWay
    <3>3. v6[f] # v3[f]
      BY <3>1 DEF S!UnderWay
    <3> QED  BY <1>2, <1>8, <3>2, <3>3 DEF S!AtRest
  <2>3. CASE ~(S!InHand /\ f = v9)
    BY <1>2, <1>8, <1>s, <2>1, <2>3, OthersKept
  <2> QED  BY <2>2, <2>3
<1>10. S!SidecarKept'
  <2> SUFFICES ASSUME v1 = "cursor", NEW f \in LogFiles \ v12', v3[f] # 0, v7[f] = v3[f]
               PROVE  v6[f] = v3[f]
    BY <1>1, <1>2 DEF S!SidecarKept, S!Live
  <2>1. f \notin v12 /\ (v8 # "look" => f # v9)
    BY <1>1, <1>4
  <2> QED  BY <1>3, <2>1 DEF S!SidecarKept, S!Live
<1>11. S!Still'
  BY <1>2, <1>3, <1>4 DEF S!Still
<1> QED  BY <1>5, <1>6, <1>7, <1>r, <1>9, <1>10, <1>11 DEF S!Inv

LEMMA SourcesReset ==
    ASSUME S!Inv, S!Reset
    PROVE  S!Inv'
<1> USE SourceFiles
<1>1. /\ v8 = "idle" /\ v5' = {} /\ v6' = [f \in LogFiles |-> 0]
      /\ v12' = (IF v1 = "cursor" THEN LogFiles ELSE {}) /\ v13' = {}
  BY DEF S!Reset
<1>2. /\ v1' = v1 /\ v2' = v2 /\ v3' = v3 /\ v4' = v4 /\ v7' = v7 /\ v8' = v8
      /\ v9' = v9 /\ v10' = v10 /\ v11' = v11
  BY DEF S!Reset
<1>3. /\ S!TypeOK /\ S!Times /\ S!Written /\ S!Apart /\ S!RowsFrom
      /\ S!FilesKept /\ S!HiddenKept /\ S!SidecarKept /\ S!Still
  BY SourceTypes
<1>t. v4 \in Nat /\ v1 \in LogKinds /\ v12 \subseteq LogFiles
  BY SourceTypes
<1>4. ~S!InHand /\ ~S!InHand'
  BY <1>1, <1>2 DEF S!InHand
<1>5. S!TypeOK'
  BY <1>1, <1>2, <1>3, <1>t DEF S!TypeOK
<1>6. S!Times'
  BY <1>1, <1>2, <1>3, <1>4, <1>t DEF S!Times, S!HiddenAt
<1>7. S!Written' /\ S!Apart' /\ S!HiddenKept' /\ S!RowsFrom'
  BY <1>1, <1>2, <1>3, WrittenKept, ApartKept DEF S!HiddenKept, S!RowsFrom
<1>8. \A f : S!OfFile(f)' = {}
  BY <1>1 DEF S!OfFile
<1>9. S!FilesKept'
  <2> SUFFICES ASSUME NEW f \in LogFiles \ v12' PROVE S!AtRest(f)'
    BY <1>4 DEF S!FilesKept
  <2>1. v6'[f] = v3'[f] => S!Stored(f)'
    <3> SUFFICES ASSUME v3[f] = 0 PROVE S!Stored(f)'
      BY <1>1, <1>2
    <3>1. v2'[f] = <<>>
      BY <1>2, <1>3 DEF S!Times
    <3> QED  BY <1>2, <1>8, <1>t, <3>1, GoneStays
  <2> QED  BY <1>8, <2>1 DEF S!AtRest
<1>10. S!SidecarKept'
  BY <1>1, <1>2 DEF S!SidecarKept
<1>11. S!Still'
  <2>1. ArchivedLogs \subseteq LogFiles
    BY Instances DEF S!SourcesAssumption
  <2> QED  BY <1>1, <1>2, <1>4, <2>1 DEF S!Still
<1> QED  BY <1>5, <1>6, <1>7, <1>9, <1>10, <1>11 DEF S!Inv

LEMMA SourcesStep == S!Inv /\ [S!Next]_(S!vars) => S!Inv'
<1> SUFFICES ASSUME S!Inv, [S!Next]_(S!vars) PROVE S!Inv'
  OBVIOUS
<1>1. CASE S!Next
  BY <1>1, SourcesWrites, SourcesMove, SourcesSweep, SourcesSkip, SourcesLook, SourcesCached,
     SourcesRead, SourcesUnreadable, SourcesSave, SourcesStore, SourcesMark, SourcesCrash,
     SourcesReset
  DEF S!Next
<1>2. CASE UNCHANGED S!vars
  <2>1. /\ v1' = v1 /\ v2' = v2 /\ v3' = v3 /\ v4' = v4 /\ v5' = v5 /\ v6' = v6 /\ v7' = v7
        /\ v8' = v8 /\ v9' = v9 /\ v10' = v10 /\ v11' = v11 /\ v12' = v12
        /\ v13' = v13
    BY <1>2 DEF S!vars
  <2>2. /\ S!TypeOK /\ S!Times /\ S!Written /\ S!Apart /\ S!RowsFrom
        /\ S!FilesKept /\ S!HiddenKept /\ S!SidecarKept /\ S!Still
    BY SourceTypes
  <2>3. (\A f : S!OfFile(f)' = S!OfFile(f)) /\ \A f : SameHidden(f)
    BY <2>1 DEF S!OfFile, SameHidden
  <2>4. S!InHand' = S!InHand /\ \A f : S!Live(f)' <=> S!Live(f)
    BY <2>1 DEF S!InHand, S!Live
  <2>5. S!TypeOK' /\ S!Times' /\ S!Written' /\ S!Apart' /\ S!RowsFrom'
    <3>1. S!TypeOK' /\ S!Times'
      BY <2>1, <2>2, <2>3, <2>4 DEF S!TypeOK, S!Times, S!HiddenAt
    <3>2. S!RowsFrom'
      BY <2>1, RowsFromKept
    <3> QED  BY <2>1, <2>2, <3>1, <3>2, WrittenKept, ApartKept
  <2>6. S!FilesKept'
    BY <2>1, <2>2, <2>3, <2>4, UnderWayKept, AtRestKept DEF S!FilesKept
  <2>7. S!HiddenKept' /\ S!SidecarKept' /\ S!Still'
    BY <2>1, <2>2, <2>3, <2>4 DEF S!HiddenKept, S!MayHide, S!SidecarKept, S!Still
  <2> QED  BY <2>5, <2>6, <2>7 DEF S!Inv
<1> QED  BY <1>1, <1>2

LEMMA SourcesSound == S!Inv => S!TypeOK /\ S!SourcesStored /\ S!ParsedRight
<1> SUFFICES ASSUME S!Inv PROVE S!TypeOK /\ S!SourcesStored /\ S!ParsedRight
  OBVIOUS
<1>1. S!TypeOK /\ S!ParsedRight
  BY SourceTypes, ReadsRight
<1>2. S!SourcesStored
  <2> SUFFICES ASSUME v8 = "idle", v6 = v3, NEW f \in LogFiles \ v12
               PROVE  S!Stored(f) /\ \A h \in S!HiddenAt(f) : S!MayHide(h)
    BY DEF S!SourcesStored
  <2>1. S!AtRest(f)
    BY SourceTypes DEF S!FilesKept, S!InHand
  <2> QED  BY <2>1, SourceTypes DEF S!AtRest, S!HiddenKept, S!HiddenAt
<1> QED  BY <1>1, <1>2

-----------------------------------------------------------------------------
(* Blocks: a finite set in order *)

LEMMA BlockSizes == \A X : B!Cardinality(X) = Cardinality(X)
BY DEF B!Cardinality, Cardinality

LEMMA BlocksFinite == \A X : B!IsFiniteSet(X) <=> IsFiniteSet(X)
BY DEF B!IsFiniteSet, IsFiniteSet

LEMMA BlockSums == \A f, X : B!SumFunctionOnSet(f, X) = SumFunctionOnSet(f, X)
BY DEF B!SumFunctionOnSet, B!FoldFunctionOnSet, B!MapThenFoldSet, SumFunctionOnSet,
       FoldFunctionOnSet, MapThenFoldSet

LEMMA OrderLists ==
    ASSUME NEW X, IsFiniteSet(X), NEW R, Orders(R, X)
    PROVE  Lists(B!InOrder(X, R), X, R)
<1> DEFINE n == Cardinality(X)
           under(x) == {y \in X : <<y, x>> \in R}
           place == [x \in X |-> Cardinality(under(x))]
           s == [i \in 1..n |-> CHOOSE x \in X : place[x] = i - 1]
<1>1. n \in Nat
  BY FS_CardinalityType
<1>2. B!InOrder(X, R) = s
  <2>1. \A i : (CHOOSE x \in X : B!Cardinality({y \in X : <<y, x>> \in R}) = i - 1)
                = CHOOSE x \in X : place[x] = i - 1
    BY BlockSizes
  <2>2. B!InOrder(X, R) =
            [i \in 1..n |-> CHOOSE x \in X : B!Cardinality({y \in X : <<y, x>> \in R}) = i - 1]
    <3>1. B!Cardinality(X) = Cardinality(X)
      BY BlockSizes
    <3> QED  BY <3>1 DEF B!InOrder
  <2> HIDE DEF place
  <2> QED  BY <2>1, <2>2, Zenon
<1>3. \A x \in X : IsFiniteSet(under(x)) /\ under(x) \in SUBSET (X \ {x})
  <2>1. \A x \in X : under(x) \in SUBSET X
    OBVIOUS
  <2>2. \A x \in X : under(x) \in SUBSET (X \ {x})
    BY DEF Orders
  <2> HIDE DEF under
  <2> QED  BY <2>1, <2>2, FS_Subset
<1>4. \A x \in X : place[x] \in 0..(n - 1)
  <2> SUFFICES ASSUME NEW x \in X PROVE Cardinality(under(x)) \in 0..(n - 1)
    OBVIOUS
  <2>1. IsFiniteSet(X \ {x}) /\ Cardinality(X \ {x}) = n - 1
    BY FS_RemoveElement
  <2>2. Cardinality(under(x)) \in Nat /\ Cardinality(under(x)) <= n - 1
    <3> HIDE DEF under
    <3> QED  BY <1>3, <2>1, FS_Subset, FS_CardinalityType
  <2> HIDE DEF under
  <2> QED  BY <1>1, <2>2
<1>5. ASSUME NEW x \in X, NEW y \in X, <<x, y>> \in R PROVE place[x] < place[y]
  <2>1. under(x) \in SUBSET under(y) /\ x \in under(y) /\ x \notin under(x)
    BY <1>5 DEF Orders
  <2>2. under(x) # under(y)
    BY <2>1
  <2>3. Cardinality(under(x)) \in Nat /\ Cardinality(under(y)) \in Nat
    <3> HIDE DEF under
    <3> QED  BY <1>3, FS_CardinalityType
  <2>4. Cardinality(under(x)) < Cardinality(under(y))
    <3> HIDE DEF under
    <3> QED  BY <1>3, <2>1, <2>2, <2>3, FS_Subset
  <2> QED  BY <2>4
<1>6. \A x, y \in X : x # y => place[x] # place[y]
  <2> SUFFICES ASSUME NEW x \in X, NEW y \in X, x # y PROVE place[x] # place[y]
    OBVIOUS
  <2>1. <<x, y>> \in R \/ <<y, x>> \in R
    BY DEF Orders
  <2>2. place[x] < place[y] \/ place[y] < place[x]
    <3> HIDE DEF place
    <3> QED  BY <1>5, <2>1
  <2>3. place[x] \in Int /\ place[y] \in Int
    <3> HIDE DEF place
    <3> QED  BY <1>1, <1>4
  <2> HIDE DEF place
  <2> QED  BY <2>2, <2>3
<1>7. \A i \in 1..n : \E x \in X : place[x] = i - 1
  <2>1. place \in Injection(X, 0..(n - 1))
    <3>1. place \in [X -> 0..(n - 1)]
      <4>1. place = [x \in X |-> place[x]]
        OBVIOUS
      <4> HIDE DEF place
      <4> QED  BY <1>4, <4>1
    <3> HIDE DEF place
    <3> QED  BY <1>6, <3>1 DEF Injection, IsInjective
  <2>2. IsFiniteSet(0..(n - 1)) /\ Cardinality(0..(n - 1)) = n
    BY <1>1, FS_Interval
  <2>3. place \in Surjection(X, 0..(n - 1))
    <3> HIDE DEF place
    <3> QED  BY <2>1, <2>2, FS_Injection
  <2>4. \A k \in 0..(n - 1) : \E x \in X : place[x] = k
    <3> HIDE DEF place
    <3> QED  BY <2>3 DEF Surjection
  <2>5. \A i \in 1..n : i - 1 \in 0..(n - 1)
    BY <1>1
  <2> HIDE DEF place
  <2> QED  BY <2>4, <2>5
<1> HIDE DEF place
<1>8. \A i \in 1..n : s[i] \in X /\ place[s[i]] = i - 1
  BY <1>7
<1>9. s \in [1..n -> X]
  BY <1>8
<1>10. \A x \in X : \E i \in 1..n : s[i] = x
  <2> SUFFICES ASSUME NEW x \in X PROVE \E i \in 1..n : s[i] = x
    OBVIOUS
  <2>1. place[x] + 1 \in 1..n /\ (place[x] + 1) - 1 = place[x]
    BY <1>1, <1>4
  <2>2. s[place[x] + 1] \in X /\ place[s[place[x] + 1]] = place[x]
    BY <1>8, <2>1
  <2>3. s[place[x] + 1] = x
    <3> HIDE DEF s
    <3> QED  BY <1>6, <2>2
  <2> QED  BY <2>1, <2>3
<1>11. \A i, j \in 1..n : i < j => <<s[i], s[j]>> \in R
  <2> HIDE DEF s
  <2> SUFFICES ASSUME NEW i \in 1..n, NEW j \in 1..n, i < j PROVE <<s[i], s[j]>> \in R
    OBVIOUS
  <2>1. place[s[i]] = i - 1 /\ place[s[j]] = j - 1 /\ s[i] \in X /\ s[j] \in X
    BY <1>8
  <2>2. s[i] # s[j]
    BY <1>1, <2>1
  <2>3. ~(place[s[j]] < place[s[i]])
    BY <1>1, <2>1
  <2> QED  BY <1>5, <2>1, <2>2, <2>3 DEF Orders
<1> HIDE DEF s
<1> QED  BY <1>2, <1>9, <1>10, <1>11 DEF Lists

-----------------------------------------------------------------------------
(* Blocks: the turns cut *)

LEMMA TokensAgree ==
    ASSUME NEW Y, TurnSet(Y), NEW Z \in SUBSET Y
    PROVE  B!TokensOf(Z) = SumFunctionOnSet([y \in Y |-> y.size], Z)
<1> DEFINE f == [y \in Y |-> y.size]
           h == [y \in Z |-> y.size]
<1>1. IsFiniteSet(Z)
  BY FS_Subset DEF TurnSet
<1>2. \A y \in Z : f[y] \in Int /\ h[y] = f[y]
  BY DEF TurnSet
<1>3. B!TokensOf(Z) = SumFunctionOnSet(h, Z)
  BY BlockSums DEF B!TokensOf
<1> HIDE DEF f, h
<1>4. SumFunctionOnSet(h, Z) = SumFunctionOnSet(f, Z)
  BY <1>1, <1>2, SumAgrees
<1> QED  BY <1>3, <1>4 DEF f

LEMMA TokensAdd ==
    ASSUME NEW Y, TurnSet(Y), NEW t, t \notin Y, t.at \in Nat, t.size \in Nat
    PROVE  /\ TurnSet(Y \cup {t}) /\ B!TokensOf(Y) \in Nat
           /\ B!TokensOf(Y \cup {t}) = B!TokensOf(Y) + t.size
           /\ Cardinality(Y) \in Nat /\ Cardinality(Y \cup {t}) = Cardinality(Y) + 1
<1> DEFINE V == Y \cup {t}
           f == [y \in V |-> y.size]
<1>1. IsFiniteSet(Y) /\ IsFiniteSet(V) /\ TurnSet(V)
  BY FS_AddElement DEF TurnSet
<1>2. Y \in SUBSET V /\ V \in SUBSET V
  OBVIOUS
<1>3. \A y \in V : f[y] \in Nat /\ f[y] \in Int
  BY DEF TurnSet
<1>4. f[t] = t.size
  OBVIOUS
<1>5. B!TokensOf(Y) = SumFunctionOnSet(f, Y) /\ B!TokensOf(V) = SumFunctionOnSet(f, V)
  BY <1>1, <1>2, TokensAgree
<1>6. SumFunctionOnSet(f, Y \cup {t}) = SumFunctionOnSet(f, Y) + f[t]
  <2> HIDE DEF f
  <2> QED  BY <1>1, <1>3, SumAdds
<1>7. SumFunctionOnSet(f, Y) \in Nat
  <2> HIDE DEF f
  <2> QED  BY <1>1, <1>3, SumNat
<1>8. Cardinality(Y) \in Nat /\ Cardinality(Y \cup {t}) = Cardinality(Y) + 1
  BY <1>1, FS_AddElement, FS_CardinalityType
<1> QED  BY <1>1, <1>4, <1>5, <1>6, <1>7, <1>8

LEMMA TokensNone == B!TokensOf({}) = 0
BY BlockSums, SumEmpty DEF B!TokensOf

LEMMA TokensOne ==
    ASSUME NEW t, t.at \in Nat, t.size \in Nat
    PROVE  B!TokensOf({t}) = t.size /\ Cardinality({t}) = 1
<1>1. TurnSet({}) /\ t \notin {} /\ {} \cup {t} = {t}
  BY FS_EmptySet DEF TurnSet
<1>2. B!TokensOf({} \cup {t}) = B!TokensOf({}) + t.size
      /\ Cardinality({} \cup {t}) = Cardinality({}) + 1
  BY <1>1, TokensAdd
<1> QED  BY <1>1, <1>2, TokensNone, FS_EmptySet

LEMMA HourFloors ==
    ASSUME NEW t \in Nat, HourTicks \in Nat \ {0}
    PROVE  /\ B!FloorToHour(t) \in Nat /\ B!FloorToHour(t) <= t
           /\ t < B!FloorToHour(t) + HourTicks
           /\ B!FloorToHour(t) % HourTicks = 0
<1> DEFINE q == t \div HourTicks
           r == t % HourTicks
<1>1. q \in Nat
  OBVIOUS
<1>2. r \in 0..(HourTicks - 1)
  OBVIOUS
<1>3. t = HourTicks * q + r
  OBVIOUS
<1>4. B!FloorToHour(t) = t - r
  BY DEF B!FloorToHour
<1> HIDE DEF q, r
<1>5. HourTicks * q \in Nat
  BY <1>1
<1>6. B!FloorToHour(t) = HourTicks * q
  BY <1>2, <1>3, <1>4, <1>5
<1>7. (HourTicks * q) % HourTicks = 0
  BY <1>1
<1> QED  BY <1>2, <1>3, <1>5, <1>6, <1>7

LEMMA NothingCut == ASSUME NEW len PROVE CutOf(<<>>, {}, len)
BY DEF CutOf

\* One more turn, later than the others or with the last.
LEMMA CutGrows ==
    ASSUME NEW len \in Nat, HourTicks \in Nat \ {0}, HourTicks <= len,
           NEW Y, TurnSet(Y), NEW bs, CutOf(bs, Y, len),
           NEW t, t \notin Y, t.at \in Nat, t.size \in Nat, \A y \in Y : y.at <= t.at
    PROVE  CutOf(B!WithTurn(bs, t, len), Y \cup {t}, len)
<1> DEFINE k == Len(bs)
           V == Y \cup {t}
           new == B!WithTurn(bs, t, len)
           opened == B!Opened(t, len)
<1>0. k \in Nat /\ bs \in Seq(Pieces) /\ \A i \in 1..k : bs[i] \in Pieces
  BY DEF CutOf
<1>1. \A i \in 1..k : BlockOf(bs[i], Y, len)
  BY DEF CutOf
<1>2. \A i \in 1..k : /\ bs[i].first \in Nat /\ bs[i].last \in Nat /\ bs[i].start \in Nat
                      /\ bs[i].end \in Nat /\ bs[i].tokens \in Nat /\ bs[i].entries \in Nat
                      /\ bs[i].gap = FALSE
  BY <1>0 DEF Pieces
<1>3. \A i \in 1..k : /\ bs[i].first <= bs[i].last /\ bs[i].last < bs[i].end
                      /\ bs[i].start <= bs[i].first /\ bs[i].end = bs[i].start + len
                      /\ bs[i].last <= t.at
  BY <1>1, <1>2, HourFloors DEF BlockOf
<1>4. \A i, j \in 1..k : i < j => bs[i].end <= bs[j].first
  BY DEF CutOf
<1>5. \A y \in Y : \E i \in 1..k : B!InBlock(bs[i], y)
  BY DEF CutOf
<1>f. B!FloorToHour(t.at) \in Nat /\ B!FloorToHour(t.at) + len \in Nat
      /\ t.at < B!FloorToHour(t.at) + len
  <2>1. B!FloorToHour(t.at) \in Nat /\ t.at < B!FloorToHour(t.at) + HourTicks
    BY HourFloors
  <2> QED  BY <2>1
<1>6. opened \in Pieces /\ opened.start = B!FloorToHour(t.at) /\ opened.end = opened.start + len
      /\ opened.first = t.at /\ opened.last = t.at /\ opened.tokens = t.size /\ opened.entries = 1
  BY <1>f DEF B!Opened, B!Block, Pieces
<1> HIDE DEF opened
<1>7. CASE bs = <<>> \/ B!NewBlockDue(bs[k], t, len)
  <2>1. new = Append(bs, opened)
    BY <1>7 DEF B!WithTurn, B!Last, opened
  <2>2. new \in Seq(Pieces) /\ Len(new) = k + 1 /\ new[k + 1] = opened
        /\ \A i \in 1..k : new[i] = bs[i]
    BY <1>0, <1>6, <2>1, AppendProperties
  <2>3. \A i \in 1..k : bs[i].end <= t.at
    <3>1. CASE k = 0
      BY <3>1
    <3>2. CASE k # 0
      <4>1. k \in 1..k /\ bs # <<>>
        BY <1>0, <3>2
      <4>2. bs[k].end <= t.at
        BY <1>2, <1>3, <1>7, <4>1 DEF B!NewBlockDue
      <4>3. \A i \in 1..k : i = k \/ i < k
        BY <1>0
      <4>4. bs[k].first <= t.at
        BY <1>2, <1>3, <4>1
      <4> QED  BY <1>2, <1>4, <4>1, <4>2, <4>3, <4>4
    <3> QED  BY <3>1, <3>2
  <2>4. ASSUME NEW i \in 1..k PROVE BlockOf(bs[i], V, len)
    <3>1. Within(bs[i], V) = Within(bs[i], Y)
      BY <1>2, <1>3, <2>3 DEF Within, B!InBlock
    <3> QED  BY <1>1, <3>1 DEF BlockOf
  <2>5. ASSUME NEW y \in Y PROVE y.at < t.at
    <3>1. PICK i \in 1..k : B!InBlock(bs[i], y)
      BY <1>5
    <3>2. y.at \in Nat /\ y.at <= bs[i].last
      BY <3>1 DEF B!InBlock, TurnSet
    <3>3. bs[i].last < bs[i].end /\ bs[i].end <= t.at /\ bs[i].last \in Nat /\ bs[i].end \in Nat
      BY <1>2, <1>3, <2>3
    <3> QED  BY <3>2, <3>3
  <2>6. BlockOf(opened, V, len)
    <3>1. Within(opened, V) = {t}
      BY <1>6, <2>5 DEF Within, B!InBlock, TurnSet
    <3>2. opened.last < opened.end /\ opened.first <= opened.last
      BY <1>6, <1>f
    <3>3. opened.tokens = B!TokensOf({t}) /\ opened.entries = Cardinality({t})
      BY <1>6, TokensOne
    <3> QED  BY <1>6, <3>1, <3>2, <3>3 DEF BlockOf
  <2>7. \A y \in V : \E i \in 1..(k + 1) : B!InBlock(new[i], y)
    <3>1. B!InBlock(opened, t)
      BY <1>6 DEF B!InBlock
    <3>2. \A i \in 1..k : i \in 1..(k + 1)
      BY <1>0
    <3>3. k + 1 \in 1..(k + 1)
      BY <1>0
    <3> QED  BY <1>5, <2>2, <3>1, <3>2, <3>3
  <2>8. \A i \in 1..(k + 1) : i \in 1..k \/ i = k + 1
    BY <1>0
  <2>9. \A i \in 1..(k + 1) : BlockOf(new[i], V, len)
    BY <2>2, <2>4, <2>6, <2>8
  <2>10. \A i, j \in 1..(k + 1) : i < j => new[i].end <= new[j].first
    BY <1>0, <1>4, <1>6, <2>2, <2>3, <2>8
  <2> HIDE DEF new, V
  <2> QED  BY <2>2, <2>7, <2>9, <2>10 DEF CutOf, V, new
<1>8. CASE ~(bs = <<>> \/ B!NewBlockDue(bs[k], t, len))
  <2>0. k # 0 /\ k \in 1..k
    BY <1>0, <1>8
  <2> DEFINE grown == B!Grown(bs[k], t)
  <2>1. new = [bs EXCEPT ![k] = grown]
    BY <1>8 DEF B!WithTurn, B!Last
  <2>2. /\ grown \in Pieces /\ grown.start = bs[k].start /\ grown.end = bs[k].end
        /\ grown.first = bs[k].first /\ grown.last = t.at
        /\ grown.tokens = bs[k].tokens + t.size /\ grown.entries = bs[k].entries + 1
    <3>1. bs[k] \in Pieces /\ bs[k].tokens + t.size \in Nat /\ bs[k].entries + 1 \in Nat
      BY <1>0, <1>2, <2>0
    <3> QED  BY <3>1 DEF B!Grown, Pieces
  <2> HIDE DEF grown
  <2>3. new \in Seq(Pieces) /\ Len(new) = k /\ new[k] = grown
        /\ \A i \in 1..k : i # k => new[i] = bs[i]
    BY <1>0, <2>0, <2>1, <2>2, ExceptSeq
  <2>4. t.at < bs[k].end
    BY <1>2, <1>3, <1>8, <2>0 DEF B!NewBlockDue
  <2>5. ASSUME NEW i \in 1..k, i # k PROVE BlockOf(bs[i], V, len)
    <3>1. bs[i].end <= bs[k].first
      BY <1>0, <1>4, <2>0, <2>5
    <3>2. Within(bs[i], V) = Within(bs[i], Y)
      BY <1>2, <1>3, <2>0, <3>1 DEF Within, B!InBlock
    <3> QED  BY <1>1, <3>2 DEF BlockOf
  <2>6. BlockOf(grown, V, len)
    <3>1. ASSUME NEW y \in Y PROVE B!InBlock(grown, y) <=> B!InBlock(bs[k], y)
      <4>1. PICK i \in 1..k : B!InBlock(bs[i], y)
        BY <1>5
      <4>2. y.at \in Nat /\ y.at <= t.at
        BY DEF TurnSet
      <4>3. CASE i = k
        BY <1>2, <2>0, <2>2, <4>1, <4>2, <4>3 DEF B!InBlock
      <4>4. CASE i # k
        <5>1. bs[i].end <= bs[k].first
          BY <1>0, <1>4, <2>0, <4>4
        <5> QED  BY <1>2, <1>3, <2>0, <2>2, <4>1, <4>2, <5>1 DEF B!InBlock
      <4> QED  BY <4>3, <4>4
    <3>2. B!InBlock(grown, t)
      BY <1>2, <1>3, <2>0, <2>2 DEF B!InBlock
    <3>3. Within(grown, V) = Within(bs[k], Y) \cup {t}
      BY <3>1, <3>2 DEF Within
    <3>4. TurnSet(Within(bs[k], Y)) /\ t \notin Within(bs[k], Y)
      <4>1. Within(bs[k], Y) \in SUBSET Y
        BY DEF Within
      <4> QED  BY <4>1, FS_Subset DEF TurnSet
    <3>5. /\ B!TokensOf(Within(grown, V)) = B!TokensOf(Within(bs[k], Y)) + t.size
          /\ Cardinality(Within(grown, V)) = Cardinality(Within(bs[k], Y)) + 1
      BY <3>3, <3>4, TokensAdd
    <3> QED  BY <1>1, <1>2, <1>3, <2>0, <2>2, <2>4, <3>5 DEF BlockOf
  <2>7. \A y \in V : \E i \in 1..k : B!InBlock(new[i], y)
    <3>1. B!InBlock(grown, t)
      BY <1>2, <1>3, <2>0, <2>2 DEF B!InBlock
    <3>2. \A y \in Y : B!InBlock(bs[k], y) => B!InBlock(grown, y)
      BY <1>2, <1>3, <2>0, <2>2 DEF B!InBlock, TurnSet
    <3> QED  BY <1>5, <2>0, <2>3, <3>1, <3>2
  <2>8. \A i \in 1..k : BlockOf(new[i], V, len)
    BY <2>3, <2>5, <2>6
  <2>9. \A i, j \in 1..k : i < j => new[i].end <= new[j].first
    <3>1. \A i \in 1..k : new[i].end = bs[i].end /\ new[i].first = bs[i].first
      BY <2>2, <2>3
    <3> QED  BY <1>4, <3>1
  <2> HIDE DEF new, V
  <2> QED  BY <2>3, <2>7, <2>8, <2>9 DEF CutOf, V, new
<1> QED  BY <1>7, <1>8

LEMMA CutWhole ==
    ASSUME NEW len \in Nat, HourTicks \in Nat \ {0}, HourTicks <= len, NEW X, NEW s, Dated(s, X)
    PROVE  CutOf(B!IdentifyBlocks(s, len), X, len)
<1> DEFINE n == Len(s)
           Follows(g, m) == g = [k \in 0..m |-> IF k = 0 THEN <<>>
                                                ELSE B!WithTurn(g[k - 1], s[k], len)]
           Some == {m \in 0..n : \E g : Follows(g, m)}
           cut == CHOOSE g : Follows(g, n)
           Read(k) == {s[m] : m \in 1..k}
           Good == {k \in 0..n : CutOf(cut[k], Read(k), len)}
<1>0. n \in Nat /\ n = Cardinality(X) /\ s \in Seq(X) /\ TurnSet(X)
  BY FS_CardinalityType DEF Dated, TurnSet
<1>s. \A i \in 1..n : s[i] \in X /\ s[i].at \in Nat /\ s[i].size \in Nat
  BY <1>0 DEF Dated, TurnSet
<1>d. \A i, j \in 1..n : i < j => s[i].at <= s[j].at /\ s[i] # s[j]
  BY <1>0 DEF Dated
<1>w. Read(n) = X
  BY <1>0, <1>s DEF Dated
<1> HIDE DEF n
<1>1. n \in Some
  <2>1. 0 \in Some
    <3> DEFINE h == [k \in 0..0 |-> <<>>]
    <3>1. ASSUME NEW k \in 0..0
          PROVE  <<>> = IF k = 0 THEN <<>> ELSE B!WithTurn(h[k - 1], s[k], len)
      OBVIOUS
    <3>2. Follows(h, 0)
      BY <3>1
    <3> HIDE DEF h, Follows
    <3> QED  BY <1>0, <3>2
  <2>2. ASSUME NEW m \in 1..n, m - 1 \in Some PROVE m \in Some
    <3>1. PICK g : Follows(g, m - 1)
      BY <2>2
    <3> DEFINE h == [k \in 0..m |-> IF k = m THEN B!WithTurn(g[m - 1], s[m], len) ELSE g[k]]
    <3>2. ASSUME NEW k \in 0..m
          PROVE  h[k] = IF k = 0 THEN <<>> ELSE B!WithTurn(h[k - 1], s[k], len)
      BY <3>1
    <3>3. Follows(h, m)
      BY <3>2
    <3> HIDE DEF h, Follows
    <3> QED  BY <1>0, <3>3
  <2> HIDE DEF Some
  <2> QED  BY <1>0, <2>1, <2>2, UpTo
<1>2. Follows(cut, n)
  BY <1>1
<1>3. B!IdentifyBlocks(s, len) = cut[n]
  BY DEF B!IdentifyBlocks, n
<1> HIDE DEF cut
<1>4. cut[0] = <<>> /\ \A k \in 1..n : cut[k] = B!WithTurn(cut[k - 1], s[k], len)
  BY <1>0, <1>2
<1>5. n \in Good
  <2>1. 0 \in Good
    <3>1. Read(0) = {}
      OBVIOUS
    <3>2. 0 \in 0..n /\ CutOf(cut[0], {}, len)
      BY <1>0, <1>4, NothingCut
    <3> QED  BY <3>1, <3>2
  <2>2. ASSUME NEW k \in 1..n, k - 1 \in Good PROVE k \in Good
    <3>1. k \in 0..n /\ k - 1 \in 0..n /\ cut[k] = B!WithTurn(cut[k - 1], s[k], len)
      BY <1>0, <1>4
    <3>2. \A m \in 1..(k - 1) : m \in 1..n /\ m < k
      BY <1>0
    <3>3. \A y \in Read(k - 1) : y.at <= s[k].at /\ y # s[k]
      BY <1>d, <3>2
    <3>4. TurnSet(Read(k - 1))
      <4>1. Read(k - 1) \in SUBSET X
        BY <1>s, <3>2
      <4> HIDE DEF Read
      <4> QED  BY <1>0, <4>1, FS_Subset DEF TurnSet
    <3>5. Read(k) = Read(k - 1) \cup {s[k]}
      <4>1. \A m : m \in 1..k <=> (m \in 1..(k - 1) \/ m = k)
        BY <1>0
      <4> QED  BY <4>1
    <3>6. CutOf(cut[k - 1], Read(k - 1), len)
      BY <2>2
    <3> HIDE DEF Read
    <3>7. CutOf(cut[k], Read(k), len)
      BY <1>s, <3>1, <3>3, <3>4, <3>5, <3>6, CutGrows
    <3> QED  BY <3>1, <3>7
  <2> HIDE DEF Good
  <2> QED  BY <1>0, <2>1, <2>2, UpTo
<1> QED  BY <1>3, <1>5, <1>w

\* What is known of the stored turns and of the clock.
LEMMA TurnsDated ==
    ASSUME B!Inv, NEW from \in Int
    PROVE  Dated(B!LoadTurns(from), Since(from))
<1> DEFINE X == Since(from)
           R == {p \in X \X X : B!Earlier(p[1], p[2])}
           n == Cardinality(X)
           s == B!LoadTurns(from)
<1>1. X \in SUBSET v2 /\ IsFiniteSet(v2)
      /\ \A t \in v2 : t.at \in Nat /\ t.size \in Nat /\ t.id \in Nat
      /\ v2 \subseteq [at : Nat, size : Nat, id : Nat]
  <2>1. v2 \subseteq [at : 0..MaxTime, size : Sizes, id : 1..BlockTurns] /\ IsFiniteSet(v2)
    BY BlocksFinite DEF B!Inv, B!TypeOK
  <2>2. Sizes \subseteq Nat /\ MaxTime \in Nat /\ BlockTurns \in Nat
    BY Instances DEF B!BlocksAssumption
  <2>3. X \in SUBSET v2
    BY DEF Since
  <2>4. v2 \subseteq [at : Nat, size : Nat, id : Nat]
    <3> SUFFICES ASSUME NEW t \in v2 PROVE t \in [at : Nat, size : Nat, id : Nat]
      OBVIOUS
    <3>1. t \in [at : 0..MaxTime, size : Sizes, id : 1..BlockTurns]
      BY <2>1
    <3>2. t.at \in Nat /\ t.size \in Nat /\ t.id \in Nat
      <4>1. t.at \in 0..MaxTime /\ t.size \in Sizes /\ t.id \in 1..BlockTurns
        BY <3>1
      <4>2. 0..MaxTime \subseteq Nat /\ 1..BlockTurns \subseteq Nat
        BY <2>2
      <4> QED  BY <2>2, <4>1, <4>2
    <3> QED  BY <3>1, <3>2
  <2> HIDE DEF X
  <2> QED  BY <2>1, <2>3, <2>4
<1>2. IsFiniteSet(X) /\ TurnSet(X) /\ n \in Nat
  <2>1. IsFiniteSet(X)
    BY <1>1, FS_Subset
  <2> QED  BY <1>1, <2>1, FS_CardinalityType DEF TurnSet
<1>3. s = B!InOrder(X, R)
  BY DEF B!LoadTurns, Since
<1>4. \A a, b \in X : <<a, b>> \in R <=> B!Earlier(a, b)
  OBVIOUS
<1>5. X \subseteq [at : Nat, size : Nat, id : Nat]
  BY <1>1
<1> HIDE DEF X, R
<1>6. Orders(R, X)
  <2>1. \A a \in X : ~B!Earlier(a, a)
    BY <1>5 DEF B!Earlier
  <2>2. \A a, b, c \in X : B!Earlier(a, b) /\ B!Earlier(b, c) => B!Earlier(a, c)
    BY <1>5 DEF B!Earlier
  <2>3. \A a, b \in X : a # b => B!Earlier(a, b) \/ B!Earlier(b, a)
    <3> SUFFICES ASSUME NEW a \in X, NEW b \in X, ~B!Earlier(a, b), ~B!Earlier(b, a)
                 PROVE  a = b
      OBVIOUS
    <3>1. a \in [at : Nat, size : Nat, id : Nat] /\ b \in [at : Nat, size : Nat, id : Nat]
      BY <1>5
    <3>2. a.at = b.at /\ a.size = b.size /\ a.id = b.id
      BY <3>1 DEF B!Earlier
    <3> QED  BY <3>1, <3>2
  <2> QED  BY <1>4, <2>1, <2>2, <2>3 DEF Orders
<1>7. Lists(s, X, R)
  BY <1>2, <1>3, <1>6, OrderLists
<1>8. \A i, j \in 1..n : i < j => s[i].at <= s[j].at /\ s[i] # s[j]
  <2> SUFFICES ASSUME NEW i \in 1..n, NEW j \in 1..n, i < j PROVE s[i].at <= s[j].at /\ s[i] # s[j]
    OBVIOUS
  <2>1. <<s[i], s[j]>> \in R /\ s[i] \in X /\ s[j] \in X
    BY <1>7 DEF Lists
  <2>2. B!Earlier(s[i], s[j])
    BY <1>4, <2>1
  <2>3. s[i].at \in Nat /\ s[j].at \in Nat
    BY <1>5, <2>1
  <2>4. s[i] # s[j]
    BY <1>6, <2>1 DEF Orders
  <2> QED  BY <2>2, <2>3, <2>4 DEF B!Earlier
<1> QED  BY <1>2, <1>7, <1>8 DEF Dated, Lists, X

LEMMA BlockConstants ==
    /\ HourTicks \in Nat \ {0} /\ Window \in Nat /\ Unit \in Nat \ {0}
    /\ Default \in Nat /\ Longest \in Nat /\ BlockTurns \in Nat /\ MaxTime \in Nat
    /\ Sizes \subseteq Nat /\ Limits \subseteq Nat /\ Used \subseteq Nat
    /\ Lengths \subseteq Nat \ {0}
BY Instances DEF B!BlocksAssumption

LEMMA BlockState ==
    ASSUME B!Inv, LongEnough
    PROVE  /\ v1 \in Nat /\ v3 \in Lengths /\ v3 \in Nat \ {0} /\ HourTicks <= v3
           /\ v4 \in Limits /\ v4 \in Nat
           /\ IsFiniteSet(v2) /\ TurnSet(v2) /\ \A t \in v2 : t.at <= v1
<1>1. v1 \in 0..MaxTime /\ v3 \in Lengths /\ v4 \in Limits /\ B!IsFiniteSet(v2)
      /\ v2 \subseteq [at : 0..MaxTime, size : Sizes, id : 1..BlockTurns]
      /\ \A t \in v2 : t.at <= v1
  BY DEF B!Inv, B!TypeOK
<1>2. \A t \in v2 : t.at \in 0..MaxTime /\ t.size \in Sizes
  BY <1>1
<1>3. 0..MaxTime \subseteq Nat
  BY BlockConstants
<1> QED  BY <1>1, <1>2, <1>3, BlockConstants, BlocksFinite DEF LongEnough, TurnSet

LEMMA CutFacts ==
    ASSUME NEW len \in Nat, HourTicks \in Nat \ {0}, HourTicks <= len,
           NEW Y, TurnSet(Y), NEW bs, CutOf(bs, Y, len)
    PROVE  Neat(bs, Y, len)
<1> DEFINE k == Len(bs)
<1>0. k \in Nat /\ bs \in Seq(Pieces) /\ DOMAIN bs = 1..k /\ \A i \in 1..k : bs[i] \in Pieces
  BY LenProperties DEF CutOf
<1>1. \A i \in 1..k : BlockOf(bs[i], Y, len)
  BY DEF CutOf
<1>2. \A i \in 1..k : /\ bs[i].first \in Nat /\ bs[i].last \in Nat /\ bs[i].start \in Nat
                      /\ bs[i].end \in Nat /\ bs[i].tokens \in Nat /\ bs[i].entries \in Nat
                      /\ bs[i].gap = FALSE
  BY <1>0 DEF Pieces
<1>3. \A i \in 1..k : /\ bs[i].first <= bs[i].last /\ bs[i].last < bs[i].end
                      /\ bs[i].start <= bs[i].first /\ bs[i].end = bs[i].start + len
                      /\ bs[i].start = B!FloorToHour(bs[i].first)
  BY <1>1, <1>2, HourFloors DEF BlockOf
<1>4. \A i, j \in 1..k : i < j => bs[i].end <= bs[j].first
  BY DEF CutOf
<1>5. ASSUME NEW y \in Y, NEW i \in 1..k, NEW j \in 1..k, B!InBlock(bs[i], y), i < j
      PROVE  ~B!InBlock(bs[j], y)
  BY <1>2, <1>3, <1>4, <1>5 DEF B!InBlock, TurnSet
<1>6. \A i, j \in 1..k : i # j => i < j \/ j < i
  BY <1>0
<1> HIDE DEF k
<1>7. \A y \in Y : \A i, j \in 1..k :
          B!InBlock(bs[i], y) /\ B!InBlock(bs[j], y) => i = j
  BY <1>5, <1>6
<1> QED  BY <1>0, <1>2, <1>3, <1>4, <1>7 DEF k, Neat

LEMMA SinceStart == ASSUME TurnSet(v2) PROVE Since(0) = v2
BY DEF Since, TurnSet

LEMMA AllCut ==
    ASSUME B!Inv, LongEnough
    PROVE  CutOf(B!IdentifyBlocks(B!LoadTurns(0), v3), v2, v3)
BY BlockState, BlockConstants, TurnsDated, SinceStart, CutWhole

\* The openers are the times that say so of themselves.
LEMMA CutOpens ==
    ASSUME NEW len \in Nat, HourTicks \in Nat \ {0}, HourTicks <= len,
           NEW Y, TurnSet(Y), NEW bs, CutOf(bs, Y, len)
    PROVE  \A y \in Y :
               (\E i \in 1..Len(bs) : bs[i].first = y.at)
               <=> \A i \in 1..Len(bs) :
                       bs[i].first >= y.at \/ y.at >= B!FloorToHour(bs[i].first) + len
<1> DEFINE k == Len(bs)
<1>0. Neat(bs, Y, len)
  BY CutFacts
<1>1. /\ k \in Nat
      /\ \A i \in 1..k :
           /\ bs[i].first \in Nat /\ bs[i].last \in Nat /\ bs[i].end \in Nat
           /\ bs[i].first <= bs[i].last /\ bs[i].last < bs[i].end
           /\ bs[i].end = B!FloorToHour(bs[i].first) + len
      /\ \A i, j \in 1..k : i < j => bs[i].end <= bs[j].first
  BY <1>0 DEF Neat
<1> HIDE DEF k
<1> SUFFICES ASSUME NEW y \in Y
             PROVE  (\E i \in 1..k : bs[i].first = y.at)
                    <=> \A i \in 1..k : bs[i].first >= y.at \/ y.at >= bs[i].end
  BY <1>1 DEF k
<1>2. y.at \in Nat
  BY DEF TurnSet
<1>3. ASSUME NEW j \in 1..k, bs[j].first = y.at, NEW i \in 1..k
      PROVE  bs[i].first >= y.at \/ y.at >= bs[i].end
  <2>1. CASE i < j
    BY <1>1, <1>3, <2>1
  <2>2. CASE ~(i < j)
    <3>1. i = j \/ j < i
      BY <1>1, <2>2
    <3> QED  BY <1>1, <1>3, <3>1
  <2> QED  BY <2>1, <2>2
<1>4. ASSUME \A i \in 1..k : bs[i].first >= y.at \/ y.at >= bs[i].end
      PROVE  \E i \in 1..k : bs[i].first = y.at
  <2>1. PICK i \in 1..k : B!InBlock(bs[i], y)
    BY DEF CutOf, k
  <2>2. bs[i].first <= y.at /\ y.at <= bs[i].last
    BY <2>1 DEF B!InBlock
  <2>3. bs[i].first = y.at
    BY <1>1, <1>2, <1>4, <2>2
  <2> QED  BY <2>3
<1> QED  BY <1>3, <1>4

LEMMA WholeHours ==
    ASSUME NEW s \in Nat, NEW t \in Nat, NEW n \in Nat, NEW h \in Nat \ {0},
           s % h = 0, t % h = 0, n % h = 0, s + n < t + h
    PROVE  s + n <= t
<1> DEFINE a == s \div h
           b == t \div h
           c == n \div h
<1>1. a \in Nat /\ b \in Nat /\ c \in Nat
  OBVIOUS
<1>2. s = h * a
  OBVIOUS
<1>3. t = h * b
  OBVIOUS
<1>4. n = h * c
  OBVIOUS
<1> HIDE DEF a, b, c
<1>5. h * (a + c) < h * (b + 1)
  BY <1>1, <1>2, <1>3, <1>4
<1>6. a + c < b + 1
  <2> SUFFICES ASSUME b + 1 <= a + c PROVE FALSE
    BY <1>1
  <2>1. h * (b + 1) <= h * (a + c)
    BY <1>1
  <2> QED  BY <1>1, <1>5, <2>1
<1>7. h * (a + c) <= h * b
  BY <1>1, <1>6
<1> QED  BY <1>1, <1>2, <1>3, <1>4, <1>7

LEMMA PartitionSound == ASSUME B!Inv, LongEnough PROVE B!BlocksPartition
<1> DEFINE bs == B!IdentifyBlocks(B!LoadTurns(0), v3)
           k == Len(bs)
           opens == {b.first : b \in B!Range(bs)}
<1>0. /\ v3 \in Nat \ {0} /\ v3 \in Nat /\ HourTicks \in Nat \ {0} /\ HourTicks <= v3 /\ TurnSet(v2)
      /\ CutOf(bs, v2, v3)
  BY BlockState, BlockConstants, AllCut
<1> HIDE DEF bs
<1>n. Neat(bs, v2, v3)
  BY <1>0, CutFacts
<1>1. /\ k \in Nat /\ DOMAIN bs = 1..k
      /\ \A i \in 1..k :
           /\ bs[i].first \in Nat /\ bs[i].last \in Nat /\ bs[i].start \in Nat
           /\ bs[i].end \in Nat /\ bs[i].first <= bs[i].last /\ bs[i].last < bs[i].end
           /\ bs[i].start <= bs[i].first /\ bs[i].end = bs[i].start + v3
           /\ bs[i].start = B!FloorToHour(bs[i].first)
      /\ \A i, j \in 1..k : i < j => bs[i].end <= bs[j].first
      /\ \A y \in v2 : \A i, j \in 1..k :
           B!InBlock(bs[i], y) /\ B!InBlock(bs[j], y) => i = j
  BY <1>n DEF Neat
<1>r. B!Range(bs) = {bs[i] : i \in 1..k}
  BY <1>1 DEF B!Range
<1>o. opens = {bs[i].first : i \in 1..k}
  BY <1>r
<1>2. \A y \in v2 : y.at \in opens <=> \A o \in opens : o >= y.at \/ y.at >= B!FloorToHour(o) + v3
  <2> HIDE DEF opens, k
  <2>1. \A y \in v2 :
             (\E i \in 1..k : bs[i].first = y.at)
             <=> \A i \in 1..k : bs[i].first >= y.at \/ y.at >= B!FloorToHour(bs[i].first) + v3
    BY <1>0, CutOpens DEF k
  <2> QED  BY <1>o, <2>1
<1>3. B!IsOpeners(opens, {t.at : t \in v2})
  <2> HIDE DEF opens
  <2> QED  BY <1>2 DEF B!IsOpeners
<1>4. ASSUME NEW y \in v2 PROVE B!Cardinality({i \in DOMAIN bs : B!InBlock(bs[i], y)}) = 1
  <2>1. PICK i \in 1..k : B!InBlock(bs[i], y)
    BY <1>0 DEF CutOf
  <2>2. {j \in DOMAIN bs : B!InBlock(bs[j], y)} = {i}
    BY <1>1, <2>1
  <2> QED  BY <2>2, BlockSizes, FS_Singleton
<1>5. ASSUME NEW b \in B!Range(bs)
      PROVE  LET mine == {t \in v2 : B!InBlock(b, t)}
             IN /\ b.tokens = B!TokensOf(mine)
                /\ b.entries = B!Cardinality(mine)
                /\ b.start <= b.first /\ b.last < b.end
  <2>1. PICK i \in 1..k : b = bs[i]
    BY <1>r
  <2>2. BlockOf(bs[i], v2, v3)
    BY <1>0 DEF CutOf
  <2> QED  BY <1>1, <2>1, <2>2, BlockSizes DEF BlockOf, Within
<1>6. ASSUME v3 % HourTicks = 0, NEW i \in 1..(k - 1)
      PROVE  bs[i].end <= bs[i + 1].start
  <2>1. i \in 1..k /\ i + 1 \in 1..k /\ i < i + 1
    BY <1>1
  <2>2. bs[i].end <= bs[i + 1].first
    BY <1>1, <2>1
  <2> DEFINE s == bs[i].start
             t == bs[i + 1].start
  <2>3. s \in Nat /\ s % HourTicks = 0 /\ bs[i].end = s + v3
    BY <1>0, <1>1, <2>1, HourFloors
  <2>4. t \in Nat /\ t % HourTicks = 0 /\ bs[i + 1].first < t + HourTicks
    BY <1>0, <1>1, <2>1, HourFloors
  <2>5. s + v3 < t + HourTicks
    BY <1>0, <1>1, <2>1, <2>2, <2>3, <2>4
  <2> HIDE DEF s, t
  <2>6. s + v3 <= t
    BY <1>0, <1>6, <2>3, <2>4, <2>5, WholeHours
  <2> QED  BY <2>3, <2>6 DEF t
<1> QED  BY <1>1, <1>3, <1>4, <1>5, <1>6 DEF B!BlocksPartition, bs

-----------------------------------------------------------------------------
(* Blocks: what is summed over them *)

\* A sum of steps, each at most (exactly) as high as the step of g.
LEMMA SumClimbs ==
    ASSUME NEW n \in Nat, NEW f, NEW g, g[0] \in Int,
           \A i \in 1..n : f[i] \in Int /\ g[i] \in Int
    PROVE  /\ SumFunctionOnSet(f, 1..n) \in Int
           /\ (\A i \in 1..n : f[i] <= g[i] - g[i - 1]) =>
                  SumFunctionOnSet(f, 1..n) <= g[n] - g[0]
           /\ (\A i \in 1..n : f[i] = g[i] - g[i - 1]) =>
                  SumFunctionOnSet(f, 1..n) = g[n] - g[0]
<1> DEFINE sum(i) == SumFunctionOnSet(f, 1..i)
           Below == {i \in 0..n : sum(i) \in Int /\ sum(i) <= g[i] - g[0]}
           Same == {i \in 0..n : sum(i) \in Int /\ sum(i) = g[i] - g[0]}
<1>1. sum(0) = 0
  <2>1. 1..0 = {}
    OBVIOUS
  <2> QED  BY <2>1, SumEmpty
<1>2. ASSUME NEW i \in 1..n PROVE sum(i) \in Int /\ sum(i - 1) \in Int /\ sum(i) = sum(i - 1) + f[i]
  <2>1. 1..i = (1..(i - 1)) \cup {i} /\ i \notin 1..(i - 1)
    OBVIOUS
  <2>2. IsFiniteSet(1..(i - 1)) /\ IsFiniteSet(1..i)
    BY FS_Interval
  <2>3. \A j \in (1..(i - 1)) \cup {i} : f[j] \in Int
    OBVIOUS
  <2>4. SumFunctionOnSet(f, (1..(i - 1)) \cup {i}) = sum(i - 1) + f[i]
    BY <2>1, <2>2, <2>3, SumAdds
  <2>5. sum(i - 1) \in Int /\ sum(i) \in Int
    BY <2>1, <2>2, <2>3, SumRemoves
  <2> QED  BY <2>1, <2>4, <2>5
<1>3. sum(n) \in Int
  BY <1>1, <1>2
<1> HIDE DEF sum
<1>4. ASSUME \A i \in 1..n : f[i] <= g[i] - g[i - 1] PROVE sum(n) <= g[n] - g[0]
  <2>1. 0 \in Below
    BY <1>1
  <2>2. ASSUME NEW i \in 1..n, i - 1 \in Below PROVE i \in Below
    <3>1. g[i - 1] \in Int /\ g[i] \in Int /\ f[i] \in Int /\ i \in 0..n
      <4>1. i - 1 = 0 \/ i - 1 \in 1..n
        OBVIOUS
      <4> QED  BY <4>1
    <3> QED  BY <1>2, <1>4, <2>2, <3>1
  <2>3. n \in Below
    <3> HIDE DEF Below
    <3> QED  BY <2>1, <2>2, UpTo
  <2> QED  BY <2>3
<1>5. ASSUME \A i \in 1..n : f[i] = g[i] - g[i - 1] PROVE sum(n) = g[n] - g[0]
  <2>1. 0 \in Same
    BY <1>1
  <2>2. ASSUME NEW i \in 1..n, i - 1 \in Same PROVE i \in Same
    <3>1. g[i - 1] \in Int /\ g[i] \in Int /\ f[i] \in Int /\ i \in 0..n
      <4>1. i - 1 = 0 \/ i - 1 \in 1..n
        OBVIOUS
      <4> QED  BY <4>1
    <3> QED  BY <1>2, <1>5, <2>2, <3>1
  <2>3. n \in Same
    <3> HIDE DEF Same
    <3> QED  BY <2>1, <2>2, UpTo
  <2> QED  BY <2>3
<1> QED  BY <1>3, <1>4, <1>5 DEF sum

\* The tokens of two sets of turns.
LEMMA TokensUnion ==
    ASSUME NEW Y, TurnSet(Y), NEW A \in SUBSET Y, NEW C \in SUBSET Y, A \cap C = {}
    PROVE  /\ B!TokensOf(A \cup C) = B!TokensOf(A) + B!TokensOf(C)
           /\ B!TokensOf(A) \in Nat /\ B!TokensOf(C) \in Nat
<1> DEFINE f == [y \in Y |-> y.size]
<1>1. A \cup C \in SUBSET Y /\ (A \cup C) \ C = A /\ C \in SUBSET (A \cup C)
  OBVIOUS
<1>2. IsFiniteSet(A) /\ IsFiniteSet(C) /\ IsFiniteSet(A \cup C)
  BY <1>1, FS_Subset DEF TurnSet
<1>3. \A y \in Y : f[y] \in Nat /\ f[y] \in Int
  BY DEF TurnSet
<1>4. /\ B!TokensOf(A) = SumFunctionOnSet(f, A) /\ B!TokensOf(C) = SumFunctionOnSet(f, C)
      /\ B!TokensOf(A \cup C) = SumFunctionOnSet(f, A \cup C)
  BY <1>1, TokensAgree
<1> HIDE DEF f
<1>5. SumFunctionOnSet(f, A \cup C) = SumFunctionOnSet(f, (A \cup C) \ C) + SumFunctionOnSet(f, C)
  BY <1>1, <1>2, <1>3, SumSplits
<1>6. SumFunctionOnSet(f, A) \in Nat /\ SumFunctionOnSet(f, C) \in Nat
  BY <1>2, <1>3, SumNat
<1> QED  BY <1>1, <1>4, <1>5, <1>6

LEMMA CoveredTokens ==
    ASSUME NEW len \in Nat, HourTicks \in Nat \ {0}, HourTicks <= len,
           NEW Y, TurnSet(Y), NEW bs, CutOf(bs, Y, len)
    PROVE  /\ B!TokensOf(Covered(bs, Y, 0)) = 0
           /\ Covered(bs, Y, Len(bs)) = Y
           /\ \A i \in 0..Len(bs) : B!TokensOf(Covered(bs, Y, i)) \in Nat
           /\ \A i \in 1..Len(bs) :
                  bs[i].tokens = B!TokensOf(Covered(bs, Y, i)) - B!TokensOf(Covered(bs, Y, i - 1))
<1> DEFINE k == Len(bs)
<1>0. Neat(bs, Y, len)
  BY CutFacts
<1>1. k \in Nat /\ \A y \in Y : \A i, j \in 1..k : B!InBlock(bs[i], y) /\ B!InBlock(bs[j], y) => i = j
  BY <1>0 DEF Neat
<1>2. \A y \in Y : \E i \in 1..k : B!InBlock(bs[i], y)
  BY DEF CutOf
<1>3. \A i \in 1..k : bs[i].tokens = B!TokensOf(Within(bs[i], Y))
  BY DEF CutOf, BlockOf
<1> HIDE DEF k
<1>4. Covered(bs, Y, 0) = {}
  BY DEF Covered
<1>5. Covered(bs, Y, k) = Y
  BY <1>2 DEF Covered
<1>6. \A i \in 0..k : B!TokensOf(Covered(bs, Y, i)) \in Nat
  <2> SUFFICES ASSUME NEW i \in 0..k PROVE B!TokensOf(Covered(bs, Y, i)) \in Nat
    OBVIOUS
  <2>1. Covered(bs, Y, i) \in SUBSET Y /\ {} \in SUBSET Y /\ Covered(bs, Y, i) \cap {} = {}
    BY DEF Covered
  <2> QED  BY <2>1, TokensUnion
<1>7. ASSUME NEW i \in 1..k
      PROVE  B!TokensOf(Covered(bs, Y, i)) = B!TokensOf(Covered(bs, Y, i - 1)) + bs[i].tokens
             /\ bs[i].tokens \in Nat
  <2>1. \A j : j \in 1..i <=> (j \in 1..(i - 1) \/ j = i)
    BY <1>1
  <2>2. Covered(bs, Y, i) = Covered(bs, Y, i - 1) \cup Within(bs[i], Y)
    BY <2>1 DEF Covered, Within
  <2>3. Covered(bs, Y, i - 1) \cap Within(bs[i], Y) = {}
    <3>1. \A j \in 1..(i - 1) : j \in 1..k /\ j # i
      BY <1>1
    <3> QED  BY <1>1, <3>1 DEF Covered, Within
  <2>4. Covered(bs, Y, i - 1) \in SUBSET Y /\ Within(bs[i], Y) \in SUBSET Y
    BY DEF Covered, Within
  <2> QED  BY <1>3, <2>2, <2>3, <2>4, TokensUnion
<1>8. \A i \in 1..k : i \in 0..k /\ i - 1 \in 0..k
  BY <1>1
<1>9. \A i \in 1..k :
          bs[i].tokens = B!TokensOf(Covered(bs, Y, i)) - B!TokensOf(Covered(bs, Y, i - 1))
  BY <1>6, <1>7, <1>8
<1> QED  BY <1>4, <1>5, <1>6, <1>9, TokensNone DEF k

LEMMA BlocksPast ==
    ASSUME NEW len \in Nat, HourTicks \in Nat \ {0}, HourTicks <= len, v1 \in Nat,
           NEW Y, TurnSet(Y), \A y \in Y : y.at <= v1, NEW bs, CutOf(bs, Y, len)
    PROVE  /\ \A i \in 1..Len(bs) : bs[i].first <= v1 /\ bs[i].last <= v1
           /\ \A i \in 1..Len(bs) : B!IsActive(bs[i], len) => i = Len(bs)
<1> DEFINE k == Len(bs)
<1>0. Neat(bs, Y, len)
  BY CutFacts
<1>1. /\ k \in Nat /\ \A i \in 1..k : bs[i].end \in Nat /\ bs[i].first \in Nat
      /\ \A i, j \in 1..k : i < j => bs[i].end <= bs[j].first
  BY <1>0 DEF Neat
<1>2. \A i \in 1..k : bs[i].first <= v1 /\ bs[i].last <= v1
  BY DEF CutOf, BlockOf
<1> HIDE DEF k
<1>3. ASSUME NEW i \in 1..k, i # k PROVE ~B!IsActive(bs[i], len)
  <2>1. k \in 1..k /\ i < k
    BY <1>1, <1>3
  <2>2. bs[i].end <= v1
    BY <1>1, <1>2, <2>1
  <2> QED  BY <1>1, <2>2 DEF B!IsActive
<1> QED  BY <1>2, <1>3 DEF k

LEMMA OverlapFacts ==
    ASSUME NEW len, v1 \in Nat, HourTicks \in Nat \ {0}, NEW b, b.first \in Nat, b.last \in Nat,
           b.gap = FALSE, b.first <= b.last, b.last <= v1
    PROVE  LET o == B!Overlap(b, len) IN
           /\ o.ticks \in Nat
           /\ o.ticks <= Lately(UsedTill(b, len)) - Lately(b.first)
           /\ o.ticks # 0 => o.span \in Nat \ {0} /\ o.ticks <= o.span
           /\ UsedTill(b, len) \in Nat /\ b.first <= UsedTill(b, len)
<1> DEFINE end == UsedTill(b, len)
           from == IF b.first > v1 - HourTicks THEN b.first ELSE v1 - HourTicks
           to == IF end < v1 THEN end ELSE v1
           o == B!Overlap(b, len)
<1>1. end \in Nat /\ b.first <= end /\ end <= v1
  BY DEF UsedTill
<1>2. /\ o.span = end - b.first
      /\ o.ticks = IF ~b.gap /\ end > v1 - HourTicks /\ end > b.first /\ to > from
                   THEN to - from ELSE 0
  BY Zenon DEF B!Overlap, UsedTill
<1> HIDE DEF end, o
<1>3. /\ o.ticks \in Nat /\ o.ticks <= Lately(end) - Lately(b.first)
      /\ o.ticks # 0 => o.span \in Nat \ {0} /\ o.ticks <= o.span
  BY <1>1, <1>2 DEF Lately
<1> QED  BY <1>1, <1>3 DEF end, o

\* Two roundings down project no more than one to the nearest.
LEMMA RoundingsDown ==
    ASSUME NEW t \in Nat, NEW left \in Nat, NEW span \in Nat \ {0}, NEW h \in Nat \ {0}
    PROVE  /\ (((t * h) \div span) * left) \div h \in Nat
           /\ (2 * t * left + span) \div (2 * span) \in Nat
           /\ (((t * h) \div span) * left) \div h <= (2 * t * left + span) \div (2 * span)
<1> DEFINE q == (t * h) \div span
           x == (q * left) \div h
           a == t * left
           y == (2 * t * left + span) \div (2 * span)
<1>1. t * h \in Nat /\ a \in Nat
  OBVIOUS
<1>2. q \in Nat /\ q * span <= t * h
  BY <1>1, Division
<1> HIDE DEF q
<1>3. q * left \in Nat
  BY <1>2
<1>4. x \in Nat /\ x * h <= q * left
  BY <1>3, Division
<1>5. 2 * t * left + span = 2 * a + span /\ 2 * a + span \in Nat /\ 2 * span \in Nat \ {0}
  OBVIOUS
<1>6. y \in Nat /\ 2 * a + span < (y + 1) * (2 * span)
  <2>1. y = (2 * a + span) \div (2 * span)
    BY <1>5
  <2> HIDE DEF y, a
  <2> QED  BY <1>5, <2>1, Division
<1> HIDE DEF x, y, a
<1>7. x * span <= a
  <2>1. (x * h) * span <= (q * left) * span
    <3>1. x * h \in Nat
      BY <1>4
    <3> DEFINE m == x * h
               n == q * left
    <3> HIDE DEF m, n
    <3>2. m * span <= n * span
      BY <1>3, <1>4, <3>1 DEF m, n
    <3> QED  BY <3>2 DEF m, n
  <2>2. (q * left) * span = (q * span) * left
    BY <1>2
  <2>3. (q * span) * left <= (t * h) * left
    <3> DEFINE m == q * span
               n == t * h
    <3>1. m \in Nat
      BY <1>2
    <3> HIDE DEF m, n
    <3>2. m * left <= n * left
      BY <1>1, <1>2, <3>1 DEF m, n
    <3> QED  BY <3>2 DEF m, n
  <2>4. (x * h) * span = h * (x * span) /\ (t * h) * left = h * a /\ x * span \in Nat
    BY <1>4 DEF a
  <2>5. h * (x * span) <= h * a
    <3>1. (x * h) * span \in Nat /\ (q * left) * span \in Nat /\ (t * h) * left \in Nat
      BY <1>1, <1>2, <1>3, <1>4
    <3> QED  BY <2>1, <2>2, <2>3, <2>4, <3>1
  <2> DEFINE m == x * span
  <2> HIDE DEF m
  <2>6. m \in Nat /\ h * m <= h * a
    BY <2>4, <2>5 DEF m
  <2>7. m <= a
    <3> SUFFICES ASSUME a + 1 <= m PROVE FALSE
      BY <1>1, <2>6
    <3>1. h * (a + 1) <= h * m
      BY <1>1, <2>6
    <3>2. h * (a + 1) = h * a + h
      BY <1>1
    <3>3. h * a \in Nat /\ h * m \in Nat
      BY <1>1, <2>6
    <3> QED  BY <2>6, <3>1, <3>2, <3>3
  <2> QED  BY <2>7 DEF m
<1>8. x <= y
  <2> SUFFICES ASSUME y + 1 <= x PROVE FALSE
    BY <1>4, <1>6
  <2>1. (y + 1) * (2 * span) <= x * (2 * span)
    BY <1>4, <1>6
  <2>2. x * (2 * span) = 2 * (x * span) /\ x * span \in Nat
    BY <1>4
  <2>3. (y + 1) * (2 * span) \in Nat
    BY <1>6
  <2> QED  BY <1>1, <1>6, <1>7, <2>1, <2>2, <2>3
<1> QED  BY <1>4, <1>6, <1>8 DEF x, y, q, a

LEMMA ProjectionFacts ==
    ASSUME NEW len, v1 \in Nat, HourTicks \in Nat \ {0}, NEW b, b.first \in Nat, b.last \in Nat,
           b.end \in Nat, b.tokens \in Nat, b.entries \in Nat
    PROVE  /\ B!ProjectedTokens(b, len) \in Nat
           /\ B!ProjectedTokens(b, len) >= b.tokens
           /\ B!ProjectedCost(b, len) <= B!ProjectedTokens(b, len)
           /\ ~B!IsActive(b, len) => B!ProjectedTokens(b, len) = b.tokens
<1> DEFINE left == IF b.end > v1 THEN b.end - v1 ELSE 0
           span == b.last - b.first
<1>1. CASE ~B!HasRate(b) \/ ~B!IsActive(b, len)
  BY <1>1 DEF B!ProjectedTokens, B!ProjectedCost
<1>2. CASE B!HasRate(b) /\ B!IsActive(b, len)
  <2>1. left \in Nat /\ span \in Nat \ {0}
    BY <1>2 DEF B!HasRate
  <2>2. B!ProjectedTokens(b, len) = b.tokens + (2 * b.tokens * left + span) \div (2 * span)
    BY <1>2, Zenon DEF B!ProjectedTokens
  <2>3. B!ProjectedCost(b, len) = b.tokens + (((b.tokens * HourTicks) \div span) * left) \div HourTicks
    BY <1>2, Zenon DEF B!ProjectedCost, B!CostPerHour
  <2> HIDE DEF left, span
  <2> DEFINE x == (((b.tokens * HourTicks) \div span) * left) \div HourTicks
             y == (2 * b.tokens * left + span) \div (2 * span)
  <2>4. x \in Nat /\ y \in Nat /\ x <= y
    BY <2>1, RoundingsDown
  <2>5. B!ProjectedTokens(b, len) = b.tokens + y /\ B!ProjectedCost(b, len) = b.tokens + x
    BY <2>2, <2>3
  <2> HIDE DEF x, y
  <2> QED  BY <1>2, <2>4, <2>5
<1> QED  BY <1>1, <1>2

LEMMA RollingFacts ==
    ASSUME NEW len \in Nat, HourTicks \in Nat \ {0}, HourTicks <= len, v1 \in Nat,
           Unit \in Nat \ {0},
           NEW Y, TurnSet(Y), \A y \in Y : y.at <= v1, NEW bs, CutOf(bs, Y, len)
    PROVE  /\ B!RollingHour(bs, len).coverage <= HourTicks
           /\ B!RollingHour(bs, len).tokens <= Unit * B!TokensOf(Y)
<1> DEFINE k == Len(bs)
           ticks(i) == B!Overlap(bs[i], len).ticks
           span(i) == B!Overlap(bs[i], len).span
           share(i) == IF ticks(i) = 0 THEN 0 ELSE (bs[i].tokens * ticks(i) * Unit) \div span(i)
           f == [i \in DOMAIN bs |-> share(i)]
           c == [i \in DOMAIN bs |-> ticks(i)]
<1>0. Neat(bs, Y, len)
  BY CutFacts
<1>1. /\ k \in Nat /\ DOMAIN bs = 1..k
      /\ \A i \in 1..k : /\ bs[i].first \in Nat /\ bs[i].last \in Nat /\ bs[i].end \in Nat
                         /\ bs[i].tokens \in Nat /\ bs[i].gap = FALSE
                         /\ bs[i].first <= bs[i].last /\ bs[i].last < bs[i].end
      /\ \A i, j \in 1..k : i < j => bs[i].end <= bs[j].first
  BY <1>0 DEF Neat
<1>2. /\ \A i \in 1..k : bs[i].first <= v1 /\ bs[i].last <= v1
      /\ \A i \in 1..k : B!IsActive(bs[i], len) => i = k
  BY BlocksPast
<1>3. B!RollingHour(bs, len).tokens = SumFunctionOnSet(f, 1..k)
      /\ B!RollingHour(bs, len).coverage = SumFunctionOnSet(c, 1..k)
  <2>1. B!RollingHour(bs, len).tokens = B!SumFunctionOnSet(f, DOMAIN f)
        /\ B!RollingHour(bs, len).coverage = B!SumFunctionOnSet(c, DOMAIN c)
    BY Zenon DEF B!RollingHour, B!Total
  <2>2. DOMAIN f = DOMAIN bs /\ DOMAIN c = DOMAIN bs
    OBVIOUS
  <2> HIDE DEF f, c
  <2> QED  BY <1>1, <2>1, <2>2, BlockSums
<1>4. \A i \in 1..k : f[i] = share(i) /\ c[i] = ticks(i)
  <2> HIDE DEF k, ticks, share
  <2> QED  BY <1>1
<1>5. \A i \in 1..k :
         /\ ticks(i) \in Nat
         /\ ticks(i) <= Lately(UsedTill(bs[i], len)) - Lately(bs[i].first)
         /\ ticks(i) # 0 => span(i) \in Nat \ {0} /\ ticks(i) <= span(i)
         /\ UsedTill(bs[i], len) \in Nat /\ bs[i].first <= UsedTill(bs[i], len)
  <2> HIDE DEF k
  <2> QED  BY <1>1, <1>2, OverlapFacts
<1> HIDE DEF f, c, ticks, span, k
<1>6. SumFunctionOnSet(c, 1..k) <= HourTicks
  <2> DEFINE till == [i \in 0..k |-> IF i = 0 THEN v1 - HourTicks
                                     ELSE Lately(UsedTill(bs[i], len))]
  <2>1. \A i \in 1..k : i - 1 \in 0..k /\ i \in 0..k /\ i # 0
    BY <1>1
  <2>2. \A i \in 1..k : till[i] = Lately(UsedTill(bs[i], len))
    BY <2>1
  <2>3. till[0] = v1 - HourTicks
    BY <1>1
  <2>4. \A x \in Nat : Lately(x) \in Int /\ v1 - HourTicks <= Lately(x) /\ Lately(x) <= v1
    BY DEF Lately
  <2>5. \A x, y \in Nat : x <= y => Lately(x) <= Lately(y)
    BY DEF Lately
  <2> HIDE DEF till
  <2>6. ASSUME NEW i \in 1..k PROVE c[i] <= till[i] - till[i - 1] /\ c[i] \in Int /\ till[i] \in Int
    <3>1. till[i - 1] <= Lately(bs[i].first) /\ till[i - 1] \in Int
      <4>1. CASE i = 1
        BY <1>1, <2>3, <2>4, <4>1
      <4>2. CASE i # 1
        <5>1. i - 1 \in 1..k /\ i - 1 < i /\ i - 1 # k
          BY <1>1, <4>2
        <5>2. UsedTill(bs[i - 1], len) = bs[i - 1].last
          BY <1>2, <5>1 DEF UsedTill
        <5>3. bs[i - 1].last <= bs[i].first
          BY <1>1, <5>1
        <5> QED  BY <1>1, <2>2, <2>4, <2>5, <5>1, <5>2, <5>3
      <4> QED  BY <4>1, <4>2
    <3>2. c[i] = ticks(i) /\ ticks(i) \in Nat /\ till[i] = Lately(UsedTill(bs[i], len))
          /\ ticks(i) <= till[i] - Lately(bs[i].first)
      BY <1>4, <1>5, <2>2
    <3>3. Lately(bs[i].first) \in Int /\ till[i] \in Int
      BY <1>1, <1>5, <2>4, <3>2
    <3> QED  BY <3>1, <3>2, <3>3
  <2>7. till[0] \in Int
    BY <2>3
  <2>8. SumFunctionOnSet(c, 1..k) <= till[k] - till[0] /\ SumFunctionOnSet(c, 1..k) \in Int
    BY <1>1, <2>6, <2>7, SumClimbs
  <2>9. till[k] <= v1 /\ till[k] \in Int
    <3>1. CASE k = 0
      BY <2>3, <3>1
    <3>2. CASE k # 0
      <4>1. k \in 1..k
        BY <1>1, <3>2
      <4> QED  BY <1>5, <2>2, <2>4, <4>1
    <3> QED  BY <3>1, <3>2
  <2> QED  BY <2>3, <2>8, <2>9
<1>7. SumFunctionOnSet(f, 1..k) <= Unit * B!TokensOf(Y)
  <2> DEFINE g == [i \in 0..k |-> Unit * B!TokensOf(Covered(bs, Y, i))]
  <2>1. /\ B!TokensOf(Covered(bs, Y, 0)) = 0 /\ Covered(bs, Y, k) = Y
        /\ \A i \in 0..k : B!TokensOf(Covered(bs, Y, i)) \in Nat
        /\ \A i \in 1..k :
             bs[i].tokens = B!TokensOf(Covered(bs, Y, i)) - B!TokensOf(Covered(bs, Y, i - 1))
    <3>1. /\ B!TokensOf(Covered(bs, Y, 0)) = 0 /\ Covered(bs, Y, Len(bs)) = Y
          /\ \A i \in 0..Len(bs) : B!TokensOf(Covered(bs, Y, i)) \in Nat
          /\ \A i \in 1..Len(bs) :
               bs[i].tokens = B!TokensOf(Covered(bs, Y, i)) - B!TokensOf(Covered(bs, Y, i - 1))
      BY ONLY TurnSet(Y), CutOf(bs, Y, len), len \in Nat, HourTicks \in Nat \ {0},
              HourTicks <= len, CoveredTokens
    <3> QED  BY <3>1 DEF k
  <2>2. \A i \in 0..k : g[i] = Unit * B!TokensOf(Covered(bs, Y, i)) /\ g[i] \in Int
    BY <2>1
  <2> HIDE DEF g
  <2>3. ASSUME NEW i \in 1..k PROVE f[i] <= g[i] - g[i - 1] /\ f[i] \in Int /\ g[i] \in Int
    <3> DEFINE a == B!TokensOf(Covered(bs, Y, i))
               d == B!TokensOf(Covered(bs, Y, i - 1))
               t == bs[i].tokens
               o == ticks(i)
               w == span(i)
    <3>1. i \in 0..k /\ i - 1 \in 0..k
      BY <1>1
    <3>2. a \in Nat /\ d \in Nat /\ t = a - d /\ t \in Nat /\ g[i] = Unit * a /\ g[i - 1] = Unit * d
          /\ g[i] \in Int
      BY <1>1, <2>1, <2>2, <3>1
    <3>3. f[i] = (IF o = 0 THEN 0 ELSE (t * o * Unit) \div w) /\ o \in Nat
          /\ (o # 0 => w \in Nat \ {0} /\ o <= w)
      BY <1>4, <1>5
    <3> HIDE DEF a, d, t, o, w
    <3>4. Unit * a - Unit * d = Unit * t /\ Unit * t \in Nat
      BY <3>2
    <3>5. CASE o = 0
      BY <3>2, <3>3, <3>4, <3>5
    <3>6. CASE o # 0
      <4>1. t * o * Unit = (Unit * t) * o
        BY <3>2, <3>3
      <4> DEFINE u == Unit * t
                 z == (u * o) \div w
      <4>2. u \in Nat /\ u * o \in Nat
        BY <3>2, <3>3, <3>4
      <4> HIDE DEF u
      <4>3. z \in Nat /\ z * w <= u * o
        BY <3>3, <3>6, <4>2, Division
      <4> HIDE DEF z
      <4>4. u * o <= u * w
        BY <3>3, <3>6, <4>2
      <4>5. z <= u
        <5> SUFFICES ASSUME u + 1 <= z PROVE FALSE
          BY <4>2, <4>3
        <5>1. (u + 1) * w <= z * w
          BY <3>3, <3>6, <4>2, <4>3
        <5>2. (u + 1) * w = u * w + w /\ u * w \in Nat
          BY <3>3, <3>6, <4>2
        <5> QED  BY <3>3, <3>6, <4>2, <4>3, <4>4, <5>1, <5>2
      <4>6. f[i] = z
        BY <3>3, <3>6, <4>1 DEF u, z
      <4> QED  BY <3>2, <3>4, <4>2, <4>3, <4>5, <4>6 DEF u
    <3> QED  BY <3>5, <3>6
  <2>4. g[0] = 0 /\ g[k] = Unit * B!TokensOf(Y) /\ B!TokensOf(Y) \in Nat
    BY <1>1, <2>1, <2>2
  <2>7. g[0] \in Int /\ k \in Nat
    BY <1>1, <2>4
  <2>5. SumFunctionOnSet(f, 1..k) <= g[k] - g[0]
    BY <2>3, <2>7, SumClimbs
  <2>6. g[k] \in Int
    BY <2>4
  <2> QED  BY <2>4, <2>5, <2>6
<1> QED  BY <1>3, <1>6, <1>7

LEMMA OneActiveSound == ASSUME B!Inv, LongEnough PROVE B!OneActive
<1> DEFINE bs == B!IdentifyBlocks(B!LoadTurns(0), v3)
           k == Len(bs)
<1>0. /\ v1 \in Nat /\ v3 \in Nat /\ HourTicks \in Nat \ {0} /\ HourTicks <= v3 /\ TurnSet(v2)
      /\ Unit \in Nat \ {0} /\ (\A t \in v2 : t.at <= v1) /\ CutOf(bs, v2, v3)
  BY BlockState, BlockConstants, AllCut
<1> HIDE DEF bs
<1>n. Neat(bs, v2, v3)
  BY <1>0, CutFacts
<1>1. /\ k \in Nat /\ DOMAIN bs = 1..k
      /\ \A i \in 1..k :
           /\ bs[i].first \in Nat /\ bs[i].last \in Nat
           /\ bs[i].end \in Nat /\ bs[i].tokens \in Nat /\ bs[i].entries \in Nat
  BY <1>n DEF Neat
<1>r. B!Range(bs) = {bs[i] : i \in 1..k}
  BY <1>1 DEF B!Range
<1>2. \A b \in B!ActiveOf(bs, v3) : b = B!Last(bs)
  <2> SUFFICES ASSUME NEW b \in B!ActiveOf(bs, v3) PROVE b = B!Last(bs)
    OBVIOUS
  <2>1. PICK i \in 1..k : b = bs[i] /\ B!IsActive(bs[i], v3)
    BY <1>r DEF B!ActiveOf
  <2>2. i = k
    BY <1>0, <2>1, BlocksPast
  <2> QED  BY <2>1, <2>2 DEF B!Last
<1>3. B!RollingHour(bs, v3).coverage <= HourTicks
      /\ B!RollingHour(bs, v3).tokens <= Unit * B!TokensOf(v2)
  BY <1>0, RollingFacts
<1>4. ASSUME NEW b \in B!Range(bs)
      PROVE  /\ B!ProjectedTokens(b, v3) >= b.tokens
             /\ B!ProjectedCost(b, v3) <= B!ProjectedTokens(b, v3)
             /\ ~B!IsActive(b, v3) => B!ProjectedTokens(b, v3) = b.tokens
  <2>1. PICK i \in 1..k : b = bs[i]
    BY <1>r
  <2> QED  BY <1>0, <1>1, <2>1, ProjectionFacts
<1> QED  BY <1>2, <1>3, <1>4 DEF B!OneActive, bs

-----------------------------------------------------------------------------
(* Blocks: the table with its pauses *)

LEMMA TiledNone == Tiled(<<>>) /\ RowTokens(<<>>) = 0 /\ NoPauses(<<>>) = {}
<1>1. DOMAIN <<>> = {}
  OBVIOUS
<1>2. RowTokens(<<>>) = 0
  BY <1>1, SumEmpty DEF RowTokens
<1> QED  BY <1>1, <1>2 DEF Tiled, NoPauses

\* One more row at the end.
LEMMA TiledMore ==
    ASSUME NEW rs, Tiled(rs), NEW r \in TableRows, r.start < r.end,
           Len(rs) # 0 => /\ r.start <= rs[Len(rs)].end
                          /\ ~(rs[Len(rs)].gap /\ r.gap)
    PROVE  /\ Tiled(Append(rs, r)) /\ Len(Append(rs, r)) = Len(rs) + 1
           /\ Append(rs, r)[Len(rs) + 1] = r
           /\ RowTokens(Append(rs, r)) = RowTokens(rs) + r.tokens
           /\ NoPauses(Append(rs, r)) = NoPauses(rs) \cup (IF r.gap THEN {} ELSE {r})
<1> DEFINE m == Len(rs)
           new == Append(rs, r)
           f == [i \in DOMAIN new |-> new[i].tokens]
           h == [i \in DOMAIN rs |-> rs[i].tokens]
<1>1. rs \in Seq(TableRows) /\ m \in Nat /\ DOMAIN rs = 1..m /\ \A i \in 1..m : rs[i] \in TableRows
  BY LenProperties DEF Tiled
<1>2. new \in Seq(TableRows) /\ Len(new) = m + 1 /\ new[m + 1] = r /\ \A i \in 1..m : new[i] = rs[i]
  BY <1>1, AppendProperties
<1>3. DOMAIN new = 1..(m + 1)
  <2> HIDE DEF new
  <2> QED  BY <1>1, <1>2, LenProperties
<1> HIDE DEF new
<1>4. 1..(m + 1) = 1..m \cup {m + 1} /\ m + 1 \notin 1..m
  BY <1>1
<1>5. \A i \in 1..(m + 1) : new[i].start < new[i].end
  BY <1>2, <1>4 DEF Tiled
<1>6. \A i \in 1..m : new[i + 1].start <= new[i].end /\ ~(new[i].gap /\ new[i + 1].gap)
  <2> SUFFICES ASSUME NEW i \in 1..m
               PROVE  new[i + 1].start <= new[i].end /\ ~(new[i].gap /\ new[i + 1].gap)
    OBVIOUS
  <2>1. CASE i = m
    <3>1. m # 0 /\ new[m] = rs[m]
      BY <1>1, <1>2, <2>1
    <3> QED  BY <1>2, <2>1, <3>1
  <2>2. CASE i # m
    <3>1. i \in 1..(m - 1) /\ i + 1 \in 1..m
      <4>1. m \in Nat
        BY <1>1
      <4> HIDE DEF m
      <4> QED  BY <2>2, <4>1
    <3> QED  BY <1>2, <3>1 DEF Tiled
  <2> QED  BY <2>1, <2>2
<1>7. Tiled(new)
  <2>1. (m + 1) - 1 = m
    BY <1>1
  <2> QED  BY <1>2, <1>5, <1>6, <2>1 DEF Tiled
<1>8. RowTokens(new) = RowTokens(rs) + r.tokens
  <2>1. \A i \in 1..m : f[i] = h[i] /\ f[i] \in Int /\ h[i] \in Int
    <3>1. \A i \in 1..m : rs[i].tokens \in Nat
      BY <1>1 DEF TableRows
    <3>2. \A i \in 1..m : i \in DOMAIN new /\ i \in DOMAIN rs
      BY <1>1, <1>3, <1>4
    <3> QED  BY <1>2, <3>1, <3>2
  <2>2. f[m + 1] = r.tokens /\ f[m + 1] \in Int
    <3>1. m + 1 \in DOMAIN new
      BY <1>3, <1>4
    <3> QED  BY <1>2, <3>1 DEF TableRows
  <2>3. IsFiniteSet(1..m)
    BY <1>1, FS_Interval
  <2>4. RowTokens(new) = SumFunctionOnSet(f, 1..m \cup {m + 1})
    BY <1>3, <1>4 DEF RowTokens
  <2>5. RowTokens(rs) = SumFunctionOnSet(h, 1..m)
    BY <1>1 DEF RowTokens
  <2> HIDE DEF f, h
  <2>6. SumFunctionOnSet(f, 1..m \cup {m + 1}) = SumFunctionOnSet(f, 1..m) + f[m + 1]
    BY <1>4, <2>1, <2>2, <2>3, SumAdds
  <2>7. SumFunctionOnSet(f, 1..m) = SumFunctionOnSet(h, 1..m)
    BY <2>1, <2>3, SumAgrees
  <2> QED  BY <2>2, <2>4, <2>5, <2>6, <2>7
<1>9. NoPauses(new) = NoPauses(rs) \cup (IF r.gap THEN {} ELSE {r})
  <2>1. NoPauses(new) = {new[i] : i \in {j \in 1..(m + 1) : ~new[j].gap}}
    BY <1>3 DEF NoPauses
  <2>2. NoPauses(rs) = {rs[i] : i \in {j \in 1..m : ~rs[j].gap}}
    BY <1>1 DEF NoPauses
  <2> QED  BY <1>2, <1>4, <2>1, <2>2
<1> QED  BY <1>2, <1>7, <1>8, <1>9 DEF new

LEMMA JoinOne ==
    ASSUME NEW X, NEW s \in Seq(X), NEW a \in X
    PROVE  s \o <<a>> = Append(s, a)
BY AppendIsConcat

LEMMA JoinTwo ==
    ASSUME NEW X, NEW s \in Seq(X), NEW a \in X, NEW b \in X
    PROVE  s \o <<a, b>> = Append(Append(s, a), b)
<1>1. <<a>> \in Seq(X) /\ <<b>> \in Seq(X)
  OBVIOUS
<1>4. Append(s, a) \in Seq(X)
  BY AppendProperties
<1>2. Append(Append(s, a), b) = (s \o <<a>>) \o <<b>>
  BY <1>1, <1>4, JoinOne
<1>3. (s \o <<a>>) \o <<b>> = s \o (<<a>> \o <<b>>)
  BY <1>1, ConcatAssociative
<1>5. <<a>> \o <<b>> = <<a, b>>
  <2> DEFINE p == <<a>>
             q == <<b>>
             pair == <<a, b>>
  <2>1. Len(p) = 1 /\ p[1] = a /\ Len(q) = 1 /\ q[1] = b
    OBVIOUS
  <2>2. pair \in Seq(X) /\ Len(pair) = 2 /\ pair[1] = a /\ pair[2] = b
    OBVIOUS
  <2> HIDE DEF p, q, pair
  <2>3. p \in Seq(X) /\ q \in Seq(X)
    BY <1>1 DEF p, q
  <2>4. p \o q \in Seq(X) /\ Len(p \o q) = 2 /\ (p \o q)[1] = a /\ (p \o q)[2] = b
    <3>1. /\ p \o q \in Seq(X) /\ Len(p \o q) = Len(p) + Len(q)
          /\ \A i \in 1..Len(p) + Len(q) :
               (p \o q)[i] = IF i <= Len(p) THEN p[i] ELSE q[i - Len(p)]
      BY <2>3, ConcatProperties
    <3> DEFINE w == p \o q
    <3> HIDE DEF w
    <3>2. w \in Seq(X) /\ Len(w) = 2 /\ \A i \in 1..2 : w[i] = IF i <= 1 THEN p[i] ELSE q[i - 1]
      BY <2>1, <3>1 DEF w
    <3>3. w[1] = p[1] /\ w[2] = q[1]
      BY <3>2
    <3> QED  BY <2>1, <3>2, <3>3 DEF w
  <2>5. \A i \in 1..2 : i = 1 \/ i = 2
    OBVIOUS
  <2>6. p \o q = pair
    <3> DEFINE w == p \o q
    <3> HIDE DEF w
    <3>1. w \in Seq(X) /\ Len(w) = Len(pair) /\ \A i \in 1..Len(w) : w[i] = pair[i]
      BY <2>2, <2>4, <2>5 DEF w
    <3>2. w = pair
      BY <2>2, <3>1, SeqEqual
    <3> QED  BY <3>2 DEF w
  <2> QED  BY <2>6 DEF p, q, pair
<1> QED  BY <1>2, <1>3, <1>5

LEMMA TableGrows ==
    ASSUME NEW len \in Nat, HourTicks \in Nat \ {0}, HourTicks <= len,
           NEW Y, TurnSet(Y), NEW bs, CutOf(bs, Y, len), NEW n \in 1..Len(bs),
           NEW rs, TableOf(rs, bs, Y, n - 1)
    PROVE  TableOf(rs \o B!WithGap(bs, n), bs, Y, n)
<1> DEFINE k == Len(bs)
           m == Len(rs)
           b == bs[n]
           one == Append(rs, b)
           g == B!Gap(b, bs[n + 1])
           two == Append(one, g)
<1>0. Neat(bs, Y, len)
  BY CutFacts
<1>1. /\ k \in Nat
      /\ \A i \in 1..k :
           /\ bs[i] \in Pieces /\ bs[i].start \in Nat /\ bs[i].end \in Nat /\ bs[i].tokens \in Nat
           /\ bs[i].gap = FALSE /\ bs[i].start < bs[i].end
  <2>1. \A i \in 1..k : bs[i].start < bs[i].end
    BY <1>0 DEF Neat
  <2> QED  BY <1>0, <2>1 DEF Neat
<1>2. /\ B!TokensOf(Covered(bs, Y, n - 1)) \in Nat /\ B!TokensOf(Covered(bs, Y, n)) \in Nat
      /\ b.tokens = B!TokensOf(Covered(bs, Y, n)) - B!TokensOf(Covered(bs, Y, n - 1))
  <2>1. n \in 0..k /\ n - 1 \in 0..k
    BY <1>1
  <2> QED  BY <2>1, CoveredTokens
<1>3. b \in TableRows
  BY <1>1 DEF Pieces, TableRows
<1>4. Tiled(rs) /\ rs \in Seq(TableRows) /\ m \in Nat
  BY LenProperties DEF TableOf, Tiled
<1> HIDE DEF k
<1>5. m # 0 => b.start <= rs[m].end /\ ~(rs[m].gap /\ b.gap)
  <2>1. m # 0 => n - 1 # 0 /\ n - 1 # k /\ (n - 1) + 1 = n
    BY <1>1 DEF TableOf, k
  <2> QED  BY <1>1, <2>1 DEF TableOf, k
<1>6. /\ Tiled(one) /\ Len(one) = m + 1 /\ one[m + 1] = b
      /\ RowTokens(one) = RowTokens(rs) + b.tokens
      /\ NoPauses(one) = NoPauses(rs) \cup {b}
  <2>1. b.start < b.end /\ b.gap = FALSE
    BY <1>1 DEF k
  <2> HIDE DEF b
  <2> QED  BY <1>3, <1>4, <1>5, <2>1, TiledMore
<1>7. RowTokens(one) = B!TokensOf(Covered(bs, Y, n))
  BY <1>2, <1>6 DEF TableOf
<1>8. NoPauses(one) = {bs[i] : i \in 1..n}
  <2>1. \A i : i \in 1..n <=> (i \in 1..(n - 1) \/ i = n)
    BY <1>1
  <2>2. NoPauses(rs) = {bs[i] : i \in 1..(n - 1)}
    BY DEF TableOf
  <2> QED  BY <1>6, <2>1, <2>2
<1> DEFINE bare == n = k \/ bs[n + 1].start <= b.end
<1>9. CASE bare
  <2>1. B!WithGap(bs, n) = <<b>>
    BY <1>9 DEF B!WithGap, k
  <2>2. rs \o <<b>> = one
    BY <1>3, <1>4, JoinOne
  <2>3. n # 0 /\ n # k => bs[n + 1].start <= one[Len(one)].end
    BY <1>6, <1>9
  <2>4. rs \o B!WithGap(bs, n) = one
    BY <2>1, <2>2
  <2>5. Len(one) # 0 /\ n # 0
    BY <1>4, <1>6
  <2> HIDE DEF one
  <2>6. TableOf(one, bs, Y, n)
    BY <1>6, <1>7, <1>8, <2>3, <2>5 DEF TableOf, k
  <2> QED  BY <2>4, <2>6
<1>10. CASE ~bare
  <2>1. n # k /\ n + 1 \in 1..k /\ b.end < bs[n + 1].start
    <3>1. n # k /\ n + 1 \in 1..k
      BY <1>1, <1>10 DEF k
    <3> QED  BY <1>1, <1>10, <3>1 DEF k
  <2>2. B!WithGap(bs, n) = <<b, g>>
    BY <1>10 DEF B!WithGap, k
  <2>3. g \in TableRows /\ g.start = b.end /\ g.end = bs[n + 1].start /\ g.tokens = 0 /\ g.gap = TRUE
    BY <1>1, <2>1 DEF B!Gap, B!Block, TableRows, k
  <2>4. rs \o <<b, g>> = two
    BY <1>3, <1>4, <2>3, JoinTwo
  <2>5. b.gap = FALSE /\ b.end \in Nat /\ bs[n + 1].start \in Nat
    BY <1>1, <2>1 DEF k
  <2> HIDE DEF one, g, b
  <2>6. /\ Tiled(two) /\ Len(two) = m + 2 /\ two[m + 2] = g
        /\ RowTokens(two) = RowTokens(one) + g.tokens
        /\ NoPauses(two) = NoPauses(one)
    <3>1. one[Len(one)] = b /\ Len(one) + 1 = m + 2
      BY <1>4, <1>6
    <3>2. g.start < g.end /\ g.start <= one[Len(one)].end /\ ~(one[Len(one)].gap /\ g.gap)
      BY <2>1, <2>3, <2>5, <3>1
    <3> QED  BY <1>6, <2>3, <3>1, <3>2, TiledMore
  <2>7. RowTokens(two) = RowTokens(one)
    BY <1>2, <1>7, <2>3, <2>6
  <2>8. bs[n + 1].start <= two[Len(two)].end
    BY <2>3, <2>5, <2>6
  <2>9. rs \o B!WithGap(bs, n) = two
    BY <2>2, <2>4
  <2> HIDE DEF two
  <2>10. Len(two) # 0 /\ n # 0
    BY <1>4, <2>6
  <2>11. TableOf(two, bs, Y, n)
    BY <1>7, <1>8, <2>6, <2>7, <2>8, <2>10 DEF TableOf
  <2> QED  BY <2>9, <2>11
<1> QED  BY <1>9, <1>10

LEMMA TableWhole ==
    ASSUME NEW len \in Nat, HourTicks \in Nat \ {0}, HourTicks <= len,
           NEW Y, TurnSet(Y), NEW sorted, NEW bs, bs = B!IdentifyBlocks(sorted, len),
           CutOf(bs, Y, len)
    PROVE  LET rs == B!BlocksWithGaps(sorted, len)
           IN /\ Tiled(rs) /\ RowTokens(rs) = B!TokensOf(Y)
              /\ NoPauses(rs) = {bs[i] : i \in 1..Len(bs)}
<1> DEFINE n == Len(bs)
           More(s, k) == s \o B!WithGap(bs, k)
           Follows(g, m) == g = [k \in 0..m |-> IF k = 0 THEN <<>> ELSE More(g[k - 1], k)]
           Some == {m \in 0..n : \E g : Follows(g, m)}
           rows == CHOOSE g : Follows(g, n)
           Good == {k \in 0..n : TableOf(rows[k], bs, Y, k)}
<1>0. n \in Nat
  BY LenProperties DEF CutOf
<1> HIDE DEF n
<1>3. B!BlocksWithGaps(sorted, len) = rows[n]
  BY DEF B!BlocksWithGaps, n
<1> HIDE DEF More
<1>1. n \in Some
  <2>1. 0 \in Some
    <3> DEFINE h == [k \in 0..0 |-> <<>>]
    <3>1. ASSUME NEW k \in 0..0
          PROVE  <<>> = IF k = 0 THEN <<>> ELSE More(h[k - 1], k)
      OBVIOUS
    <3>2. Follows(h, 0)
      BY <3>1
    <3> HIDE DEF h, Follows
    <3> QED  BY <1>0, <3>2
  <2>2. ASSUME NEW m \in 1..n, m - 1 \in Some PROVE m \in Some
    <3>1. PICK g : Follows(g, m - 1)
      BY <2>2
    <3> DEFINE h == [k \in 0..m |-> IF k = m THEN More(g[m - 1], m) ELSE g[k]]
    <3>2. ASSUME NEW k \in 0..m
          PROVE  h[k] = IF k = 0 THEN <<>> ELSE More(h[k - 1], k)
      BY <3>1
    <3>3. Follows(h, m)
      BY <3>2
    <3> HIDE DEF h, Follows
    <3> QED  BY <1>0, <3>3
  <2> HIDE DEF Some
  <2> QED  BY <1>0, <2>1, <2>2, UpTo
<1>2. Follows(rows, n)
  BY <1>1
<1> HIDE DEF rows
<1>4. rows[0] = <<>> /\ \A k \in 1..n : rows[k] = More(rows[k - 1], k)
  BY <1>0, <1>2
<1>5. n \in Good
  <2>1. 0 \in Good
    <3>1. Tiled(<<>>) /\ RowTokens(<<>>) = 0 /\ NoPauses(<<>>) = {}
      BY TiledNone
    <3>2. B!TokensOf(Covered(bs, Y, 0)) = 0
      BY CoveredTokens
    <3>3. TableOf(<<>>, bs, Y, 0)
      BY <3>1, <3>2 DEF TableOf
    <3> QED  BY <1>0, <1>4, <3>3
  <2>2. ASSUME NEW k \in 1..n, k - 1 \in Good PROVE k \in Good
    <3>1. k \in 0..n /\ TableOf(rows[k - 1], bs, Y, k - 1)
      BY <1>0, <2>2
    <3>2. TableOf(rows[k - 1] \o B!WithGap(bs, k), bs, Y, k)
      BY <3>1, TableGrows DEF n
    <3> QED  BY <1>4, <3>1, <3>2 DEF More
  <2> HIDE DEF Good
  <2> QED  BY <1>0, <2>1, <2>2, UpTo
<1>6. B!TokensOf(Covered(bs, Y, n)) = B!TokensOf(Y)
  BY CoveredTokens DEF n
<1>7. TableOf(rows[n], bs, Y, n)
  BY <1>5
<1> QED  BY <1>3, <1>6, <1>7 DEF TableOf, n

LEMMA RowsTiled == ASSUME B!Inv, LongEnough PROVE B!RowsTile
<1> DEFINE bs == B!IdentifyBlocks(B!LoadTurns(0), v3)
           rs == B!BlocksWithGaps(B!LoadTurns(0), v3)
           f == [i \in DOMAIN rs |-> rs[i].tokens]
<1>0. /\ v3 \in Nat /\ HourTicks \in Nat \ {0} /\ HourTicks <= v3 /\ TurnSet(v2)
      /\ CutOf(bs, v2, v3)
  BY BlockState, BlockConstants, AllCut
<1>1. Tiled(rs) /\ RowTokens(rs) = B!TokensOf(v2)
  BY <1>0, TableWhole
<1>2. B!Total(f) = RowTokens(rs)
  <2>1. DOMAIN f = DOMAIN rs
    OBVIOUS
  <2> QED  BY <2>1, BlockSums DEF B!Total, RowTokens
<1> HIDE DEF rs
<1>3. Len(rs) \in Nat
  BY <1>1, LenProperties DEF Tiled
<1>4. \A i \in 1..(Len(rs) - 1) :
          /\ rs[i + 1].start <= rs[i].end /\ rs[i].start < rs[i].end
          /\ ~(rs[i].gap /\ rs[i + 1].gap)
  <2>1. \A i \in 1..(Len(rs) - 1) : i \in 1..Len(rs)
    BY <1>3
  <2> QED  BY <1>1, <2>1 DEF Tiled
<1> QED  BY <1>1, <1>2, <1>4 DEF B!RowsTile, rs

-----------------------------------------------------------------------------
(* Blocks: what the status line sees *)

LEMMA LastBlock ==
    ASSUME NEW len \in Nat, HourTicks \in Nat \ {0}, HourTicks <= len,
           NEW Y, TurnSet(Y), NEW bs, CutOf(bs, Y, len), Len(bs) # 0
    PROVE  /\ Len(bs) \in 1..Len(bs)
           /\ \A i \in 1..Len(bs) : bs[i].first <= bs[Len(bs)].first
           /\ Within(bs[Len(bs)], Y) = {y \in Y : y.at >= bs[Len(bs)].first}
<1> DEFINE k == Len(bs)
<1>0. Neat(bs, Y, len)
  BY CutFacts
<1>1. /\ k \in Nat
      /\ \A i \in 1..k : /\ bs[i].first \in Nat /\ bs[i].last \in Nat /\ bs[i].end \in Nat
                         /\ bs[i].first <= bs[i].last /\ bs[i].last < bs[i].end
      /\ \A i, j \in 1..k : i < j => bs[i].end <= bs[j].first
  BY <1>0 DEF Neat
<1>2. k # 0 /\ \A y \in Y : \E i \in 1..k : B!InBlock(bs[i], y)
  BY DEF CutOf
<1> HIDE DEF k
<1>3. k \in 1..k /\ \A i \in 1..k : i = k \/ i < k
  BY <1>1, <1>2
<1>4. \A i \in 1..k : i = k \/ bs[i].last < bs[k].first
  BY <1>1, <1>3
<1>5. \A i \in 1..k : bs[i].first <= bs[k].first
  BY <1>1, <1>3, <1>4
<1>6. Within(bs[k], Y) = {y \in Y : y.at >= bs[k].first}
  <2>1. ASSUME NEW y \in Y, y.at >= bs[k].first PROVE B!InBlock(bs[k], y)
    <3>1. PICK i \in 1..k : B!InBlock(bs[i], y)
      BY <1>2
    <3>2. y.at \in Nat
      BY DEF TurnSet
    <3>3. i = k
      BY <1>1, <1>3, <1>4, <2>1, <3>1, <3>2 DEF B!InBlock
    <3> QED  BY <3>1, <3>3
  <2>2. \A y \in Y : B!InBlock(bs[k], y) => y.at >= bs[k].first
    BY <1>1, <1>3 DEF B!InBlock, TurnSet
  <2> QED  BY <2>1, <2>2 DEF Within
<1> QED  BY <1>3, <1>5, <1>6 DEF k

LEMMA OpensFacts ==
    ASSUME NEW len \in Nat, HourTicks \in Nat \ {0}, HourTicks <= len,
           NEW Y, TurnSet(Y), NEW bs, CutOf(bs, Y, len)
    PROVE  /\ \A o \in OpensOf(bs) : o \in Nat /\ \E y \in Y : y.at = o
           /\ \A o \in OpensOf(bs) : B!FloorToHour(o) \in Nat /\ B!FloorToHour(o) <= o
           /\ \A y \in Y : y.at \in OpensOf(bs)
                  <=> \A o \in OpensOf(bs) : o >= y.at \/ y.at >= B!FloorToHour(o) + len
<1>1. Neat(bs, Y, len)
  BY CutFacts
<1>2. \A i \in 1..Len(bs) : bs[i].first \in Nat
  BY <1>1 DEF Neat
<1>3. \A i \in 1..Len(bs) : \E y \in Y : y.at = bs[i].first
  BY DEF CutOf, BlockOf
<1>4. \A o \in OpensOf(bs) : o \in Nat /\ \E y \in Y : y.at = o
  BY <1>2, <1>3 DEF OpensOf
<1>5. \A o \in OpensOf(bs) : B!FloorToHour(o) \in Nat /\ B!FloorToHour(o) <= o
  BY <1>4, HourFloors
<1>6. \A y \in Y :
          (\E i \in 1..Len(bs) : bs[i].first = y.at)
          <=> \A i \in 1..Len(bs) :
                  bs[i].first >= y.at \/ y.at >= B!FloorToHour(bs[i].first) + len
  BY CutOpens
<1>7. \A y \in Y : y.at \in OpensOf(bs)
          <=> \A o \in OpensOf(bs) : o >= y.at \/ y.at >= B!FloorToHour(o) + len
  BY <1>6 DEF OpensOf
<1> QED  BY <1>4, <1>5, <1>7

\* Where a pause is followed by the same turns, the last block is the same.
LEMMA PausedCuts ==
    ASSUME NEW len \in Nat, HourTicks \in Nat \ {0}, HourTicks <= len,
           NEW Y, TurnSet(Y), NEW Z \in SUBSET Y, TurnSet(Z),
           NEW bs, CutOf(bs, Y, len), NEW cs, CutOf(cs, Z, len),
           NEW t \in Z, \A y \in Y : y.at >= t.at => y \in Z,
           \A u \in Y : u.at >= t.at \/ t.at - u.at >= len
    PROVE  Len(bs) # 0 /\ Len(cs) # 0 /\ bs[Len(bs)] = cs[Len(cs)]
<1> DEFINE opens == OpensOf(bs)
           parts == OpensOf(cs)
           Late(o, x) == o >= x \/ x >= B!FloorToHour(o) + len
<1>1. /\ \A o \in opens : o \in Nat /\ \E y \in Y : y.at = o
      /\ \A o \in opens : B!FloorToHour(o) \in Nat /\ B!FloorToHour(o) <= o
      /\ \A y \in Y : y.at \in opens <=> \A o \in opens : Late(o, y.at)
  BY OpensFacts
<1>2. /\ \A o \in parts : o \in Nat /\ \E y \in Z : y.at = o
      /\ \A o \in parts : B!FloorToHour(o) \in Nat /\ B!FloorToHour(o) <= o
      /\ \A y \in Z : y.at \in parts <=> \A o \in parts : Late(o, y.at)
  <2> HIDE DEF parts
  <2> QED  BY OpensFacts DEF parts
<1> HIDE DEF opens, parts
<1>3. t.at \in Nat /\ t \in Y /\ \A y \in Y : y.at \in Nat
  BY DEF TurnSet
<1>4. \A o \in opens \cup parts : o < t.at => t.at >= o + len
  BY <1>1, <1>2, <1>3
<1>5. \A o \in opens \cup parts : \A x \in Nat : o < t.at /\ x >= t.at => Late(o, x)
  BY <1>1, <1>2, <1>3, <1>4
<1> HIDE DEF Late
<1>6. \A y \in Z : y.at >= t.at =>
          /\ y.at \in opens <=> \A o \in opens : o >= t.at => Late(o, y.at)
          /\ y.at \in parts <=> \A o \in parts : o >= t.at => Late(o, y.at)
  <2> SUFFICES ASSUME NEW y \in Z, y.at >= t.at
               PROVE  /\ y.at \in opens <=> \A o \in opens : o >= t.at => Late(o, y.at)
                      /\ y.at \in parts <=> \A o \in parts : o >= t.at => Late(o, y.at)
    OBVIOUS
  <2>1. \A o \in opens \cup parts : o >= t.at \/ Late(o, y.at)
    BY <1>1, <1>2, <1>3, <1>5
  <2> QED  BY <1>1, <1>2, <2>1
<1>7. \A x \in Nat : x >= t.at => (x \in opens <=> x \in parts)
  <2> DEFINE Differ == {x \in Nat : x >= t.at /\ ~(x \in opens <=> x \in parts)}
  <2> SUFFICES ASSUME Differ # {} PROVE FALSE
    OBVIOUS
  <2>1. PICK x \in Differ : \A z \in Differ : x <= z
    <3>1. Differ \subseteq Nat
      OBVIOUS
    <3> HIDE DEF Differ
    <3> QED  BY <3>1, LeastNumber
  <2>2. x \in Nat /\ x >= t.at /\ ~(x \in opens <=> x \in parts)
    OBVIOUS
  <2>3. PICK y \in Y : y.at = x
    BY <1>1, <1>2, <2>2
  <2>4. y \in Z
    BY <2>2, <2>3
  <2>5. \A o \in Nat : o >= t.at /\ o < x => (o \in opens <=> o \in parts)
    BY <2>1, <2>2
  <2>6. \A o \in Nat : o >= x => Late(o, x)
    BY DEF Late
  <2>7. (\A o \in opens : o >= t.at => Late(o, x)) <=> (\A o \in parts : o >= t.at => Late(o, x))
    <3>1. \A o \in opens : o \in Nat
      BY <1>1
    <3>2. \A o \in parts : o \in Nat
      BY <1>2
    <3>3. \A o \in Nat : o < x \/ o >= x
      BY <2>2
    <3> QED  BY <2>5, <2>6, <3>1, <3>2, <3>3
  <2> QED  BY <1>6, <2>2, <2>3, <2>4, <2>7
<1>8. t.at \in opens /\ t.at \in parts
  <2>1. \A o \in Nat : o >= t.at => Late(o, t.at)
    BY DEF Late
  <2>2. \A o \in opens \cup parts : o \in Nat
    BY <1>1, <1>2
  <2>3. t.at >= t.at
    BY <1>3
  <2> QED  BY <1>6, <2>1, <2>2, <2>3
<1> DEFINE k == Len(bs)
           m == Len(cs)
<1>9. k \in Nat /\ m \in Nat /\ k # 0 /\ m # 0
  <2>1. k \in Nat /\ m \in Nat
    BY LenProperties DEF CutOf
  <2>2. (\E i \in 1..k : TRUE) /\ (\E i \in 1..m : TRUE)
    BY <1>8 DEF opens, parts, OpensOf
  <2> QED  BY <2>1, <2>2
<1>10. /\ k \in 1..k /\ \A i \in 1..k : bs[i].first <= bs[k].first
       /\ Within(bs[k], Y) = {y \in Y : y.at >= bs[k].first}
  BY <1>9, LastBlock
<1>11. /\ m \in 1..m /\ \A i \in 1..m : cs[i].first <= cs[m].first
       /\ Within(cs[m], Z) = {y \in Z : y.at >= cs[m].first}
  BY <1>9, LastBlock
<1>n. Neat(bs, Y, len) /\ Neat(cs, Z, len)
  BY CutFacts
<1> HIDE DEF k, m
<1>12. /\ bs[k] \in Pieces /\ bs[k].first \in Nat /\ bs[k].last \in Nat /\ bs[k].gap = FALSE
       /\ bs[k].start = B!FloorToHour(bs[k].first) /\ bs[k].end = bs[k].start + len
       /\ bs[k].first <= bs[k].last
  BY <1>n, <1>10 DEF Neat, k
<1>13. /\ cs[m] \in Pieces /\ cs[m].first \in Nat /\ cs[m].last \in Nat /\ cs[m].gap = FALSE
       /\ cs[m].start = B!FloorToHour(cs[m].first) /\ cs[m].end = cs[m].start + len
       /\ cs[m].first <= cs[m].last
  BY <1>n, <1>11 DEF Neat, m
<1>14. bs[k].first = cs[m].first /\ bs[k].first >= t.at
  <2>1. bs[k].first \in opens /\ \A o \in opens : o <= bs[k].first
    BY <1>10 DEF opens, OpensOf, k
  <2>2. cs[m].first \in parts /\ \A o \in parts : o <= cs[m].first
    BY <1>11 DEF parts, OpensOf, m
  <2>3. bs[k].first >= t.at /\ cs[m].first >= t.at
    BY <1>3, <1>8, <1>12, <1>13, <2>1, <2>2
  <2>4. bs[k].first \in parts /\ cs[m].first \in opens
    BY <1>7, <1>12, <1>13, <2>1, <2>2, <2>3
  <2> QED  BY <1>12, <1>13, <2>1, <2>2, <2>3, <2>4
<1>15. Within(bs[k], Y) = Within(cs[m], Z)
  <2>1. \A y \in Y : y.at >= bs[k].first => y \in Z
    BY <1>3, <1>12, <1>14
  <2> QED  BY <1>10, <1>11, <1>14, <2>1
<1>16. bs[k].last = cs[m].last
  <2>1. PICK y \in Y : y.at = bs[k].last
    BY <1>10 DEF CutOf, BlockOf, k
  <2>2. PICK z \in Z : z.at = cs[m].last
    BY <1>11 DEF CutOf, BlockOf, m
  <2>3. y \in Within(bs[k], Y) /\ z \in Within(cs[m], Z)
    BY <1>12, <1>13, <2>1, <2>2 DEF Within, B!InBlock
  <2>4. y \in Within(cs[m], Z) /\ z \in Within(bs[k], Y)
    BY <1>15, <2>3
  <2>5. y.at <= cs[m].last /\ z.at <= bs[k].last
    BY <2>4 DEF Within, B!InBlock
  <2> QED  BY <1>12, <1>13, <2>1, <2>2, <2>5
<1>17. bs[k].tokens = cs[m].tokens /\ bs[k].entries = cs[m].entries
  <2>1. bs[k].tokens = B!TokensOf(Within(bs[k], Y)) /\ bs[k].entries = Cardinality(Within(bs[k], Y))
    BY <1>10 DEF CutOf, BlockOf, k
  <2>2. cs[m].tokens = B!TokensOf(Within(cs[m], Z)) /\ cs[m].entries = Cardinality(Within(cs[m], Z))
    BY <1>11 DEF CutOf, BlockOf, m
  <2> QED  BY <1>15, <2>1, <2>2
<1>18. bs[k] = cs[m]
  <2> DEFINE a == bs[k]
             b == cs[m]
  <2>1. /\ a \in Pieces /\ b \in Pieces /\ a.start = b.start /\ a.end = b.end /\ a.first = b.first
        /\ a.last = b.last /\ a.tokens = b.tokens /\ a.entries = b.entries /\ a.gap = b.gap
    BY <1>12, <1>13, <1>14, <1>16, <1>17
  <2> HIDE DEF a, b
  <2>2. a = b
    BY <2>1 DEF Pieces
  <2> QED  BY <2>2 DEF a, b
<1> QED  BY <1>9, <1>18 DEF k, m

\* The active block is the last.
LEMMA ActiveIs ==
    ASSUME NEW len \in Nat, HourTicks \in Nat \ {0}, HourTicks <= len, v1 \in Nat,
           NEW Y, TurnSet(Y), \A y \in Y : y.at <= v1, NEW bs, CutOf(bs, Y, len), Len(bs) # 0
    PROVE  B!ActiveOf(bs, len) = {b \in {bs[Len(bs)]} : B!IsActive(b, len)}
<1> DEFINE k == Len(bs)
<1>1. DOMAIN bs = 1..k
  BY LenProperties DEF CutOf
<1>2. k \in 1..k
  BY LastBlock
<1>3. \A i \in 1..k : B!IsActive(bs[i], len) => i = k
  BY BlocksPast
<1> HIDE DEF k
<1>4. B!Range(bs) = {bs[i] : i \in 1..k}
  BY <1>1 DEF B!Range
<1>5. B!ActiveOf(bs, len) = {b \in {bs[k]} : B!IsActive(b, len)}
  BY <1>2, <1>3, <1>4 DEF B!ActiveOf
<1> QED  BY <1>5 DEF k

LEMMA PausedSound == ASSUME B!Inv, LongEnough PROVE B!PausedAgrees
<1> DEFINE from == IF v1 > Window THEN v1 - Window ELSE 0
           seen == {t \in v2 : t.at >= from}
           bs == B!IdentifyBlocks(B!LoadTurns(0), v3)
           cs == B!IdentifyBlocks(B!LoadTurns(from), v3)
<1>0. /\ v1 \in Nat /\ v3 \in Nat /\ v3 \in Nat \ {0} /\ HourTicks \in Nat \ {0} /\ HourTicks <= v3
      /\ TurnSet(v2) /\ (\A t \in v2 : t.at <= v1) /\ CutOf(bs, v2, v3)
      /\ Window \in Nat
  BY BlockState, BlockConstants, AllCut
<1>1. from \in Int
  BY <1>0
<1>2. seen = Since(from)
  BY DEF Since
<1>3. CutOf(cs, seen, v3) /\ TurnSet(seen)
  <2>1. Dated(B!LoadTurns(from), Since(from))
    BY <1>1, TurnsDated
  <2> HIDE DEF from, seen
  <2>2. CutOf(cs, Since(from), v3)
    BY <1>0, <2>1, CutWhole
  <2> QED  BY <1>2, <2>1, <2>2 DEF Dated
<1>4. B!StatuslineBlock(v3) = B!ActiveOf(cs, v3)
  BY DEF B!StatuslineBlock
<1> HIDE DEF bs, cs
<1> SUFFICES ASSUME NEW t \in seen,
                    \A u \in v2 : u.at >= t.at \/ t.at - u.at >= v3
             PROVE  B!ActiveOf(cs, v3) = B!ActiveOf(bs, v3)
  BY <1>4 DEF B!PausedAgrees, bs
<1>5. seen \in SUBSET v2 /\ \A y \in v2 : y.at >= t.at => y \in seen
  BY <1>0, <1>1 DEF TurnSet
<1> HIDE DEF seen
<1>6. Len(bs) # 0 /\ Len(cs) # 0 /\ bs[Len(bs)] = cs[Len(cs)]
  BY <1>0, <1>3, <1>5, PausedCuts
<1>7. \A y \in seen : y.at <= v1
  BY <1>0, <1>5
<1>8. B!ActiveOf(bs, v3) = {b \in {bs[Len(bs)]} : B!IsActive(b, v3)}
  BY <1>0, <1>6, ActiveIs
<1>9. B!ActiveOf(cs, v3) = {b \in {cs[Len(cs)]} : B!IsActive(b, v3)}
  BY <1>0, <1>3, <1>6, <1>7, ActiveIs
<1> QED  BY <1>6, <1>8, <1>9

-----------------------------------------------------------------------------
(* Blocks: the limits a user is offered *)

LEMMA TotalsFacts ==
    ASSUME NEW k \in Nat, NEW bs, \A i \in 1..k : bs[i].tokens \in Nat,
           NEW places \in SUBSET (1..k)
    PROVE  LET t == B!Totals(bs, places)
               n == Cardinality(places)
           IN /\ IsFiniteSet(places) /\ n \in Nat /\ t \in [1..n -> Nat] /\ Len(t) = n
              /\ \A i, j \in 1..n : i <= j => t[i] <= t[j]
              /\ \A i \in 1..n : \E p \in places : t[i] = bs[p].tokens
              /\ \A i \in 1..n : Cardinality({p \in places : bs[p].tokens > t[i]}) \in Nat
              /\ \A i \in 1..n : Cardinality({p \in places : bs[p].tokens > t[i]}) <= n - i
<1> DEFINE n == Cardinality(places)
           less(i, j) == \/ bs[i].tokens < bs[j].tokens
                         \/ bs[i].tokens = bs[j].tokens /\ i < j
           R == {p \in places \X places : less(p[1], p[2])}
           ranked == B!InOrder(places, R)
           t == B!Totals(bs, places)
<1>1. IsFiniteSet(places) /\ n \in Nat
  <2>1. IsFiniteSet(1..k)
    BY FS_Interval
  <2> QED  BY <2>1, FS_Subset, FS_CardinalityType
<1>2. \A p \in places : p \in Nat /\ bs[p].tokens \in Nat
  OBVIOUS
<1>3. \A p, q \in places : <<p, q>> \in R <=> less(p, q)
  OBVIOUS
<1>4. t = [i \in 1..Len(ranked) |-> bs[ranked[i]].tokens]
  BY Zenon DEF B!Totals
<1> HIDE DEF R, t
<1>5. Orders(R, places)
  <2>1. \A p \in places : ~less(p, p)
    BY <1>2
  <2>2. \A p, q, r \in places : less(p, q) /\ less(q, r) => less(p, r)
    BY <1>2
  <2>3. ASSUME NEW p \in places, NEW q \in places, p # q PROVE less(p, q) \/ less(q, p)
    <3> DEFINE a == bs[p].tokens
               b == bs[q].tokens
    <3>1. a \in Nat /\ b \in Nat /\ p \in Nat /\ q \in Nat
      BY <1>2
    <3>2. \/ a < b \/ b < a
          \/ a = b /\ (p < q \/ q < p)
      BY <2>3, <3>1
    <3> QED  BY <3>2
  <2> HIDE DEF less
  <2> QED  BY <1>3, <2>1, <2>2, <2>3 DEF Orders
<1>6. Lists(ranked, places, R)
  BY <1>1, <1>5, OrderLists
<1> HIDE DEF ranked, n
<1>7. ranked \in [1..n -> places] /\ Len(ranked) = n
  <2>1. ranked \in [1..n -> places]
    BY <1>6 DEF Lists, n
  <2> QED  BY <1>1, <2>1
<1>8. t = [i \in 1..n |-> bs[ranked[i]].tokens]
  BY <1>4, <1>7
<1>9. t \in [1..n -> Nat] /\ \A i \in 1..n : ranked[i] \in places /\ t[i] = bs[ranked[i]].tokens
  BY <1>2, <1>7, <1>8
<1>10. Len(t) = n
  BY <1>1, <1>9
<1>11. \A i, j \in 1..n : i <= j => t[i] <= t[j]
  <2> SUFFICES ASSUME NEW i \in 1..n, NEW j \in 1..n, i < j PROVE t[i] <= t[j]
    <3>1. \A i, j \in 1..n : i <= j => i = j \/ i < j
      BY <1>1
    <3>2. \A i \in 1..n : t[i] \in Nat
      BY <1>9
    <3> QED  BY <3>1, <3>2
  <2>1. <<ranked[i], ranked[j]>> \in R
    BY <1>6 DEF Lists, n
  <2>2. less(ranked[i], ranked[j])
    BY <1>3, <1>9, <2>1
  <2> QED  BY <1>2, <1>9, <2>2
<1>12. ASSUME NEW i \in 1..n
       PROVE  /\ Cardinality({p \in places : bs[p].tokens > t[i]}) \in Nat
              /\ Cardinality({p \in places : bs[p].tokens > t[i]}) <= n - i
  <2> DEFINE above == {p \in places : bs[p].tokens > t[i]}
             rest == (i + 1)..n
             h == [j \in rest |-> ranked[j]]
             image == {ranked[j] : j \in rest}
  <2>1. IsFiniteSet(rest) /\ Cardinality(rest) = n - i
    <3>1. i + 1 \in Int /\ n \in Int /\ i + 1 <= n + 1
      BY <1>1
    <3>2. IsFiniteSet(rest) /\ Cardinality(rest) = IF i + 1 > n THEN 0 ELSE n - (i + 1) + 1
      BY <3>1, FS_Interval
    <3> QED  BY <3>1, <3>2
  <2>2. h \in Surjection(rest, image)
    BY DEF Surjection
  <2>3. IsFiniteSet(image) /\ Cardinality(image) <= Cardinality(rest)
    <3> HIDE DEF h, image, rest
    <3> QED  BY <2>1, <2>2, FS_Surjection
  <2>4. above \in SUBSET image
    <3> SUFFICES ASSUME NEW p \in places, bs[p].tokens > t[i] PROVE p \in image
      OBVIOUS
    <3>1. PICK j \in 1..n : ranked[j] = p
      BY <1>6 DEF Lists, n
    <3>2. ~(j <= i)
      BY <1>2, <1>9, <1>11, <3>1
    <3>3. j \in rest
      BY <1>1, <3>2
    <3> QED  BY <3>1, <3>3
  <2> HIDE DEF above, image, rest
  <2>5. Cardinality(above) \in Nat /\ Cardinality(image) \in Nat
        /\ Cardinality(above) <= Cardinality(image)
    BY <2>3, <2>4, FS_Subset, FS_CardinalityType
  <2> QED  BY <1>1, <2>1, <2>3, <2>5 DEF above
<1>13. \A i \in 1..n : \E p \in places : t[i] = bs[p].tokens
  BY <1>9
<1> QED  BY <1>1, <1>9, <1>10, <1>11, <1>12, <1>13 DEF n, t

LEMMA PlaceFacts ==
    ASSUME NEW n \in Nat \ {0}, NEW h \in 0..100
    PROVE  /\ PlaceOf(n, h) \in 1..n /\ h * n <= 100 * PlaceOf(n, h)
           /\ \A g \in 0..h : PlaceOf(n, g) <= PlaceOf(n, h)
<1> DEFINE r(g) == (g * n + 99) \div 100
<1>1. \A g \in 0..h : g * n \in Nat /\ g * n <= h * n
  OBVIOUS
<1>2. h * n \in Nat /\ h * n <= 100 * n
  OBVIOUS
<1>3. \A x \in Nat : /\ (x + 99) \div 100 \in Nat /\ x <= 100 * ((x + 99) \div 100)
                     /\ 100 * ((x + 99) \div 100) < x + 100
  OBVIOUS
<1>4. \A g \in 0..h : r(g) \in Nat /\ g * n <= 100 * r(g) /\ 100 * r(g) < g * n + 100
  <2> HIDE DEF r
  <2> SUFFICES ASSUME NEW g \in 0..h PROVE r(g) \in Nat /\ g * n <= 100 * r(g) /\ 100 * r(g) < g * n + 100
    OBVIOUS
  <2> DEFINE x == g * n
  <2>1. x \in Nat /\ r(g) = (x + 99) \div 100
    BY <1>1 DEF r
  <2> HIDE DEF x
  <2>2. r(g) \in Nat /\ x <= 100 * r(g) /\ 100 * r(g) < x + 100
    BY <1>3, <2>1
  <2> QED  BY <2>2 DEF x
<1>5. \A g \in 0..h : PlaceOf(n, g) = IF r(g) < 1 THEN 1 ELSE IF r(g) > n THEN n ELSE r(g)
  BY DEF PlaceOf
<1> HIDE DEF r
<1>6. h \in 0..h
  OBVIOUS
<1>7. r(h) <= n
  BY <1>2, <1>4, <1>6
<1>8. \A g \in 0..h : r(g) <= r(h)
  <2> SUFFICES ASSUME NEW g \in 0..h PROVE r(g) <= r(h)
    OBVIOUS
  <2> DEFINE x == g * n
             y == h * n
  <2>1. /\ x \in Nat /\ y \in Nat /\ x <= y /\ r(g) \in Nat /\ r(h) \in Nat
        /\ 100 * r(g) < x + 100 /\ y <= 100 * r(h)
    BY <1>1, <1>2, <1>4, <1>6
  <2> HIDE DEF x, y
  <2> QED  BY <2>1
<1>9. PlaceOf(n, h) \in 1..n /\ PlaceOf(n, h) >= r(h)
  BY <1>4, <1>5, <1>6, <1>7
<1>10. h * n <= 100 * PlaceOf(n, h)
  <2> DEFINE y == h * n
  <2>1. y \in Nat /\ y <= 100 * r(h) /\ r(h) \in Nat
    BY <1>2, <1>4, <1>6
  <2> HIDE DEF y
  <2>2. y <= 100 * PlaceOf(n, h)
    BY <1>9, <2>1
  <2> QED  BY <2>2 DEF y
<1>11. \A g \in 0..h : PlaceOf(n, g) <= PlaceOf(n, h)
  BY <1>4, <1>5, <1>6, <1>7, <1>8
<1> QED  BY <1>9, <1>10, <1>11

LEMMA NearestIs ==
    ASSUME NEW t, NEW h
    PROVE  B!NearestRank(t, h) = t[PlaceOf(Len(t), h)]
BY Zenon DEF B!NearestRank, PlaceOf

LEMMA RanksSound == ASSUME B!Inv, LongEnough PROVE B!SuggestionsRank
<1> DEFINE bs == B!IdentifyBlocks(B!LoadTurns(0), v3)
           k == Len(bs)
           done == B!Completed(bs, v3)
           sample == B!Sample(bs, v3, v4)
           n == Cardinality(sample)
           t == B!Totals(bs, sample)
           s == B!Suggestions(bs, v3, v4)
           above(x) == B!Cardinality({i \in sample : bs[i].tokens > x})
<1>0. /\ v3 \in Nat /\ HourTicks \in Nat \ {0} /\ HourTicks <= v3 /\ TurnSet(v2)
      /\ CutOf(bs, v2, v3)
  BY BlockState, BlockConstants, AllCut
<1> HIDE DEF bs
<1>n. Neat(bs, v2, v3)
  BY <1>0, CutFacts
<1>1. k \in Nat /\ DOMAIN bs = 1..k /\ \A i \in 1..k : bs[i].tokens \in Nat
  BY <1>n DEF Neat
<1>2. done \in SUBSET (1..k) /\ sample \in SUBSET done
  BY <1>1 DEF B!Completed, B!Sample
<1>3. s = [p90 |-> B!NearestRank(t, 90), p95 |-> B!NearestRank(t, 95), max |-> B!Last(t)]
  BY Zenon DEF B!Suggestions
<1> SUFFICES ASSUME sample # {}
             PROVE  /\ {s.p90, s.p95, s.max} \subseteq {bs[i].tokens : i \in sample}
                    /\ s.p90 <= s.p95 /\ s.p95 <= s.max
                    /\ 10 * above(s.p90) <= B!Cardinality(sample)
                    /\ 20 * above(s.p95) <= B!Cardinality(sample)
                    /\ above(s.max) = 0
                    /\ B!Envelope(bs, v3).p50 <= B!Envelope(bs, v3).p95
  BY DEF B!SuggestionsRank, bs
<1> HIDE DEF s, sample, done, k
<1>4. /\ IsFiniteSet(sample) /\ n \in Nat /\ t \in [1..n -> Nat] /\ Len(t) = n
      /\ \A i, j \in 1..n : i <= j => t[i] <= t[j]
      /\ \A i \in 1..n : \E p \in sample : t[i] = bs[p].tokens
      /\ \A i \in 1..n : Cardinality({p \in sample : bs[p].tokens > t[i]}) \in Nat
      /\ \A i \in 1..n : Cardinality({p \in sample : bs[p].tokens > t[i]}) <= n - i
  <2>1. sample \in SUBSET (1..k)
    BY <1>2
  <2> QED  BY <1>1, <2>1, TotalsFacts
<1>5. n \in Nat \ {0} /\ B!Cardinality(sample) = n
  BY <1>4, FS_EmptySet, BlockSizes
<1> HIDE DEF n, t
<1> DEFINE a == PlaceOf(n, 90)
           b == PlaceOf(n, 95)
<1>6. a \in 1..n /\ 90 * n <= 100 * a
  BY <1>5, PlaceFacts
<1>7. b \in 1..n /\ 95 * n <= 100 * b /\ a <= b
  BY <1>5, PlaceFacts
<1>8. s.p90 = t[a] /\ s.p95 = t[b] /\ s.max = t[n]
  BY <1>3, <1>4, NearestIs DEF B!Last
<1> HIDE DEF a, b
<1>9. n \in 1..n /\ b <= n
  BY <1>5, <1>7
<1>10. {s.p90, s.p95, s.max} \subseteq {bs[i].tokens : i \in sample}
  BY <1>4, <1>6, <1>7, <1>8, <1>9
<1>11. s.p90 <= s.p95 /\ s.p95 <= s.max
  BY <1>4, <1>6, <1>7, <1>8, <1>9
<1>12. ASSUME NEW i \in 1..n PROVE above(t[i]) \in Nat /\ above(t[i]) <= n - i
  BY <1>4, BlockSizes
<1> HIDE DEF above
<1>13. 10 * above(s.p90) <= n
  BY <1>5, <1>6, <1>8, <1>12
<1>14. 20 * above(s.p95) <= n
  BY <1>5, <1>7, <1>8, <1>12
<1>15. above(s.max) = 0
  BY <1>5, <1>8, <1>9, <1>12
<1>16. B!Envelope(bs, v3).p50 <= B!Envelope(bs, v3).p95
  <2> DEFINE m == Cardinality(done)
             u == B!Totals(bs, done)
             e == B!Envelope(bs, v3)
  <2>1. e.p50 = B!NearestRank(u, 50) /\ e.p95 = B!NearestRank(u, 95)
    BY DEF B!Envelope, done
  <2>2. /\ IsFiniteSet(done) /\ m \in Nat /\ Len(u) = m
        /\ \A i, j \in 1..m : i <= j => u[i] <= u[j]
    BY <1>1, <1>2, TotalsFacts
  <2>3. done # {}
    BY <1>2
  <2>4. m \in Nat \ {0}
    BY <2>2, <2>3, FS_EmptySet
  <2> HIDE DEF e, m, u
  <2>5. PlaceOf(m, 50) \in 1..m /\ PlaceOf(m, 95) \in 1..m /\ PlaceOf(m, 50) <= PlaceOf(m, 95)
    BY <2>4, PlaceFacts
  <2>6. e.p50 = u[PlaceOf(m, 50)] /\ e.p95 = u[PlaceOf(m, 95)]
    BY <2>1, <2>2, NearestIs
  <2>7. e.p50 <= e.p95
    BY <2>2, <2>5, <2>6
  <2> QED  BY <2>7 DEF e
<1> QED  BY <1>5, <1>10, <1>11, <1>13, <1>14, <1>15, <1>16

-----------------------------------------------------------------------------
(* Blocks: the forecast *)

LEMMA SharesGrow ==
    ASSUME NEW x \in Nat, NEW y \in Nat, x <= y, NEW lim \in Nat \ {0}
    PROVE  /\ B!Percent(x, lim) \in Nat /\ B!Percent(y, lim) \in Nat
           /\ B!Percent(x, lim) <= B!Percent(y, lim)
<1> DEFINE p == B!Percent(x, lim)
           q == B!Percent(y, lim)
<1>1. 100 * x \in Nat /\ 100 * y \in Nat /\ 100 * x <= 100 * y
  OBVIOUS
<1>2. p = (100 * x) \div lim /\ q = (100 * y) \div lim
  BY DEF B!Percent
<1> HIDE DEF p, q
<1>3. p \in Nat /\ p * lim <= 100 * x
  BY <1>1, <1>2, Division
<1>4. q \in Nat /\ 100 * y < (q + 1) * lim
  BY <1>1, <1>2, Division
<1>5. p <= q
  <2> SUFFICES ASSUME q + 1 <= p PROVE FALSE
    BY <1>3, <1>4
  <2>1. (q + 1) * lim <= p * lim
    BY <1>3, <1>4
  <2>2. (q + 1) * lim \in Nat /\ p * lim \in Nat
    BY <1>3, <1>4
  <2> QED  BY <1>1, <1>3, <1>4, <2>1, <2>2
<1> QED  BY <1>3, <1>4, <1>5 DEF p, q

LEMMA PressureIs ==
    ASSUME NEW s, SignalOK(s)
    PROVE  B!Pressure(s) \in Nat /\ s.used <= B!Pressure(s)
BY DEF SignalOK, B!Pressure

LEMMA SeverityIs ==
    ASSUME NEW p \in Int
    PROVE  B!Severity(p) = "danger" <=> p >= 80
BY DEF B!Severity

\* The signals are ranked by their pressure, each of its own kind.
LEMMA ForecastFacts ==
    ASSUME NEW X, IsFiniteSet(X), X # {}, \A s \in X : SignalOK(s),
           \A s, t \in X : s.kind = t.kind => s = t
    PROVE  LET f == B!Forecast(X)
           IN /\ Cardinality(X) = 1 + Len(f.secondary)
              /\ f.primary \in X /\ f.severity = B!Severity(B!Pressure(f.primary))
              /\ \A s \in X : B!Pressure(s) <= B!Pressure(f.primary)
<1> DEFINE R == {p \in X \X X : B!RanksBefore(p[1], p[2])}
           ranked == B!InOrder(X, R)
           n == Cardinality(X)
           f == B!Forecast(X)
<1>1. n \in Nat \ {0}
  BY FS_CardinalityType, FS_EmptySet
<1>2. \A s, t \in X : <<s, t>> \in R <=> B!RanksBefore(s, t)
  OBVIOUS
<1>3. /\ f.primary = Head(ranked) /\ f.secondary = Tail(ranked)
      /\ f.severity = B!Severity(B!Pressure(Head(ranked)))
  BY DEF B!Forecast
<1>4. \A s \in X : B!Pressure(s) \in Nat /\ s.resets \in Int /\ s.kind \in Nat
  BY PressureIs DEF SignalOK
<1> HIDE DEF R, f
<1>5. Orders(R, X)
  <2>1. \A s \in X : ~B!RanksBefore(s, s)
    BY <1>4 DEF B!RanksBefore
  <2>2. \A s, t, u \in X : B!RanksBefore(s, t) /\ B!RanksBefore(t, u) => B!RanksBefore(s, u)
    BY <1>4 DEF B!RanksBefore
  <2>3. ASSUME NEW s \in X, NEW t \in X, s # t PROVE B!RanksBefore(s, t) \/ B!RanksBefore(t, s)
    <3>1. s.kind # t.kind
      BY <2>3
    <3> QED  BY <1>4, <3>1 DEF B!RanksBefore
  <2> QED  BY <1>2, <2>1, <2>2, <2>3 DEF Orders
<1>6. Lists(ranked, X, R)
  BY <1>5, OrderLists
<1> HIDE DEF ranked, n
<1>7. ranked \in [1..n -> X] /\ ranked \in Seq(X) /\ Len(ranked) = n
  <2>1. ranked \in [1..n -> X]
    BY <1>6 DEF Lists, n
  <2> QED  BY <1>1, <2>1
<1>8. Head(ranked) = ranked[1] /\ Len(Tail(ranked)) = n - 1 /\ 1 \in 1..n
  <2>1. ranked # <<>> /\ 1 \in 1..n
    BY <1>1, <1>7
  <2>2. Len(Tail(ranked)) = n - 1
    BY <1>7, <2>1, HeadTailProperties
  <2> QED  BY <1>7, <2>1, <2>2
<1>9. ASSUME NEW s \in X PROVE B!Pressure(s) <= B!Pressure(ranked[1])
  <2>1. PICK i \in 1..n : ranked[i] = s
    BY <1>6 DEF Lists, n
  <2>2. ranked[1] \in X
    BY <1>7, <1>8
  <2>3. CASE i = 1
    BY <1>4, <2>1, <2>3
  <2>4. CASE i # 1
    <3>1. 1 < i
      BY <1>1, <2>4
    <3>2. <<ranked[1], ranked[i]>> \in R
      BY <1>6, <1>8, <3>1 DEF Lists, n
    <3>3. B!RanksBefore(ranked[1], s)
      BY <1>2, <2>1, <2>2, <3>2
    <3> QED  BY <1>4, <2>2, <3>3 DEF B!RanksBefore
  <2> QED  BY <2>3, <2>4
<1> QED  BY <1>1, <1>3, <1>7, <1>8, <1>9 DEF f, n

LEMMA OneOrNone ==
    ASSUME NEW X, \A x, y \in X : x = y
    PROVE  IsFiniteSet(X)
<1>1. CASE X = {}
  BY <1>1, FS_EmptySet
<1>2. CASE X # {}
  <2>1. PICK x \in X : TRUE
    BY <1>2
  <2>2. X = {x}
    BY <2>1
  <2>3. IsFiniteSet({x})
    BY FS_Singleton
  <2> QED  BY <2>2, <2>3
<1> QED  BY <1>1, <1>2

LEMMA ForecastSound == ASSUME B!Inv, LongEnough PROVE B!ForecastIsWorst
<1> DEFINE bs == B!IdentifyBlocks(B!LoadTurns(0), v3)
           active == B!ActiveOf(bs, v3)
<1>0. /\ v1 \in Nat /\ v3 \in Nat /\ HourTicks \in Nat \ {0} /\ HourTicks <= v3 /\ TurnSet(v2)
      /\ v4 \in Nat /\ CutOf(bs, v2, v3) /\ Used \subseteq Nat /\ B!Never \in Nat
  <2>1. B!Never \in Nat
    BY BlockConstants DEF B!Never
  <2> QED  BY <2>1, BlockState, BlockConstants, AllCut
<1>1. \A b \in active : b = B!Last(bs)
  BY OneActiveSound DEF B!OneActive
<1> HIDE DEF bs
<1>n. Neat(bs, v2, v3)
  BY <1>0, CutFacts
<1>2. \A b \in active : /\ b.first \in Nat /\ b.last \in Nat /\ b.end \in Nat
                        /\ b.tokens \in Nat /\ b.entries \in Nat
  <2>1. \A b \in active : \E i \in 1..Len(bs) : b = bs[i]
    BY <1>n DEF B!ActiveOf, B!Range, Neat
  <2> QED  BY <1>n, <2>1 DEF Neat
<1> HIDE DEF active
<1> SUFFICES ASSUME NEW primary \in Used \cup {-1}, NEW secondary \in Used \cup {-1},
                    B!Signals(bs, v3, v4, primary, secondary) # {}
             PROVE  LET signals == B!Signals(bs, v3, v4, primary, secondary)
                        f == B!Forecast(signals)
                    IN /\ B!Cardinality(signals) = 1 + Len(f.secondary)
                       /\ \A s \in signals : B!Pressure(s) <= B!Pressure(f.primary)
                       /\ \A s \in signals :
                            B!Severity(B!Pressure(s)) = "danger" => f.severity = "danger"
                       /\ \A s \in signals : s.used >= 80 => f.severity = "danger"
  BY DEF B!ForecastIsWorst, bs
<1> DEFINE A0 == IF v4 > 0 THEN {B!BlockSignal(b, v3, v4) : b \in active} ELSE {}
           A1 == IF primary >= 0 THEN {B!WindowSignal(1, primary, 1)} ELSE {}
           A2 == IF secondary >= 0 THEN {B!WindowSignal(2, secondary, B!Never)} ELSE {}
           all == B!Signals(bs, v3, v4, primary, secondary)
           f == B!Forecast(all)
<1>3. all = A0 \cup A1 \cup A2
  BY DEF B!Signals, active
<1>4. \A s \in A0 : SignalOK(s) /\ s.kind = 0
  <2> SUFFICES ASSUME NEW b \in active, v4 > 0
               PROVE  SignalOK(B!BlockSignal(b, v3, v4)) /\ B!BlockSignal(b, v3, v4).kind = 0
    OBVIOUS
  <2> DEFINE s == B!BlockSignal(b, v3, v4)
  <2>1. /\ s.kind = 0 /\ s.used = B!Percent(b.tokens, v4)
        /\ s.projected = B!Percent(B!ProjectedTokens(b, v3), v4)
        /\ s.resets = IF b.end > v1 THEN b.end - v1 ELSE 0
    BY DEF B!BlockSignal, B!Quota
  <2> HIDE DEF s
  <2>2. B!ProjectedTokens(b, v3) \in Nat /\ b.tokens \in Nat /\ b.tokens <= B!ProjectedTokens(b, v3)
    BY <1>0, <1>2, ProjectionFacts
  <2>3. v4 \in Nat \ {0}
    BY <1>0
  <2>4. s.used \in Nat /\ s.projected \in Nat /\ s.used <= s.projected
    BY <2>1, <2>2, <2>3, SharesGrow
  <2>5. s.resets \in Int
    BY <1>0, <1>2, <2>1
  <2>6. SignalOK(s) /\ s.kind = 0
    BY <2>1, <2>4, <2>5 DEF SignalOK
  <2> QED  BY <2>6 DEF s
<1>5. \A s \in A1 : SignalOK(s) /\ s.kind = 1
  BY <1>0 DEF SignalOK, B!WindowSignal
<1>6. \A s \in A2 : SignalOK(s) /\ s.kind = 2
  BY <1>0 DEF SignalOK, B!WindowSignal
<1>7. (\A s, t \in A0 : s = t) /\ (\A s, t \in A1 : s = t) /\ (\A s, t \in A2 : s = t)
  <2>1. \A b, c \in active : b = c
    BY <1>1
  <2> QED  BY <2>1
<1> HIDE DEF A0, A1, A2, all
<1>8. IsFiniteSet(all)
  <2>1. IsFiniteSet(A0) /\ IsFiniteSet(A1) /\ IsFiniteSet(A2)
    BY <1>7, OneOrNone
  <2>2. IsFiniteSet(A0 \cup A1)
    BY <2>1, FS_Union
  <2>3. IsFiniteSet((A0 \cup A1) \cup A2)
    BY <2>1, <2>2, FS_Union
  <2> QED  BY <1>3, <2>3
<1>9. \A s \in all : SignalOK(s)
  BY <1>3, <1>4, <1>5, <1>6
<1>10. \A s, t \in all : s.kind = t.kind => s = t
  BY <1>3, <1>4, <1>5, <1>6, <1>7
<1>11. all # {}
  BY DEF all
<1> HIDE DEF f
<1>12. /\ Cardinality(all) = 1 + Len(f.secondary)
       /\ f.primary \in all /\ f.severity = B!Severity(B!Pressure(f.primary))
       /\ \A s \in all : B!Pressure(s) <= B!Pressure(f.primary)
  BY <1>8, <1>9, <1>10, <1>11, ForecastFacts DEF f
<1>13. B!Pressure(f.primary) \in Nat /\ \A s \in all : B!Pressure(s) \in Nat /\ s.used \in Nat
                                                     /\ s.used <= B!Pressure(s)
  BY <1>9, <1>12, PressureIs DEF SignalOK
<1>14. \A s \in all : B!Severity(B!Pressure(s)) = "danger" => f.severity = "danger"
  <2>1. \A s \in all : B!Severity(B!Pressure(s)) = "danger" => B!Pressure(s) >= 80
    BY <1>13, SeverityIs
  <2>2. B!Pressure(f.primary) >= 80 => f.severity = "danger"
    BY <1>12, <1>13, SeverityIs
  <2> QED  BY <1>12, <1>13, <2>1, <2>2
<1>15. \A s \in all : s.used >= 80 => f.severity = "danger"
  <2>1. B!Pressure(f.primary) >= 80 => f.severity = "danger"
    BY <1>12, <1>13, SeverityIs
  <2> QED  BY <1>12, <1>13, <2>1
<1> QED  BY <1>12, <1>14, <1>15, BlockSizes DEF all, f

-----------------------------------------------------------------------------
(* Blocks: the views *)

LEMMA GreatestOf ==
    ASSUME NEW X, IsFiniteSet(X), X # {}, X \subseteq Nat
    PROVE  \E m \in X : \A x \in X : x <= m
<1> DEFINE Good == {T \in SUBSET X : T = {} \/ \E m \in T : \A x \in T : x <= m}
<1>1. {} \in Good
  OBVIOUS
<1>2. ASSUME NEW T \in SUBSET X, NEW y \in X \ T, T \in Good PROVE T \cup {y} \in Good
  <2>1. CASE T = {}
    BY <2>1
  <2>2. CASE T # {}
    <3>1. PICK m \in T : \A x \in T : x <= m
      BY <1>2, <2>2
    <3>2. CASE y <= m
      BY <3>1, <3>2
    <3>3. CASE ~(y <= m)
      <4>1. \A x \in T : x <= y
        BY <3>1, <3>3
      <4> QED  BY <4>1
    <3> QED  BY <3>2, <3>3
  <2> QED  BY <2>1, <2>2
<1>3. X \in Good
  <2> HIDE DEF Good
  <2> QED  BY <1>1, <1>2, SetInduction
<1> QED  BY <1>3

\* No block used more than the most.
LEMMA MostIs ==
    ASSUME NEW k \in Nat, NEW bs, DOMAIN bs = 1..k,
           \A i \in 1..k : bs[i].tokens \in Nat /\ bs[i].gap = FALSE
    PROVE  /\ B!HistoricalMax(bs) \in Nat
           /\ \A i \in 1..k : bs[i].tokens <= B!HistoricalMax(bs)
<1> DEFINE X == {b.tokens : b \in {c \in B!Range(bs) : ~c.gap}} \cup {0}
           h == [i \in 1..k |-> bs[i].tokens]
<1>1. B!Range(bs) = {bs[i] : i \in 1..k}
  BY DEF B!Range
<1>2. X = {h[i] : i \in 1..k} \cup {0}
  BY <1>1
<1>3. X \subseteq Nat /\ X # {}
  <2>1. \A i \in 1..k : h[i] \in Nat
    OBVIOUS
  <2> HIDE DEF X, h
  <2> QED  BY <1>2, <2>1
<1>4. IsFiniteSet(X)
  <2>1. IsFiniteSet(1..k)
    BY FS_Interval
  <2> HIDE DEF h
  <2>2. IsFiniteSet({h[i] : i \in 1..k})
    BY <2>1, ImageFinite
  <2> QED  BY <1>2, <2>2, FS_AddElement
<1>5. \A i \in 1..k : bs[i].tokens \in X
  <2> SUFFICES ASSUME NEW i \in 1..k PROVE bs[i].tokens \in X
    OBVIOUS
  <2>1. h[i] = bs[i].tokens /\ h[i] \in {h[j] : j \in 1..k}
    OBVIOUS
  <2> HIDE DEF X, h
  <2> QED  BY <1>2, <2>1
<1>6. B!HistoricalMax(bs) = CHOOSE m \in X : \A x \in X : m >= x
  BY DEF B!HistoricalMax, B!Max
<1> HIDE DEF X
<1>7. \E m \in X : \A x \in X : m >= x
  BY <1>3, <1>4, GreatestOf
<1>8. B!HistoricalMax(bs) \in X /\ \A x \in X : B!HistoricalMax(bs) >= x
  BY <1>6, <1>7
<1> QED  BY <1>3, <1>5, <1>8

LEMMA MostShare ==
    ASSUME NEW x \in Nat, NEW lim \in Nat \ {0}, x <= lim
    PROVE  B!Percent(x, lim) <= 100
<1> DEFINE p == B!Percent(x, lim)
<1>1. 100 * x \in Nat /\ 100 * x <= 100 * lim
  OBVIOUS
<1>2. p = (100 * x) \div lim
  BY DEF B!Percent
<1> HIDE DEF p
<1>3. p \in Nat /\ p * lim <= 100 * x
  BY <1>1, <1>2, Division
<1>4. p <= 100
  <2> SUFFICES ASSUME 101 <= p PROVE FALSE
    BY <1>3
  <2>1. 101 * lim <= p * lim
    BY <1>3
  <2>2. p * lim \in Nat
    BY <1>3
  <2> QED  BY <1>1, <1>3, <2>1, <2>2
<1> QED  BY <1>4 DEF p

LEMMA ViewsSound == ASSUME B!Inv, LongEnough PROVE B!ViewsAgree
<1> DEFINE bs == B!IdentifyBlocks(B!LoadTurns(0), v3)
           rs == B!BlocksWithGaps(B!LoadTurns(0), v3)
           k == Len(bs)
           m == Len(rs)
           api == B!ApiBlocks(v3, v4)
           table == B!CommandBlocks(v3, "set", TRUE, FALSE)
           only == B!CommandBlocks(v3, "max", FALSE, TRUE)
           most == B!HistoricalMax(bs)
           kept == {i \in DOMAIN bs : B!IsActive(bs[i], v3)}
<1>0. /\ v3 \in Nat /\ HourTicks \in Nat \ {0} /\ HourTicks <= v3 /\ TurnSet(v2)
      /\ v4 \in Nat /\ CutOf(bs, v2, v3)
  BY BlockState, BlockConstants, AllCut
<1>1. Tiled(rs) /\ NoPauses(rs) = {bs[i] : i \in 1..k}
  BY <1>0, TableWhole
<1>2. api.rows = [i \in 1..m |-> B!ApiRow(rs[i], v3, v4)]
  BY DEF B!ApiBlocks
<1>3. table = [i \in DOMAIN rs |-> B!CommandRow(rs[i], v3, v4)]
  BY DEF B!CommandBlocks
<1>4. only = [i \in kept |-> B!CommandRow(bs[i], v3, most)]
  BY DEF B!CommandBlocks
<1> HIDE DEF bs, rs, api, table, only
<1>n. Neat(bs, v2, v3)
  BY <1>0, CutFacts
<1>5. k \in Nat /\ DOMAIN bs = 1..k /\ \A i \in 1..k : bs[i].tokens \in Nat /\ bs[i].gap = FALSE
  BY <1>n DEF Neat
<1>6. m \in Nat /\ DOMAIN rs = 1..m
  BY <1>1, LenProperties DEF Tiled
<1> HIDE DEF k, m
<1>7. DOMAIN api.rows = 1..m /\ DOMAIN table = 1..m /\ DOMAIN only = kept
  BY <1>2, <1>3, <1>4, <1>6
<1>8. \A b, lim : /\ B!ApiRow(b, v3, lim).block = b /\ B!ApiRow(b, v3, lim).active = B!IsActive(b, v3)
                  /\ B!CommandRow(b, v3, lim).block = b
                  /\ B!CommandRow(b, v3, lim).quota
                        = IF lim > 0 THEN <<B!Quota(b, v3, lim)>> ELSE <<>>
                  /\ B!IsActive(b, v3) =>
                        B!ApiRow(b, v3, lim).quota = B!CommandRow(b, v3, lim).quota
  BY DEF B!ApiRow, B!CommandRow
<1>9. [i \in DOMAIN api.rows |-> api.rows[i].block] = [i \in DOMAIN table |-> table[i].block]
  <2>1. \A i \in 1..m : api.rows[i].block = rs[i] /\ table[i].block = rs[i]
    BY <1>2, <1>3, <1>6, <1>8
  <2> QED  BY <1>7, <2>1
<1>10. \A i \in DOMAIN api.rows : api.rows[i].active => api.rows[i].quota = table[i].quota
  <2> SUFFICES ASSUME NEW i \in 1..m, api.rows[i].active
               PROVE  api.rows[i].quota = table[i].quota
    BY <1>7
  <2>1. api.rows[i] = B!ApiRow(rs[i], v3, v4) /\ table[i] = B!CommandRow(rs[i], v3, v4)
    BY <1>2, <1>3, <1>6
  <2> QED  BY <1>8, <2>1
<1>11. {row.block : row \in B!Range(only)}
          = {row.block : row \in {r \in B!Range(api.rows) : r.active}}
  <2>1. {row.block : row \in B!Range(only)} = {bs[i] : i \in kept}
    <3>1. B!Range(only) = {only[i] : i \in kept}
      BY <1>7 DEF B!Range
    <3>2. \A i \in kept : only[i].block = bs[i]
      BY <1>4, <1>8
    <3> HIDE DEF kept
    <3> QED  BY <3>1, <3>2
  <2>2. {row.block : row \in {r \in B!Range(api.rows) : r.active}}
           = {rs[i] : i \in {j \in 1..m : B!IsActive(rs[j], v3)}}
    <3>1. B!Range(api.rows) = {api.rows[i] : i \in 1..m}
      BY <1>7 DEF B!Range
    <3>2. \A i \in 1..m : api.rows[i].block = rs[i] /\ api.rows[i].active = B!IsActive(rs[i], v3)
      BY <1>2, <1>8
    <3> QED  BY <3>1, <3>2
  <2>3. \A b : b \in {bs[i] : i \in kept} <=> b \in NoPauses(rs) /\ B!IsActive(b, v3)
    BY <1>1, <1>5 DEF k
  <2>4. \A b : b \in {rs[i] : i \in {j \in 1..m : B!IsActive(rs[j], v3)}}
                 <=> b \in NoPauses(rs) /\ B!IsActive(b, v3)
    <3>1. \A b : B!IsActive(b, v3) => ~b.gap
      BY DEF B!IsActive
    <3> QED  BY <1>6, <3>1 DEF NoPauses
  <2> HIDE DEF kept
  <2> QED  BY <2>1, <2>2, <2>3, <2>4
<1>12. ASSUME NEW row \in B!Range(only), NEW q \in B!Range(row.quota)
       PROVE  q.currentPct <= 100
  <2>1. PICK i \in kept : row = B!CommandRow(bs[i], v3, most)
    BY <1>4, <1>7 DEF B!Range
  <2>2. i \in 1..k
    BY <1>5
  <2>3. most \in Nat /\ bs[i].tokens \in Nat /\ bs[i].tokens <= most
    BY <1>5, <2>2, MostIs
  <2>4. row.quota = IF most > 0 THEN <<B!Quota(bs[i], v3, most)>> ELSE <<>>
    BY <1>8, <2>1
  <2> HIDE DEF most
  <2>5. most > 0 /\ q = B!Quota(bs[i], v3, most)
    <3>1. DOMAIN row.quota # {}
      BY DEF B!Range
    <3>2. most > 0
      BY <2>4, <3>1
    <3>3. \A x : B!Range(<<x>>) = {x}
      BY DEF B!Range
    <3> QED  BY <2>4, <3>2, <3>3
  <2>6. q.currentPct = B!Percent(bs[i].tokens, most)
    BY <2>5 DEF B!Quota
  <2> QED  BY <2>3, <2>5, <2>6, MostShare
<1> QED  BY <1>9, <1>10, <1>11, <1>12 DEF B!ViewsAgree, api, table, only

LEMMA SessionsSound == B!SessionsAgree
<1>1. Lengths \subseteq Nat \ {0} /\ Longest \in Nat /\ Default \in Nat
  BY BlockConstants
<1> SUFFICES ASSUME NEW cli \in {0} \cup Lengths, NEW named \in {-1, 0, Longest + 1} \cup Lengths,
                    NEW flat \in {-1, 0, Longest + 1} \cup Lengths
             PROVE  B!CommandSession(cli, named, flat) = B!ResolvedSession(cli, named, flat)
  BY DEF B!SessionsAgree
<1>2. \A b : 0 # 0 <=> FALSE
  OBVIOUS
<1>3. CASE cli # 0
  BY <1>3 DEF B!CommandSession, B!ResolvedSession
<1>4. CASE cli = 0 /\ named # 0
  BY <1>4 DEF B!CommandSession, B!ResolvedSession
<1>5. CASE cli = 0 /\ named = 0
  BY <1>5 DEF B!CommandSession, B!ResolvedSession
<1> QED  BY <1>3, <1>4, <1>5

-----------------------------------------------------------------------------
(* Blocks: the steps *)

LEMMA BlocksStart == B!Init => B!Inv
<1> SUFFICES ASSUME B!Init PROVE B!Inv
  OBVIOUS
<1>1. v1 = 0 /\ v2 = {} /\ v3 \in Lengths /\ v4 \in Limits
  BY DEF B!Init
<1>2. 0 \in 0..MaxTime
  BY BlockConstants
<1>3. B!IsFiniteSet({})
  BY BlocksFinite, FS_EmptySet
<1> QED  BY <1>1, <1>2, <1>3 DEF B!Inv, B!TypeOK

LEMMA BlockStores ==
    ASSUME B!Inv, NEW at \in Nat, at <= v1, NEW size \in Sizes, B!Store(at, size)
    PROVE  B!Inv'
<1> DEFINE same == {t \in v2 : t.at = at /\ t.size = size}
           new == [at |-> at, size |-> size, id |-> 1 + B!Cardinality(same)]
<1>1. /\ v1 \in 0..MaxTime /\ v3 \in Lengths /\ v4 \in Limits /\ IsFiniteSet(v2)
      /\ v2 \subseteq [at : 0..MaxTime, size : Sizes, id : 1..BlockTurns]
      /\ \A t \in v2 : t.at <= v1
  BY BlocksFinite DEF B!Inv, B!TypeOK
<1>2. B!Cardinality(v2) < BlockTurns /\ v2' = v2 \cup {new}
      /\ v1' = v1 /\ v3' = v3 /\ v4' = v4
  BY Zenon DEF B!Store
<1>3. BlockTurns \in Nat /\ MaxTime \in Nat
  BY BlockConstants
<1>4. 1 + B!Cardinality(same) \in 1..BlockTurns
  <2>1. same \in SUBSET v2
    OBVIOUS
  <2> HIDE DEF same
  <2>2. Cardinality(same) \in Nat /\ Cardinality(v2) \in Nat /\ Cardinality(same) <= Cardinality(v2)
    BY <1>1, <2>1, FS_Subset, FS_CardinalityType
  <2> QED  BY <1>2, <1>3, <2>2, BlockSizes
<1>5. new \in [at : 0..MaxTime, size : Sizes, id : 1..BlockTurns] /\ new.at = at
  <2>1. at \in 0..MaxTime
    BY <1>1, <1>3
  <2> HIDE DEF same
  <2> QED  BY <1>4, <2>1
<1> HIDE DEF new
<1>6. IsFiniteSet(v2')
  BY <1>1, <1>2, FS_AddElement
<1>7. v2' \subseteq [at : 0..MaxTime, size : Sizes, id : 1..BlockTurns]
      /\ \A t \in v2' : t.at <= v1'
  BY <1>1, <1>2, <1>5
<1>8. B!IsFiniteSet(v2)'
  <2>1. B!IsFiniteSet(v2')
    BY <1>6, BlocksFinite
  <2> QED  BY <2>1 DEF B!IsFiniteSet
<1> QED  BY <1>1, <1>2, <1>7, <1>8 DEF B!Inv, B!TypeOK

LEMMA BlocksStep == B!Inv /\ [B!Next]_(B!vars) => B!Inv'
<1> SUFFICES ASSUME B!Inv, [B!Next]_(B!vars) PROVE B!Inv'
  OBVIOUS
<1>1. /\ v1 \in 0..MaxTime /\ v3 \in Lengths /\ v4 \in Limits /\ B!IsFiniteSet(v2)
      /\ v2 \subseteq [at : 0..MaxTime, size : Sizes, id : 1..BlockTurns]
      /\ \A t \in v2 : t.at <= v1
  BY DEF B!Inv, B!TypeOK
<1>c. MaxTime \in Nat /\ HourTicks \in Nat \ {0}
  BY BlockConstants
<1>2. CASE B!Tick
  <2>1. v1 < MaxTime /\ v1' = v1 + 1 /\ v2' = v2 /\ v3' = v3 /\ v4' = v4
    BY <1>2 DEF B!Tick
  <2>2. v1' \in 0..MaxTime
    BY <1>1, <1>c, <2>1
  <2>3. \A t \in v2' : t.at <= v1'
    <3>1. \A t \in v2 : t.at \in 0..MaxTime
      BY <1>1
    <3> QED  BY <1>1, <1>c, <2>1, <3>1
  <2>4. B!IsFiniteSet(v2)'
    BY <1>1, <2>1 DEF B!IsFiniteSet
  <2> QED  BY <1>1, <2>1, <2>2, <2>3, <2>4 DEF B!Inv, B!TypeOK
<1>3. CASE B!StoreNow
  <2>1. PICK size \in Sizes : B!Store(v1, size)
    BY <1>3 DEF B!StoreNow
  <2>2. v1 \in Nat /\ v1 <= v1
    BY <1>1, <1>c
  <2> QED  BY <2>1, <2>2, BlockStores
<1>4. CASE B!StoreLate
  <2>1. PICK size \in Sizes : v1 >= HourTicks /\ B!Store(v1 - HourTicks, size)
    BY <1>4 DEF B!StoreLate
  <2>2. v1 - HourTicks \in Nat /\ v1 - HourTicks <= v1
    BY <1>1, <1>c, <2>1
  <2> QED  BY <2>1, <2>2, BlockStores
<1>5. CASE UNCHANGED B!vars
  <2>1. v1' = v1 /\ v2' = v2 /\ v3' = v3 /\ v4' = v4
    BY <1>5 DEF B!vars
  <2>2. B!IsFiniteSet(v2)'
    BY <1>1, <2>1 DEF B!IsFiniteSet
  <2> QED  BY <1>1, <2>1, <2>2 DEF B!Inv, B!TypeOK
<1> QED  BY <1>2, <1>3, <1>4, <1>5 DEF B!Next

LEMMA BlocksAreSound ==
    ASSUME LongEnough
    PROVE  B!Inv => B!TypeOK /\ B!BlocksExact /\ B!PausedAgrees /\ B!AdviceSound
BY PartitionSound, RowsTiled, OneActiveSound, PausedSound, RanksSound, ForecastSound,
   ViewsSound, SessionsSound DEF B!Inv, B!BlocksExact, B!AdviceSound

-----------------------------------------------------------------------------
(* Each part alone *)

\* A step of the whole is a step of the part, or leaves it alone.
LEMMA PartSteps ==
    [Next]_vars =>
        /\ part' = part
        /\ part = "ledger" => [L!Next]_(L!vars)
        /\ part = "blocks" => [B!Next]_(B!vars)
        /\ part = "sources" => [S!Next]_(S!vars)
        /\ part = "prices" => [P!Next]_(P!vars)
        /\ part = "official" => [O!Next]_(O!vars)
        /\ part = "waste" => [W!Next]_(W!vars)
<1>1. CASE Next
  BY <1>1 DEF Next, Ledger, Blocks, Sources, Prices, Official, Waste
<1>2. CASE UNCHANGED vars
  BY <1>2 DEF vars, L!vars, L!db, L!writers, L!reader, B!vars, S!vars,
     S!scanner, P!vars, O!vars, W!vars, W!stored
<1> QED  BY <1>1, <1>2

LEMMA PartStarts ==
    Init => /\ part = "ledger" => L!Init
            /\ part = "blocks" => B!Init
            /\ part = "sources" => S!Init
            /\ part = "prices" => P!Init
            /\ part = "official" => O!Init
            /\ part = "waste" => W!Init
BY DEF Init

-----------------------------------------------------------------------------
(* The theorems *)

LEMMA PricesAlways == Spec => [](part = "prices" => P!Inv)
<1>1. Init => (part = "prices" => P!Inv)
  BY PartStarts, PriceInit
<1>2. (part = "prices" => P!Inv) /\ [Next]_vars => (part = "prices" => P!Inv)'
  BY PartSteps, PriceStep
<1> QED  BY <1>1, <1>2, PTL DEF Spec

\* However scans, syncs, failed pages and crashes fall between, when a sync that
\* found a change has ended, the turns it read when it began to reprice all carry
\* its version and the price its catalogue gives their name, which may be that of
\* a shorter name and passes over an override; a turn no sync has priced yet has
\* the price that fits its name best; and one more token never makes a turn
\* cheaper: for any table, pages, turns and bounds
\* (sync_pricing, reprice_turns_with_catalog, lookup_pricing,
\* calc_cost_nanos_with_pricing).
THEOREM TurnsRepriced == Spec => []RepricedWhole
<1>1. (part = "prices" => P!Inv) => RepricedWhole
  BY PriceSound DEF RepricedWhole
<1> QED  BY <1>1, PricesAlways, PTL

\* A page that is down or shows nothing takes no price away, whatever else
\* happens (pricing_sync.rs, load_latest_pricing_models).
THEOREM FailuresKeepPrices == Spec => FailureKeepsPrices
<1>1. (part = "prices" => P!Inv) /\ [Next]_vars => [part = "prices" => P!KeepsPrices]_vars
  <2> SUFFICES ASSUME part = "prices" => P!Inv, Next, part = "prices" PROVE P!KeepsPrices
    OBVIOUS
  <2>1. P!Next
    BY DEF Next, Ledger, Blocks, Sources, Prices, Official, Waste
  <2> QED  BY <2>1, PriceKeeps
<1> QED  BY <1>1, PricesAlways, PTL DEF Spec, FailureKeepsPrices

\* Whatever scans fall between the detectors, trivial commands are told exactly,
\* and a report blames no server and no agent that was in use before it began,
\* and never grades better than its findings allow: for any sessions, calls,
\* thresholds and configurations (optimizer/bash.rs, mcp.rs, agents.rs,
\* grade.rs).
THEOREM WasteStaysTrue == Spec => []WasteTrue
<1>1. Init => (part = "waste" => W!Inv)
  BY PartStarts, WasteStarts
<1>2. (part = "waste" => W!Inv) /\ [Next]_vars => (part = "waste" => W!Inv)'
  BY PartSteps, WasteStep
<1>3. (part = "waste" => W!Inv) => WasteTrue
  BY NoiseIsExact DEF WasteTrue, W!WasteTrue, W!Inv
<1> QED  BY <1>1, <1>2, <1>3, PTL DEF Spec

\* A report read while nothing is written is consistent: its sections count each
\* turn once, whatever the column they group by, the time zone and the week
\* start, those that join or read the session rows included, however scans,
\* crashes and repricings came before: for any files, turns, prices and queries
\* (get_dashboard_data, provider_cost_summary, cmd_today, cmd_stats, run_export).
THEOREM ReportsAddUp == Spec => []LedgerAddsUp
<1>1. Init => (part = "ledger" => L!Inv)
  BY PartStarts, LedgerStarts
<1>2. (part = "ledger" => L!Inv) /\ [Next]_vars => (part = "ledger" => L!Inv)'
  BY PartSteps, LedgerStep
<1>3. (part = "ledger" => L!Inv) => LedgerAddsUp
  BY DashboardSound, CommandsSound, ProviderSound DEF LedgerAddsUp, L!Inv
<1> QED  BY <1>1, <1>2, <1>3, PTL DEF Spec

\* When every file of a provider other than Claude is marked at the time it has,
\* the table holds exactly the rows the logs say, but for turns left out because
\* another file's row had their id, and those are only Codex's usage outside of a
\* turn and OpenCode's messages; and each log is read as its format means: after
\* growth of several logs in the middle of a scan, a crash of the scan, sessions
\* moved to the archive and a new database, but for the files that SourcesStored
\* names: for any paths, providers, lines and lengths of the logs
\* (scanner/mod.rs, insert_turns, delete_turns_by_source_path, the parse
\* functions of the providers, save_cache of cursor_cache.rs).
THEOREM LogsStayStored == Spec => []SourcesStored
<1>1. Init => (part = "sources" => S!Inv)
  BY PartStarts, SourcesStart
<1>2. (part = "sources" => S!Inv) /\ [Next]_vars => (part = "sources" => S!Inv)'
  BY PartSteps, SourcesStep
<1>3. (part = "sources" => S!Inv) => SourcesStored
  BY SourcesSound DEF SourcesStored
<1> QED  BY <1>1, <1>2, <1>3, PTL DEF Spec

\* A sync that reaches its end has counted what it stored, and the dashboard
\* shows it for every source: no run of a sync that died or failed shines
\* through, a success has records and what was skipped has none: for any
\* sources, pages and number of syncs (sync_pricing, query_dashboard_official_sync).
THEOREM SyncsReportTrue == Spec => []SyncReported
<1>1. Init => (part = "official" => O!Inv)
  BY PartStarts, OfficialStarts
<1>2. (part = "official" => O!Inv) /\ [Next]_vars => (part = "official" => O!Inv)'
  BY PartSteps, OfficialStep
<1>3. (part = "official" => O!Inv) => SyncReported
  BY DEF SyncReported, O!Inv
<1> QED  BY <1>1, <1>2, <1>3, PTL DEF Spec

\* The blocks are the turns, each counted once and in the block that covers it,
\* and their table has no hole; where the user paused, the status line shows the
\* block that every other view shows; and the limits suggested, the forecast and
\* the views follow from the same numbers, whatever turns come in, late ones
\* too: for any turns, limits and session lengths of an hour or more
\* (identify_blocks_with_gaps, quota_suggestions, depletion_forecast).
THEOREM BlocksAreTurns == LongEnough => (Spec => []BlocksSound)
<1> SUFFICES ASSUME LongEnough PROVE Spec => []BlocksSound
  OBVIOUS
<1>1. Init => (part = "blocks" => B!Inv)
  BY PartStarts, BlocksStart
<1>2. (part = "blocks" => B!Inv) /\ [Next]_vars => (part = "blocks" => B!Inv)'
  BY PartSteps, BlocksStep
<1>3. (part = "blocks" => B!Inv) => BlocksSound
  BY BlocksAreSound DEF BlocksSound
<1> QED  BY <1>1, <1>2, <1>3, PTL DEF Spec

=============================================================================
