----------------------------- MODULE FiniteSums -----------------------------
(***************************************************************************)
(* Sums over finite sets, for the sizes of photos, the refunds of a        *)
(* payment and the characters of a conversation that the code adds up.     *)
(* The models add with MapThenSumSet and FoldSet, whose recursive function *)
(* takes an element at a time; no prover here does induction over data, so *)
(* each fact is shown on a smallest set that would refute it.              *)
(***************************************************************************)
EXTENDS Naturals, FiniteSetTheorems, TLAPS

\* The element a sum takes next.
Pick(s) == CHOOSE x \in s : TRUE

\* t gives the sum of f over every part of S, an element at a time.
IsTotal(t, f, S) ==
  t = [s \in SUBSET S |-> IF s = {} THEN 0 ELSE f[Pick(s)] + t[s \ {Pick(s)}]]

\* The recursion is unfolded from smallest cases: every set of numbers has one.
LEMMA SmallestNumber ==
  ASSUME NEW T \in SUBSET Nat, T # {}
  PROVE  \E n \in T : \A m \in T : n <= m
<1>1. PICK n \in T : \A m \in T : ~ (<<m, n>> \in OpToRel(<, Nat))
  BY NatLessThanWellFounded, WFMin
<1>2. \A m \in T : ~ (m < n)
  BY <1>1 DEF OpToRel
<1> QED BY <1>2

\* So has every set of parts of a finite set.
LEMMA SmallestSet ==
  ASSUME NEW S, IsFiniteSet(S), NEW T \in SUBSET SUBSET S, T # {}
  PROVE  \E s \in T : \A r \in T : r \subseteq s => r = s
<1>1. IsWellFoundedOn(StrictSubsetOrdering(S), SUBSET S)
  BY FS_StrictSubsetOrderingWellFounded, FS_FiniteSubsetsOfFinite
<1>2. PICK s \in T : \A r \in T : ~ (<<r, s>> \in StrictSubsetOrdering(S))
  BY <1>1, WFMin
<1> QED BY <1>2 DEF StrictSubsetOrdering

\* Sets of at most n elements.
Small(S, n) == {s \in SUBSET S : Cardinality(s) <= n}

\* t gives the sums over the parts of S with at most n elements.
IsStage(t, f, S, n) ==
  t = [s \in Small(S, n) |-> IF s = {} THEN 0 ELSE f[Pick(s)] + t[s \ {Pick(s)}]]

\* A part without one of its elements is a smaller one.
LEMMA SmallLess ==
  ASSUME NEW S, IsFiniteSet(S), NEW n \in Nat, NEW s \in Small(S, n + 1), s # {}
  PROVE  s \ {Pick(s)} \in Small(S, n)
<1>1. IsFiniteSet(s) /\ s \subseteq S
  BY FS_Subset DEF Small
<1>2. Pick(s) \in s
  BY DEF Pick
<1>3. Cardinality(s) \in Nat /\ Cardinality(s \ {Pick(s)}) = Cardinality(s) - 1
  BY <1>1, <1>2, FS_CardinalityType, FS_RemoveElement
<1> QED BY <1>1, <1>3 DEF Small

\* The sums over the smaller parts give those over the next larger ones: the sum over
\* a finite set, as the recursive definition gives it, exists.
LEMMA TotalExists ==
  ASSUME NEW S, IsFiniteSet(S), NEW f
  PROVE  \E t : IsTotal(t, f, S)
<1> DEFINE T == {n \in Nat : ~ \E t : IsStage(t, f, S, n)}
<1>1. T = {}
  <2> SUFFICES ASSUME T # {} PROVE FALSE
    OBVIOUS
  <2>1. PICK n \in T : \A m \in T : n <= m
    BY SmallestNumber
  <2>2. CASE n = 0
    <3>1. Small(S, 0) \subseteq {{}}
      <4> SUFFICES ASSUME NEW s \in Small(S, 0) PROVE s = {}
        OBVIOUS
      <4>1. IsFiniteSet(s) /\ Cardinality(s) <= 0
        BY FS_Subset DEF Small
      <4> QED BY <4>1, FS_CardinalityType, FS_EmptySet
    <3> DEFINE z == [s \in Small(S, 0) |-> 0]
    <3>2. z = [s \in Small(S, 0) |-> IF s = {} THEN 0 ELSE f[Pick(s)] + z[s \ {Pick(s)}]]
      BY <3>1
    <3>3. IsStage(z, f, S, 0)
      BY <3>2 DEF IsStage
    <3> QED BY <2>2, <3>3
  <2>3. CASE n # 0
    <3>1. PICK m \in Nat : n = m + 1
      BY <2>3
    <3>2. PICK t : IsStage(t, f, S, m)
      BY <2>1, <3>1
    <3> DEFINE z == [s \in Small(S, m + 1) |->
                       IF s = {} THEN 0 ELSE f[Pick(s)] + t[s \ {Pick(s)}]]
    <3>3. \A s \in Small(S, m) : s \in Small(S, m + 1) /\ z[s] = t[s]
      <4>1. \A s \in Small(S, m) : s \in Small(S, m + 1)
        <5> SUFFICES ASSUME NEW s \in Small(S, m) PROVE s \in Small(S, m + 1)
          OBVIOUS
        <5>1. IsFiniteSet(s) /\ Cardinality(s) <= m
          BY FS_Subset DEF Small
        <5>2. Cardinality(s) \in Nat
          BY <5>1, FS_CardinalityType
        <5> QED BY <5>1, <5>2 DEF Small
      <4>2. \A s \in Small(S, m) : t[s] = IF s = {} THEN 0 ELSE f[Pick(s)] + t[s \ {Pick(s)}]
        BY <3>2 DEF IsStage
      <4> QED BY <4>1, <4>2
    <3>4. \A s \in Small(S, m + 1) :
            z[s] = IF s = {} THEN 0 ELSE f[Pick(s)] + z[s \ {Pick(s)}]
      <4> SUFFICES ASSUME NEW s \in Small(S, m + 1)
                   PROVE  z[s] = IF s = {} THEN 0 ELSE f[Pick(s)] + z[s \ {Pick(s)}]
        OBVIOUS
      <4>1. s # {} => z[s \ {Pick(s)}] = t[s \ {Pick(s)}]
        BY <3>3, SmallLess
      <4> QED BY <4>1
    <3>5. PICK y : y = z
      OBVIOUS
    <3>6. /\ y = [s \in Small(S, m + 1) |-> y[s]]
          /\ \A s \in Small(S, m + 1) :
               y[s] = IF s = {} THEN 0 ELSE f[Pick(s)] + y[s \ {Pick(s)}]
      BY <3>4, <3>5
    <3> HIDE DEF z
    <3>7. IsStage(y, f, S, m + 1)
      BY <3>6 DEF IsStage
    <3> QED BY <3>1, <3>7
  <2> QED BY <2>2, <2>3
<1>2. Cardinality(S) \in Nat
  BY FS_CardinalityType
<1>3. PICK t : IsStage(t, f, S, Cardinality(S))
  BY <1>1, <1>2
<1>4. Small(S, Cardinality(S)) = SUBSET S
  BY FS_Subset DEF Small
<1> QED BY <1>3, <1>4 DEF IsStage, IsTotal

\* What the definition of the sum says of a part.
LEMMA TotalStep ==
  ASSUME NEW f, NEW S, NEW t, IsTotal(t, f, S)
  PROVE  /\ t[{}] = 0
         /\ \A s \in SUBSET S : s # {} =>
              Pick(s) \in s /\ t[s] = f[Pick(s)] + t[s \ {Pick(s)}]
<1>1. \A s \in SUBSET S : t[s] = IF s = {} THEN 0 ELSE f[Pick(s)] + t[s \ {Pick(s)}]
  BY DEF IsTotal
<1>2. \A s : s # {} => Pick(s) \in s
  BY DEF Pick
<1> QED BY <1>1, <1>2

\* What is added up are natural numbers: sizes, or amounts of money.
Numbers(f, S) == \A k \in S : f[k] \in Nat

\* So the sum over every part is one.
LEMMA TotalNat ==
  ASSUME NEW f, NEW S, IsFiniteSet(S), Numbers(f, S), NEW t, IsTotal(t, f, S)
  PROVE  \A s \in SUBSET S : t[s] \in Nat
<1>1. PICK T : T = {s \in SUBSET S : t[s] \notin Nat}
  OBVIOUS
<1> SUFFICES ASSUME T # {} PROVE FALSE
  BY <1>1
<1>2. PICK s \in T : \A r \in T : r \subseteq s => r = s
  BY <1>1, SmallestSet
<1>3. s \in SUBSET S /\ t[s] \notin Nat
  BY <1>1
<1>4. t[{}] = 0
  BY TotalStep
<1>5. Pick(s) \in s /\ t[s] = f[Pick(s)] + t[s \ {Pick(s)}]
  <2>1. s # {}
    BY <1>3, <1>4
  <2> QED BY <1>3, <2>1, TotalStep
<1>6. t[s \ {Pick(s)}] \in Nat
  BY <1>1, <1>2, <1>3, <1>5
<1> QED BY <1>3, <1>5, <1>6 DEF Numbers

\* The order does not matter: any element may be taken out first.
LEMMA TotalSplit ==
  ASSUME NEW f, NEW S, IsFiniteSet(S), Numbers(f, S), NEW t, IsTotal(t, f, S)
  PROVE  \A s \in SUBSET S : \A k \in s : t[s] = f[k] + t[s \ {k}]
<1>1. PICK T : T = {s \in SUBSET S : \E k \in s : t[s] # f[k] + t[s \ {k}]}
  OBVIOUS
<1> SUFFICES ASSUME T # {} PROVE FALSE
  BY <1>1
<1>2. PICK s \in T : \A r \in T : r \subseteq s => r = s
  <2>1. T \in SUBSET SUBSET S
    BY <1>1
  <2> QED BY <2>1, SmallestSet
<1>3. s \in SUBSET S /\ \E k \in s : t[s] # f[k] + t[s \ {k}]
  BY <1>1
<1>4. PICK k \in s : t[s] # f[k] + t[s \ {k}]
  BY <1>3
<1>5. Pick(s) \in s /\ t[s] = f[Pick(s)] + t[s \ {Pick(s)}]
  <2>1. \A r \in SUBSET S : r # {} =>
          Pick(r) \in r /\ t[r] = f[Pick(r)] + t[r \ {Pick(r)}]
    BY TotalStep
  <2>2. s \in SUBSET S /\ s # {}
    BY <1>3, <1>4
  <2> QED BY <2>1, <2>2, Zenon
<1>6. PICK c \in s : t[s] = f[c] + t[s \ {c}]
  BY <1>5
<1>7. c # k
  BY <1>4, <1>6
<1>8. ASSUME NEW x \in s, NEW y \in s, x # y
      PROVE  t[s \ {x}] = f[y] + t[(s \ {x}) \ {y}]
  <2>1. s \ {x} \in SUBSET S /\ s \ {x} \notin T /\ y \in s \ {x}
    BY <1>2, <1>3, <1>8
  <2> QED BY <1>1, <2>1
<1>9. /\ t[s \ {c}] = f[k] + t[(s \ {c}) \ {k}]
      /\ t[s \ {k}] = f[c] + t[(s \ {k}) \ {c}]
  BY <1>6, <1>7, <1>8
<1>10. (s \ {k}) \ {c} = (s \ {c}) \ {k}
  OBVIOUS
<1>11. /\ f[c] \in Nat /\ f[k] \in Nat /\ t[(s \ {c}) \ {k}] \in Nat
  <2>1. (s \ {c}) \ {k} \in SUBSET S
    BY <1>3
  <2> QED BY <1>3, <1>6, <2>1, TotalNat DEF Numbers
<1>12. PICK x : x = t[(s \ {c}) \ {k}]
  OBVIOUS
<1>13. /\ t[s] = f[c] + (f[k] + x) /\ t[s \ {k}] = f[c] + x /\ x \in Nat
  BY <1>6, <1>9, <1>10, <1>11, <1>12
<1> QED BY <1>4, <1>11, <1>13

\* Where every element counts for no more, the sum is no larger.
LEMMA TotalMonotone ==
  ASSUME NEW f, NEW S, IsFiniteSet(S), Numbers(f, S), NEW t, IsTotal(t, f, S),
         NEW h, NEW R, IsFiniteSet(R), Numbers(h, R), NEW u, IsTotal(u, h, R),
         NEW C \in SUBSET (S \cap R), \A k \in C : h[k] <= f[k]
  PROVE  u[C] <= t[C]
<1>1. PICK T : T = {s \in SUBSET C : ~ (u[s] <= t[s])}
  OBVIOUS
<1> SUFFICES ASSUME T # {} PROVE FALSE
  BY <1>1
<1>2. IsFiniteSet(C) /\ T \in SUBSET SUBSET C
  BY <1>1, FS_Subset
<1>3. PICK s \in T : \A r \in T : r \subseteq s => r = s
  BY <1>2, SmallestSet
<1>4. s \in SUBSET C /\ s \in SUBSET S /\ s \in SUBSET R /\ ~ (u[s] <= t[s])
  BY <1>1
<1>5. t[{}] = 0 /\ u[{}] = 0
  BY TotalStep
<1>6. PICK k : k = Pick(s)
  OBVIOUS
<1>7. k \in s /\ u[s] = h[k] + u[s \ {k}] /\ t[s] = f[k] + t[s \ {k}]
  <2>1. s # {}
    BY <1>4, <1>5
  <2>2. k \in s /\ t[s] = f[k] + t[s \ {k}]
    BY <1>4, <1>6, <2>1, TotalStep
  <2>3. u[s] = h[k] + u[s \ {k}]
    BY <1>4, <1>6, <2>1, TotalStep
  <2> QED BY <2>2, <2>3
<1>8. u[s \ {k}] <= t[s \ {k}]
  BY <1>1, <1>3, <1>4, <1>7
<1>9. /\ s \ {k} \in SUBSET S /\ s \ {k} \in SUBSET R
      /\ h[k] \in Nat /\ f[k] \in Nat /\ h[k] <= f[k]
  BY <1>4, <1>7 DEF Numbers
<1>10. u[s \ {k}] \in Nat /\ t[s \ {k}] \in Nat
  BY <1>9, TotalNat
<1> QED BY <1>4, <1>7, <1>8, <1>9, <1>10

\* The sum over a part is no larger.
LEMMA TotalOfSubset ==
  ASSUME NEW f, NEW S, IsFiniteSet(S), Numbers(f, S), NEW t, IsTotal(t, f, S), NEW R \in SUBSET S
  PROVE  t[R] <= t[S]
<1>0. \A s \in SUBSET S : \A k \in s : t[s] = f[k] + t[s \ {k}]
  <2> SUFFICES ASSUME NEW s \in SUBSET S, NEW k \in s PROVE t[s] = f[k] + t[s \ {k}]
    OBVIOUS
  <2> QED BY TotalSplit
<1>1. PICK T : T = {s \in SUBSET S : R \subseteq s /\ ~ (t[R] <= t[s])}
  OBVIOUS
<1> SUFFICES ASSUME T # {} PROVE FALSE
  BY <1>1
<1>2. PICK s \in T : \A r \in T : r \subseteq s => r = s
  BY <1>1, SmallestSet
<1>3. s \in SUBSET S /\ R \subseteq s /\ ~ (t[R] <= t[s])
  BY <1>1
<1>4. t[R] \in Nat /\ t[s] \in Nat
  BY <1>3, TotalNat
<1>5. PICK k \in s : k \notin R
  <2>1. s # R
    BY <1>3, <1>4
  <2> QED BY <1>3, <2>1
<1>6. s \ {k} \in SUBSET S /\ t[R] <= t[s \ {k}]
  BY <1>1, <1>2, <1>3, <1>5
<1>7. t[s] = f[k] + t[s \ {k}]
  BY <1>0, <1>3, <1>5, Zenon
<1>8. f[k] \in Nat /\ t[s \ {k}] \in Nat
  BY <1>3, <1>5, <1>6, TotalNat DEF Numbers
<1> QED BY <1>3, <1>4, <1>6, <1>7, <1>8

----------------------------------------------------------------------------
(* What the other proofs use.                                              *)

\* The sum of f over S, the way the models' recursive functions add it up.
SumOver(f, S) == (CHOOSE t : IsTotal(t, f, S))[S]

\* Whatever function adds up f over the parts of S, an element at a time as the code's
\* loops do, gives that sum for S.
LEMMA TotalIsSum ==
  ASSUME NEW S, IsFiniteSet(S), NEW f, NEW t, IsTotal(t, f, S)
  PROVE  t[S] = SumOver(f, S)
<1>1. PICK u : IsTotal(u, f, S) /\ SumOver(f, S) = u[S]
  BY DEF SumOver
<1>2. PICK T : T = {s \in SUBSET S : t[s] # u[s]}
  OBVIOUS
<1> SUFFICES ASSUME T # {} PROVE FALSE
  BY <1>1, <1>2
<1>3. PICK s \in T : \A r \in T : r \subseteq s => r = s
  BY <1>2, SmallestSet
<1>4. s \in SUBSET S /\ t[s] # u[s]
  BY <1>2
<1>5. t[{}] = 0 /\ u[{}] = 0
  BY <1>1, TotalStep
<1>6. s # {}
  BY <1>4, <1>5
<1>7. Pick(s) \in s /\ t[s] = f[Pick(s)] + t[s \ {Pick(s)}]
  BY <1>4, <1>6, TotalStep
<1>8. u[s] = f[Pick(s)] + u[s \ {Pick(s)}]
  BY <1>1, <1>4, <1>6, TotalStep
<1>9. t[s \ {Pick(s)}] = u[s \ {Pick(s)}]
  BY <1>2, <1>3, <1>4, <1>7
<1> QED
  BY <1>4, <1>7, <1>8, <1>9

\* A sum over a finite set is added up by some such function.
LEMMA SumIsTotal ==
  ASSUME NEW S, IsFiniteSet(S), NEW f
  PROVE  \E t : IsTotal(t, f, S) /\ SumOver(f, S) = t[S]
BY TotalExists DEF SumOver

\* Nothing adds up to nothing.
LEMMA SumOfNone ==
  ASSUME NEW f
  PROVE  SumOver(f, {}) = 0
<1>1. PICK t : IsTotal(t, f, {}) /\ SumOver(f, {}) = t[{}]
  BY FS_EmptySet, SumIsTotal
<1> QED
  BY <1>1, TotalStep

\* A sum of natural numbers is one, and a part of the set whose elements count for no
\* more has no larger a sum.
LEMMA SumMonotone ==
  ASSUME NEW f, NEW S, IsFiniteSet(S), Numbers(f, S),
         NEW h, NEW R \in SUBSET S, Numbers(h, R), \A k \in R : h[k] <= f[k]
  PROVE  /\ SumOver(f, S) \in Nat /\ SumOver(h, R) \in Nat
         /\ SumOver(h, R) <= SumOver(f, S)
<1>0. IsFiniteSet(R) /\ R \in SUBSET (S \cap R)
  BY FS_Subset
<1>1. PICK t : IsTotal(t, f, S) /\ SumOver(f, S) = t[S]
  BY SumIsTotal
<1>2. PICK u : IsTotal(u, h, R) /\ SumOver(h, R) = u[R]
  BY <1>0, SumIsTotal
<1>3. t[S] \in Nat /\ t[R] \in Nat
  BY <1>1, TotalNat
<1>4. u[R] \in Nat
  BY <1>0, <1>2, TotalNat
<1>5. u[R] <= t[R]
  BY <1>0, <1>1, <1>2, TotalMonotone
<1>6. t[R] <= t[S]
  BY <1>1, TotalOfSubset
<1> QED
  BY <1>1, <1>2, <1>3, <1>4, <1>5, <1>6

\* An element added to the set adds what it counts for.
LEMMA SumAdd ==
  ASSUME NEW f, NEW S, IsFiniteSet(S), NEW k, k \notin S, Numbers(f, S \cup {k})
  PROVE  SumOver(f, S \cup {k}) = SumOver(f, S) + f[k]
<1>0. PICK W : W = S \cup {k}
  OBVIOUS
<1>1. IsFiniteSet(W) /\ Numbers(f, W) /\ Numbers(f, S) /\ k \in W /\ W \ {k} = S
  BY <1>0, FS_AddElement DEF Numbers
<1>2. PICK t : IsTotal(t, f, W) /\ SumOver(f, W) = t[W]
  BY <1>1, SumIsTotal
<1>3. PICK u : IsTotal(u, f, S) /\ SumOver(f, S) = u[S]
  BY SumIsTotal
<1>4. t[W] = f[k] + t[S]
  BY <1>1, <1>2, TotalSplit
<1>5. f[k] \in Nat /\ \A i \in S : f[i] <= f[i]
  BY <1>1 DEF Numbers
<1>6. S \in SUBSET (S \cap W) /\ S \in SUBSET (W \cap S) /\ S \in SUBSET W
  BY <1>0
<1>7. u[S] <= t[S]
  BY <1>1, <1>2, <1>3, <1>5, <1>6, TotalMonotone
<1>8. t[S] <= u[S]
  BY <1>1, <1>2, <1>3, <1>5, <1>6, TotalMonotone
<1>9. t[S] \in Nat
  BY <1>1, <1>2, <1>6, TotalNat
<1>10. u[S] \in Nat
  BY <1>1, <1>3, TotalNat
<1>11. t[S] = u[S]
  BY <1>7, <1>8, <1>9, <1>10
<1> QED
  BY <1>0, <1>2, <1>3, <1>4, <1>5, <1>9, <1>11
=============================================================================
