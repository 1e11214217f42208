----------------------------- MODULE FiniteSums -----------------------------
(***************************************************************************)
(* Facts about SumFunction of the community modules, for functions on       *)
(* finite sets.  Induction over the subsets of a finite set is replaced by  *)
(* a smallest counterexample, which WFMin of WellFoundedInduction finds.    *)
(***************************************************************************)
EXTENDS Integers, Functions, FiniteSetTheorems, TLAPS

(* What SumFunction adds up first.                                          *)
Chosen(s) == CHOOSE x \in s : TRUE

(* g is the sum of f over subset s if it is that over what is left of s.    *)
Adds(f, g, s) == g[s] = IF s = {} THEN 0 ELSE f[Chosen(s)] + g[s \ {Chosen(s)}]

Partial(f, S) ==
    CHOOSE g : g = [s \in SUBSET S |-> IF s = {} THEN 0
                                       ELSE f[Chosen(s)] + g[s \ {Chosen(s)}]]

LEMMA SumIsPartial == ASSUME NEW f PROVE SumFunction(f) = Partial(f, DOMAIN f)[DOMAIN f]
BY DEF SumFunction, SumFunctionOnSet, FoldFunctionOnSet, MapThenFoldSet, Partial, Chosen

LEMMA Remainder ==
    ASSUME NEW S, IsFiniteSet(S), NEW s \in SUBSET S, s # {}
    PROVE  /\ Chosen(s) \in s /\ Chosen(s) \in S
           /\ s \ {Chosen(s)} \in SUBSET S /\ s \ {Chosen(s)} # s
           /\ s \ {Chosen(s)} \subseteq s
           /\ Cardinality(s) \in Nat /\ Cardinality(s \ {Chosen(s)}) = Cardinality(s) - 1
<1>1. Chosen(s) \in s
  BY DEF Chosen
<1>2. IsFiniteSet(s) /\ Cardinality(s) \in Nat
  BY FS_Subset, FS_CardinalityType
<1>3. Cardinality(s \ {Chosen(s)}) = Cardinality(s) - 1
  BY <1>1, <1>2, FS_RemoveElement
<1> QED
  BY <1>1, <1>2, <1>3

(* Of the subsets of a finite set that are wrong one has no wrong subset.   *)
LEMMA SmallestSubset ==
    ASSUME NEW S, IsFiniteSet(S), NEW T \in SUBSET SUBSET S, T # {}
    PROVE  \E s \in T : \A t \in T : t \subseteq s => t = s
<1>1. IsWellFoundedOn(StrictSubsetOrdering(S), SUBSET S)
  BY FS_StrictSubsetOrderingWellFounded, FS_FiniteSubsetsOfFinite
<1>2. PICK s \in T : \A t \in T : <<t, s>> \notin StrictSubsetOrdering(S)
  BY <1>1, WFMin
<1>3. ASSUME NEW t \in T, t \subseteq s, t # s
      PROVE  FALSE
  <2>1. <<t, s>> \in (SUBSET S) \X (SUBSET S)
    OBVIOUS
  <2>2. <<t, s>> \in StrictSubsetOrdering(S)
    BY <1>3, <2>1 DEF StrictSubsetOrdering
  <2> QED
    BY <1>2, <2>2
<1> QED
  BY <1>3

LEMMA SmallestNumber ==
    ASSUME NEW T \in SUBSET Nat, T # {}
    PROVE  \E n \in T : \A k \in T : n <= k
<1>1. PICK n \in T : \A k \in T : <<k, n>> \notin OpToRel(<, Nat)
  BY NatLessThanWellFounded, WFMin
<1>2. \A k \in T : ~(k < n)
  BY <1>1 DEF OpToRel
<1> QED
  BY <1>2

(* The sums of the subsets of up to n elements.                             *)
Level(f, S, n) ==
    \E g \in [SUBSET S -> Nat] : \A s \in SUBSET S : Cardinality(s) <= n => Adds(f, g, s)

LEMMA LevelUp ==
    ASSUME NEW S, IsFiniteSet(S), NEW f \in [S -> Nat], NEW n \in Nat, Level(f, S, n)
    PROVE  Level(f, S, n + 1)
<1>1. PICK g \in [SUBSET S -> Nat] : \A s \in SUBSET S : Cardinality(s) <= n => Adds(f, g, s)
  BY DEF Level
<1> DEFINE h == [s \in SUBSET S |-> IF s = {} THEN 0 ELSE f[Chosen(s)] + g[s \ {Chosen(s)}]]
<1>2. h \in [SUBSET S -> Nat]
  <2>1. ASSUME NEW s \in SUBSET S, s # {}
        PROVE  f[Chosen(s)] + g[s \ {Chosen(s)}] \in Nat
    <3>1. Chosen(s) \in S /\ s \ {Chosen(s)} \in SUBSET S
      BY <2>1, Remainder
    <3> QED
      BY <3>1
  <2> QED
    BY <2>1
<1>3. ASSUME NEW s \in SUBSET S, Cardinality(s) <= n + 1
      PROVE  Adds(f, h, s)
  <2>1. CASE s = {}
    BY <2>1 DEF Adds
  <2>2. CASE s # {}
    <3>1. /\ s \ {Chosen(s)} \in SUBSET S
          /\ Cardinality(s) \in Nat /\ Cardinality(s \ {Chosen(s)}) = Cardinality(s) - 1
      BY <2>2, Remainder
    <3>2. Adds(f, g, s \ {Chosen(s)})
      BY <1>1, <1>3, <3>1
    <3>3. h[s \ {Chosen(s)}] = g[s \ {Chosen(s)}]
      BY <3>1, <3>2 DEF Adds
    <3> QED
      BY <2>2, <3>3 DEF Adds
  <2> QED
    BY <2>1, <2>2
<1> QED
  BY <1>2, <1>3 DEF Level

LEMMA PartialAdds ==
    ASSUME NEW S, IsFiniteSet(S), NEW f \in [S -> Nat]
    PROVE  \A s \in SUBSET S : Adds(f, Partial(f, S), s)
<1>1. \A n \in Nat : Level(f, S, n)
  <2> DEFINE T == {n \in Nat : ~Level(f, S, n)}
  <2>1. SUFFICES ASSUME T # {} PROVE FALSE
    OBVIOUS
  <2>2. PICK n \in T : \A k \in T : n <= k
    BY <2>1, SmallestNumber
  <2>3. CASE n = 0
    <3>1. [s \in SUBSET S |-> 0] \in [SUBSET S -> Nat]
      OBVIOUS
    <3>2. ASSUME NEW s \in SUBSET S, Cardinality(s) <= 0
          PROVE  s = {}
      <4>1. IsFiniteSet(s) /\ Cardinality(s) \in Nat
        BY FS_Subset, FS_CardinalityType
      <4> QED
        BY <3>2, <4>1, FS_EmptySet
    <3>3. \A s \in SUBSET S : Cardinality(s) <= 0 => Adds(f, [t \in SUBSET S |-> 0], s)
      BY <3>2 DEF Adds
    <3>4. Level(f, S, 0)
      BY <3>1, <3>3 DEF Level
    <3> QED
      BY <2>3, <3>4
  <2>4. CASE n > 0
    <3>1. n - 1 \in Nat /\ ~(n <= n - 1) /\ (n - 1) + 1 = n
      BY <2>4
    <3>2. Level(f, S, n - 1)
      BY <2>2, <3>1
    <3>3. Level(f, S, (n - 1) + 1)
      BY <3>1, <3>2, LevelUp
    <3> QED
      BY <3>1, <3>3
  <2> QED
    BY <2>3, <2>4
<1>2. Cardinality(S) \in Nat
  BY FS_CardinalityType
<1>3. PICK g \in [SUBSET S -> Nat] :
         \A s \in SUBSET S : Cardinality(s) <= Cardinality(S) => Adds(f, g, s)
  BY <1>1, <1>2 DEF Level
<1>4. \A s \in SUBSET S : Adds(f, g, s)
  BY <1>3, FS_Subset
<1>5. g = [s \in SUBSET S |-> IF s = {} THEN 0 ELSE f[Chosen(s)] + g[s \ {Chosen(s)}]]
  BY <1>3, <1>4 DEF Adds
<1>6. Partial(f, S) = [s \in SUBSET S |-> IF s = {} THEN 0
                          ELSE f[Chosen(s)] + Partial(f, S)[s \ {Chosen(s)}]]
  BY <1>5 DEF Partial
<1> QED
  BY <1>6 DEF Adds

LEMMA PartialNat ==
    ASSUME NEW S, IsFiniteSet(S), NEW f \in [S -> Nat]
    PROVE  \A s \in SUBSET S : Partial(f, S)[s] \in Nat
<1> DEFINE p == Partial(f, S)
           T == {s \in SUBSET S : p[s] \notin Nat}
<1>1. SUFFICES ASSUME T # {} PROVE FALSE
  OBVIOUS
<1>2. \E s \in T : \A t \in T : t \subseteq s => t = s
  <2>1. T \in SUBSET SUBSET S
    OBVIOUS
  <2> HIDE DEF T
  <2> QED
    BY <1>1, <2>1, SmallestSubset
<1> PICK s \in T : \A t \in T : t \subseteq s => t = s
  BY <1>2
<1>3. Adds(f, p, s) /\ s \in SUBSET S /\ p[s] \notin Nat
  BY PartialAdds
<1> HIDE DEF p
<1>4. CASE s = {}
  BY <1>3, <1>4 DEF Adds
<1>5. CASE s # {}
  <2>1. /\ Chosen(s) \in S /\ s \ {Chosen(s)} \in SUBSET S /\ s \ {Chosen(s)} # s
        /\ s \ {Chosen(s)} \subseteq s
    <3> HIDE DEF T
    <3> QED
      BY <1>3, <1>5, Remainder
  <2>2. p[s \ {Chosen(s)}] \in Nat
    BY <2>1
  <2> QED
    BY <1>3, <1>5, <2>1, <2>2 DEF Adds
<1> QED
  BY <1>4, <1>5

(* A sum is a number.                                                       *)
LEMMA SumNat ==
    ASSUME NEW S, IsFiniteSet(S), NEW f \in [S -> Nat]
    PROVE  SumFunction(f) \in Nat
BY PartialNat, SumIsPartial

(* Where f exceeds g at one point at most, its sum does so by as much.      *)
LEMMA SumBound ==
    ASSUME NEW S, IsFiniteSet(S), NEW f \in [S -> Nat], NEW g \in [S -> Nat],
           NEW a, NEW v \in Nat,
           \A x \in S : f[x] <= IF x = a THEN g[x] + v ELSE g[x]
    PROVE  SumFunction(f) <= SumFunction(g) + v
<1> DEFINE p == Partial(f, S)
           q == Partial(g, S)
           T == {s \in SUBSET S : ~(p[s] <= q[s] + (IF a \in s THEN v ELSE 0))}
<1>0. \A s \in SUBSET S : /\ Adds(f, p, s) /\ Adds(g, q, s)
                          /\ p[s] \in Nat /\ q[s] \in Nat
  BY PartialAdds, PartialNat
<1>1. T = {}
  <2>1. SUFFICES ASSUME T # {} PROVE FALSE
    OBVIOUS
  <2>2. \E s \in T : \A t \in T : t \subseteq s => t = s
    <3>1. T \in SUBSET SUBSET S
      OBVIOUS
    <3> HIDE DEF T
    <3> QED
      BY <2>1, <3>1, SmallestSubset
  <2> PICK s \in T : \A t \in T : t \subseteq s => t = s
    BY <2>2
  <2> HIDE DEF p, q
  <2>3. CASE s = {}
    BY <1>0, <2>3 DEF Adds
  <2>4. CASE s # {}
    <3> DEFINE c == Chosen(s)
               r == s \ {Chosen(s)}
    <3>1. c \in s /\ c \in S /\ r \in SUBSET S /\ r # s /\ r \subseteq s
      BY <2>4, Remainder
    <3>2. p[r] <= q[r] + (IF a \in r THEN v ELSE 0)
      BY <3>1
    <3>3. p[s] = f[c] + p[r] /\ q[s] = g[c] + q[r]
      BY <1>0, <2>4 DEF Adds
    <3>4. /\ p[r] \in Nat /\ q[r] \in Nat /\ f[c] \in Nat /\ g[c] \in Nat
          /\ f[c] <= IF c = a THEN g[c] + v ELSE g[c]
          /\ ~(p[s] <= q[s] + (IF a \in s THEN v ELSE 0))
      BY <1>0, <3>1
    <3>5. a \in r <=> a \in s /\ a # c
      OBVIOUS
    <3> HIDE DEF c, r
    <3>6. CASE c = a
      BY <3>1, <3>2, <3>3, <3>4, <3>5, <3>6
    <3>7. CASE c # a
      BY <3>1, <3>2, <3>3, <3>4, <3>5, <3>7
    <3> QED
      BY <3>6, <3>7
  <2> QED
    BY <2>3, <2>4
<1>2. p[S] <= q[S] + (IF a \in S THEN v ELSE 0)
  BY <1>1
<1>3. SumFunction(f) = p[S] /\ SumFunction(g) = q[S]
  BY SumIsPartial
<1>4. p[S] \in Nat /\ q[S] \in Nat
  BY <1>0
<1> HIDE DEF p, q
<1> QED
  BY <1>2, <1>3, <1>4

(* A sum of zeros.                                                          *)
LEMMA SumZero ==
    ASSUME NEW S, IsFiniteSet(S), NEW f \in [S -> Nat], \A x \in S : f[x] = 0
    PROVE  SumFunction(f) = 0
<1> DEFINE p == Partial(f, S)
           T == {s \in SUBSET S : p[s] # 0}
<1>0. \A s \in SUBSET S : Adds(f, p, s)
  BY PartialAdds
<1>1. T = {}
  <2>1. SUFFICES ASSUME T # {} PROVE FALSE
    OBVIOUS
  <2>2. \E s \in T : \A t \in T : t \subseteq s => t = s
    <3>1. T \in SUBSET SUBSET S
      OBVIOUS
    <3> HIDE DEF T
    <3> QED
      BY <2>1, <3>1, SmallestSubset
  <2> PICK s \in T : \A t \in T : t \subseteq s => t = s
    BY <2>2
  <2>3. Adds(f, p, s) /\ s \in SUBSET S /\ p[s] # 0
    BY <1>0
  <2> HIDE DEF p
  <2>4. s # {}
    BY <2>3 DEF Adds
  <2>5. /\ Chosen(s) \in S /\ s \ {Chosen(s)} \in SUBSET S /\ s \ {Chosen(s)} # s
        /\ s \ {Chosen(s)} \subseteq s
    <3> HIDE DEF T
    <3> QED
      BY <2>3, <2>4, Remainder
  <2>6. p[s \ {Chosen(s)}] = 0
    BY <2>5
  <2> QED
    BY <2>3, <2>4, <2>5, <2>6 DEF Adds
<1> QED
  BY <1>1, SumIsPartial

(* A sum of less is not more.                                               *)
LEMMA SumMonotone ==
    ASSUME NEW S, IsFiniteSet(S), NEW f \in [S -> Nat], NEW g \in [S -> Nat],
           \A x \in S : f[x] <= g[x]
    PROVE  SumFunction(f) <= SumFunction(g)
<1>1. \A x \in S : f[x] <= IF x = S THEN g[x] + 0 ELSE g[x]
  OBVIOUS
<1>2. SumFunction(f) <= SumFunction(g) + 0
  BY <1>1, SumBound
<1> QED
  BY <1>2, SumNat
=============================================================================
