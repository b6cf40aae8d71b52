----------------------------- MODULE Induction -----------------------------
(***************************************************************************)
(* Induction over the natural numbers as a fact about sets of numbers, and *)
(* what it shows of SumFunction, which the index's reference answer adds   *)
(* up counts with: the sum of finitely many numbers is a number, and that  *)
(* of one number is the number.                                            *)
(***************************************************************************)
EXTENDS Integers, FiniteSets, Functions, FiniteSetTheorems, WellFoundedInduction, TLAPS

LEMMA LeastNumber ==
  ASSUME NEW T \in SUBSET Nat, T # {}
  PROVE  \E n \in T : \A m \in T : n <= m
<1>1. PICK n \in T : \A m \in T : <<m, n>> \notin OpToRel(<, Nat)
  BY NatLessThanWellFounded, WFMin
<1>2. \A m \in T : ~(m < n)
  BY <1>1 DEF OpToRel
<1> QED
  BY <1>2

\* A set that holds 0 and with each number the next one holds all numbers.
LEMMA AllNumbers ==
  ASSUME NEW S, 0 \in S, \A n \in Nat : n \in S => n + 1 \in S
  PROVE  \A n \in Nat : n \in S
<1> SUFFICES ASSUME Nat \ S # {} PROVE FALSE
  OBVIOUS
<1>1. PICK n \in Nat \ S : \A m \in Nat \ S : n <= m
  <2>1. Nat \ S \in SUBSET Nat
    OBVIOUS
  <2> QED
    BY <2>1, LeastNumber
<1>2. n # 0 /\ n - 1 \in Nat /\ (n - 1) + 1 = n /\ ~(n <= n - 1)
  BY <1>1
<1>3. n - 1 \in S
  BY <1>1, <1>2
<1> QED
  BY <1>1, <1>2, <1>3

-----------------------------------------------------------------------------
Pick(s) == CHOOSE x \in s : TRUE

\* g adds up f over each subset of its domain, one element after the other.
AddsUp(g, f) ==
  g = [s \in SUBSET DOMAIN f |-> IF s = {} THEN 0 ELSE f[Pick(s)] + g[s \ {Pick(s)}]]

LEMMA SumIsChosen ==
  ASSUME NEW f
  PROVE  SumFunction(f) = (CHOOSE g : AddsUp(g, f))[DOMAIN f]
BY DEF SumFunction, SumFunctionOnSet, FoldFunctionOnSet, MapThenFoldSet, AddsUp, Pick

LEMMA PickRemoves ==
  ASSUME NEW s, IsFiniteSet(s), s # {}
  PROVE  /\ Pick(s) \in s /\ IsFiniteSet(s \ {Pick(s)})
         /\ Cardinality(s) \in Nat /\ Cardinality(s \ {Pick(s)}) = Cardinality(s) - 1
<1>1. Pick(s) \in s
  BY DEF Pick
<1> QED
  BY <1>1, FS_RemoveElement, FS_CardinalityType

\* There is such a g: the equation can be met for the subsets of up to n
\* elements, whatever n.
LEMMA SomethingAddsUp ==
  ASSUME NEW f, IsFiniteSet(DOMAIN f)
  PROVE  \E g : AddsUp(g, f)
<1> DEFINE D == SUBSET DOMAIN f
           Value(g, s) == IF s = {} THEN 0 ELSE f[Pick(s)] + g[s \ {Pick(s)}]
           UpTo(n) == \E g : /\ g = [s \in D |-> g[s]]
                             /\ \A s \in D : Cardinality(s) <= n => g[s] = Value(g, s)
           S == {n \in Nat : UpTo(n)}
<1>1. \A s \in D : IsFiniteSet(s) /\ Cardinality(s) \in Nat
  BY FS_Subset, FS_CardinalityType
<1>2. 0 \in S
  <2> DEFINE g == [s \in D |-> 0]
  <2>1. \A s \in D : Cardinality(s) <= 0 => s = {}
    BY <1>1, FS_EmptySet
  <2>2. g = [s \in D |-> g[s]]
    OBVIOUS
  <2>3. \A s \in D : Cardinality(s) <= 0 => g[s] = Value(g, s)
    BY <2>1
  <2> HIDE DEF g, Value
  <2>4. UpTo(0)
    BY <2>2, <2>3
  <2> QED
    BY <2>4
<1>3. ASSUME NEW n \in Nat, n \in S PROVE n + 1 \in S
  <2>1. PICK g : /\ g = [s \in D |-> g[s]]
                 /\ \A s \in D : Cardinality(s) <= n => g[s] = Value(g, s)
    BY <1>3
  <2> DEFINE h == [s \in D |-> Value(g, s)]
  <2>2. h = [s \in D |-> h[s]]
    OBVIOUS
  <2>3. ASSUME NEW s \in D, Cardinality(s) <= n + 1 PROVE h[s] = Value(h, s)
    <3>1. CASE s = {}
      BY <3>1
    <3>2. CASE s # {}
      <4>1. IsFiniteSet(s)
        BY <1>1
      <4>2. /\ Cardinality(s) \in Nat /\ Cardinality(s \ {Pick(s)}) = Cardinality(s) - 1
        BY <3>2, <4>1, PickRemoves
      <4>3. s \ {Pick(s)} \in D /\ Cardinality(s \ {Pick(s)}) <= n
        BY <2>3, <4>2
      <4>4. h[s \ {Pick(s)}] = g[s \ {Pick(s)}]
        BY <2>1, <4>3
      <4>5. h[s] = Value(g, s)
        OBVIOUS
      <4> QED
        BY <3>2, <4>4, <4>5
    <3> QED
      BY <3>1, <3>2
  <2> HIDE DEF h, Value
  <2>4. UpTo(n + 1)
    BY <2>2, <2>3
  <2>5. n + 1 \in Nat
    OBVIOUS
  <2> HIDE DEF UpTo
  <2> QED
    BY <2>4, <2>5
<1> HIDE DEF S
<1>4. Cardinality(DOMAIN f) \in S
  BY <1>2, <1>3, AllNumbers, FS_CardinalityType
<1>5. PICK g : /\ g = [s \in D |-> g[s]]
               /\ \A s \in D : Cardinality(s) <= Cardinality(DOMAIN f) => g[s] = Value(g, s)
  BY <1>4 DEF S
<1>6. \A s \in D : g[s] = Value(g, s)
  BY <1>1, <1>5, FS_Subset
<1>7. g = [s \in D |-> Value(g, s)]
  BY <1>5, <1>6
<1> QED
  BY <1>7 DEF AddsUp

LEMMA SumAddsUp ==
  ASSUME NEW f, IsFiniteSet(DOMAIN f)
  PROVE  \E g : AddsUp(g, f) /\ SumFunction(f) = g[DOMAIN f]
<1> DEFINE g == CHOOSE h : AddsUp(h, f)
<1>1. AddsUp(g, f)
  BY SomethingAddsUp
<1> QED
  BY <1>1, SumIsChosen

\* The sum of finitely many numbers is a number.
LEMMA SumType ==
  ASSUME NEW f, IsFiniteSet(DOMAIN f), \A x \in DOMAIN f : f[x] \in Nat
  PROVE  SumFunction(f) \in Nat
<1> DEFINE D == SUBSET DOMAIN f
<1>1. PICK g : AddsUp(g, f) /\ SumFunction(f) = g[DOMAIN f]
  BY SumAddsUp
<1>2. \A s \in D : g[s] = IF s = {} THEN 0 ELSE f[Pick(s)] + g[s \ {Pick(s)}]
  BY <1>1 DEF AddsUp
<1>3. \A s \in D : IsFiniteSet(s) /\ Cardinality(s) \in Nat
  BY FS_Subset, FS_CardinalityType
<1> DEFINE S == {n \in Nat : \A s \in D : Cardinality(s) <= n => g[s] \in Nat}
<1>4. 0 \in S
  <2>1. \A s \in D : Cardinality(s) <= 0 => s = {}
    BY <1>3, FS_EmptySet
  <2> QED
    BY <1>2, <2>1
<1>5. ASSUME NEW n \in Nat, n \in S PROVE n + 1 \in S
  <2>1. ASSUME NEW s \in D, Cardinality(s) <= n + 1 PROVE g[s] \in Nat
    <3>1. CASE s = {}
      <4>1. g[s] = 0
        BY <1>2, <3>1
      <4> QED
        BY <4>1
    <3>2. CASE s # {}
      <4>1. IsFiniteSet(s)
        BY <1>3
      <4>2. /\ Pick(s) \in s /\ Cardinality(s) \in Nat
            /\ Cardinality(s \ {Pick(s)}) = Cardinality(s) - 1
        BY <3>2, <4>1, PickRemoves
      <4>3. s \ {Pick(s)} \in D /\ Cardinality(s \ {Pick(s)}) <= n
        BY <2>1, <4>2
      <4>4. g[s \ {Pick(s)}] \in Nat /\ f[Pick(s)] \in Nat
        BY <1>5, <4>2, <4>3
      <4>5. g[s] = f[Pick(s)] + g[s \ {Pick(s)}]
        BY <1>2, <3>2
      <4> QED
        BY <4>4, <4>5
    <3> QED
      BY <3>1, <3>2
  <2> QED
    BY <2>1
<1> HIDE DEF S
<1>6. Cardinality(DOMAIN f) \in S
  BY <1>4, <1>5, AllNumbers, FS_CardinalityType
<1>7. DOMAIN f \in D /\ Cardinality(DOMAIN f) <= Cardinality(DOMAIN f)
  BY <1>3
<1> QED
  BY <1>1, <1>6, <1>7 DEF S

\* The sum of one number.
LEMMA SumOfOne ==
  ASSUME NEW f, NEW x, DOMAIN f = {x}, f[x] \in Nat
  PROVE  SumFunction(f) = f[x]
<1>1. PICK g : AddsUp(g, f) /\ SumFunction(f) = g[{x}]
  <2>1. IsFiniteSet(DOMAIN f)
    BY FS_Singleton
  <2> QED
    BY <2>1, SumAddsUp
<1>2. g[{x}] = f[Pick({x})] + g[{x} \ {Pick({x})}] /\ g[{}] = 0
  BY <1>1 DEF AddsUp
<1>3. Pick({x}) = x /\ {x} \ {x} = {}
  BY DEF Pick
<1>4. g[{x}] = f[x] + 0
  BY <1>2, <1>3
<1> QED
  BY <1>1, <1>4
=============================================================================
