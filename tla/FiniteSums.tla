------------------------------ MODULE FiniteSums ------------------------------
(***************************************************************************)
(* What SumFunctionOnSet and SumFunction of the community module Functions *)
(* compute on a finite set: the facts the proofs about balances cite.  The *)
(* sum is defined by a recursive function that takes an element CHOOSE     *)
(* picks; SumTakesOut shows that any element will do, and the rest follows *)
(* from it by induction on the set.                                        *)
(***************************************************************************)
EXTENDS Integers, FiniteSets, Functions, FiniteSetTheorems, WellFoundedInduction, TLAPS

\* Induction on a finite set, for the family T of the sets that are fine.
LEMMA NatSetInduction ==
    ASSUME NEW T \in SUBSET Nat, 0 \in T, \A n \in T : n + 1 \in T
    PROVE  T = Nat
<1> SUFFICES ASSUME Nat \ T # {} PROVE FALSE
  OBVIOUS
<1>1. PICK d \in Nat \ T : \A y \in Nat \ T : ~(<<y, d>> \in OpToRel(<, Nat))
  BY NatLessThanWellFounded, WFMin
<1>2. d # 0 /\ d - 1 \in Nat
  OBVIOUS
<1>3. <<d - 1, d>> \in OpToRel(<, Nat)
  BY <1>2 DEF OpToRel
<1>4. d - 1 \in T
  BY <1>1, <1>2, <1>3
<1> QED BY <1>4

LEMMA FiniteSetInduction ==
    ASSUME NEW S, IsFiniteSet(S), NEW T \in SUBSET (SUBSET S), {} \in T,
           \A s \in T : \A x \in S \ s : s \cup {x} \in T
    PROVE  S \in T
<1> DEFINE N == {n \in Nat : \A s \in SUBSET S : Cardinality(s) = n => s \in T}
<1>1. \A s \in SUBSET S : IsFiniteSet(s) /\ Cardinality(s) \in Nat
  BY FS_Subset, FS_CardinalityType
<1>2. 0 \in N
  BY <1>1, FS_EmptySet
<1>3. ASSUME NEW n \in N PROVE n + 1 \in N
  <2>1. ASSUME NEW s \in SUBSET S, Cardinality(s) = n + 1 PROVE s \in T
    <3>1. s # {}
      <4>1. n \in Nat /\ Cardinality({}) = 0
        BY FS_EmptySet
      <4> QED BY <2>1, <4>1
    <3>2. PICK x \in s : TRUE
      BY <3>1
    <3>3. Cardinality(s \ {x}) = n
      BY <1>1, <2>1, FS_RemoveElement
    <3>4. s \ {x} \in T
      BY <3>3
    <3>5. s = (s \ {x}) \cup {x} /\ x \in S \ (s \ {x})
      OBVIOUS
    <3> QED BY <3>4, <3>5
  <2> QED BY <2>1
<1> HIDE DEF N
<1>4. N = Nat
  BY <1>2, <1>3, NatSetInduction DEF N
<1> QED BY <1>1, <1>4 DEF N

------------------------------------------------------------------------------
\* The recursion behind the sum.
Pick(s) == CHOOSE x \in s : TRUE

SumsOf(g, f, S) ==
    g = [s \in SUBSET S |-> IF s = {} THEN 0 ELSE f[Pick(s)] + g[s \ {Pick(s)}]]

LEMMA SumIs ==
    ASSUME NEW f, NEW S
    PROVE  SumFunctionOnSet(f, S) = (CHOOSE g : SumsOf(g, f, S))[S]
BY DEF SumFunctionOnSet, FoldFunctionOnSet, MapThenFoldSet, SumsOf, Pick

LEMMA PickIsIn == ASSUME NEW s, s # {} PROVE Pick(s) \in s
BY DEF Pick

\* The recursion has a solution: one that is right up to a size can be made
\* right for the next size too.
LEMMA SumsExist ==
    ASSUME NEW f, NEW S, IsFiniteSet(S)
    PROVE  \E g : SumsOf(g, f, S)
<1> DEFINE Right(g, s) == g[s] = IF s = {} THEN 0 ELSE f[Pick(s)] + g[s \ {Pick(s)}]
           N == {n \in Nat : \E g : \A s \in SUBSET S : Cardinality(s) <= n => Right(g, s)}
<1>1. \A s \in SUBSET S : IsFiniteSet(s) /\ Cardinality(s) \in Nat
  BY FS_Subset, FS_CardinalityType
<1>2. \A s \in SUBSET S : s # {} =>
         /\ s \ {Pick(s)} \in SUBSET S
         /\ Cardinality(s \ {Pick(s)}) = Cardinality(s) - 1
  BY <1>1, PickIsIn, FS_RemoveElement
<1>3. 0 \in N
  <2> DEFINE g == [s \in SUBSET S |-> 0]
  <2>1. \A s \in SUBSET S : Cardinality(s) <= 0 => s = {}
    BY <1>1, FS_EmptySet
  <2>2. \A s \in SUBSET S : Cardinality(s) <= 0 => Right(g, s)
    BY <2>1
  <2> QED BY <2>2
<1>4. ASSUME NEW n \in N PROVE n + 1 \in N
  <2>1. PICK g : \A s \in SUBSET S : Cardinality(s) <= n => Right(g, s)
    OBVIOUS
  <2> DEFINE h == [s \in SUBSET S |-> IF s # {} /\ Cardinality(s) = n + 1
                                      THEN f[Pick(s)] + g[s \ {Pick(s)}] ELSE g[s]]
  <2>2. \A s \in SUBSET S : Cardinality(s) <= n => h[s] = g[s]
    BY <1>1
  <2>3. ASSUME NEW s \in SUBSET S, Cardinality(s) <= n + 1 PROVE Right(h, s)
    <3>1. CASE s = {}
      <4>1. Cardinality(s) <= n
        BY <3>1, FS_EmptySet
      <4> QED BY <2>1, <2>2, <3>1, <4>1
    <3>2. CASE s # {}
      <4>1. /\ s \ {Pick(s)} \in SUBSET S
            /\ Cardinality(s \ {Pick(s)}) <= n
        BY <1>1, <1>2, <2>3, <3>2
      <4>2. h[s \ {Pick(s)}] = g[s \ {Pick(s)}]
        BY <2>2, <4>1
      <4>3. h[s] = f[Pick(s)] + g[s \ {Pick(s)}]
        BY <1>1, <2>1, <2>3, <3>2
      <4> QED BY <3>2, <4>2, <4>3
    <3> QED BY <3>1, <3>2
  <2> HIDE DEF h, Right
  <2> QED BY <2>3
<1> HIDE DEF N, Right
<1>5. N = Nat
  BY <1>3, <1>4, NatSetInduction DEF N
<1>6. PICK g : \A s \in SUBSET S : Cardinality(s) <= Cardinality(S) => Right(g, s)
  BY <1>1, <1>5 DEF N
<1>7. \A s \in SUBSET S : Right(g, s)
  BY <1>1, <1>6, FS_Subset
<1> DEFINE h == [s \in SUBSET S |-> g[s]]
<1>8. \A s \in SUBSET S : h[s] = IF s = {} THEN 0 ELSE f[Pick(s)] + h[s \ {Pick(s)}]
  BY <1>7, PickIsIn DEF Right
<1> HIDE DEF h
<1>9. h = [s \in SUBSET S |-> h[s]]
  BY DEF h
<1>10. SumsOf(h, f, S)
  BY <1>8, <1>9 DEF SumsOf
<1> QED BY <1>10

\* Whatever Pick chooses, any element may be taken out first.
LEMMA SumsTakeOut ==
    ASSUME NEW f, NEW S, IsFiniteSet(S), \A x \in S : f[x] \in Int,
           NEW g, SumsOf(g, f, S)
    PROVE  \A s \in SUBSET S : g[s] \in Int /\ \A x \in s : g[s] = f[x] + g[s \ {x}]
<1> DEFINE Fine(s) == g[s] \in Int /\ \A x \in s : g[s] = f[x] + g[s \ {x}]
           N == {n \in Nat : \A s \in SUBSET S : Cardinality(s) <= n => Fine(s)}
<1>1. \A s \in SUBSET S : IsFiniteSet(s) /\ Cardinality(s) \in Nat
  BY FS_Subset, FS_CardinalityType
<1>2. \A s \in SUBSET S : g[s] = IF s = {} THEN 0 ELSE f[Pick(s)] + g[s \ {Pick(s)}]
  BY DEF SumsOf
<1>3. \A s \in SUBSET S, x \in S :
         x \in s => s \ {x} \in SUBSET S /\ Cardinality(s \ {x}) = Cardinality(s) - 1
  BY <1>1, FS_RemoveElement
<1>4. 0 \in N
  <2>1. \A s \in SUBSET S : Cardinality(s) <= 0 => s = {}
    BY <1>1, FS_EmptySet
  <2>2. g[{}] = 0
    BY <1>2
  <2>3. Fine({})
    BY <2>2
  <2> HIDE DEF Fine
  <2> QED BY <2>1, <2>3
<1>5. ASSUME NEW n \in N PROVE n + 1 \in N
  <2>1. ASSUME NEW s \in SUBSET S, Cardinality(s) = n + 1 PROVE Fine(s)
    <3> DEFINE y == Pick(s)
    <3>1. n \in Nat /\ \A t \in SUBSET S : Cardinality(t) <= n => Fine(t)
      OBVIOUS
    <3>2. s # {}
      <4>1. n \in Nat /\ Cardinality({}) = 0
        BY FS_EmptySet
      <4> QED BY <2>1, <4>1
    <3>3. y \in s /\ y \in S
      BY <3>2, PickIsIn
    <3> HIDE DEF y, Fine
    <3>4. Fine(s \ {y})
      BY <1>3, <2>1, <3>1, <3>3
    <3>5. g[s] = f[y] + g[s \ {y}]
      BY <1>2, <3>2 DEF y
    <3>6. g[s] \in Int
      BY <3>3, <3>4, <3>5 DEF Fine
    <3>7. ASSUME NEW x \in s, x # y PROVE g[s] = f[x] + g[s \ {x}]
      <4>1. Fine(s \ {x})
        BY <1>3, <2>1, <3>1
      <4> DEFINE a == s \ {y}
                 b == s \ {x}
      <4>2. g[a] = f[x] + g[a \ {x}]
        <5>1. x \in a
          BY <3>7
        <5> QED BY <3>4, <5>1 DEF Fine
      <4>3. g[b] = f[y] + g[b \ {y}]
        <5>1. y \in b
          BY <3>3, <3>7
        <5> QED BY <4>1, <5>1 DEF Fine
      <4>4. a \ {x} = b \ {y}
        OBVIOUS
      <4>5. f[x] \in Int /\ f[y] \in Int /\ g[a] \in Int /\ g[b] \in Int
        BY <3>3, <3>4, <4>1 DEF Fine
      <4>6. g[a \ {x}] \in Int
        <5>1. a \in SUBSET S /\ Cardinality(a) = n
          BY <1>3, <2>1, <3>1, <3>3
        <5>2. a \ {x} \in SUBSET S /\ Cardinality(a \ {x}) = n - 1
          BY <1>3, <3>1, <3>7, <5>1
        <5> QED BY <3>1, <5>2 DEF Fine
      <4> HIDE DEF a
      <4>7. g[s] = f[y] + (f[x] + g[a \ {x}]) /\ g[b] = f[y] + g[a \ {x}]
        BY <3>5, <4>2, <4>3, <4>4 DEF a
      <4> QED BY <4>5, <4>6, <4>7
    <3> QED BY <3>5, <3>6, <3>7 DEF Fine
  <2>2. \A s \in SUBSET S : Cardinality(s) <= n + 1 => Cardinality(s) <= n \/ Cardinality(s) = n + 1
    BY <1>1
  <2> HIDE DEF Fine
  <2> QED BY <2>1, <2>2
<1> HIDE DEF N, Fine
<1>6. N = Nat
  BY <1>4, <1>5, NatSetInduction DEF N
<1>7. \A s \in SUBSET S : Fine(s)
  BY <1>1, <1>6 DEF N
<1> QED BY <1>7 DEF Fine

\* The recursions of a set and of its subsets agree.
LEMMA SumsAgree ==
    ASSUME NEW f, NEW S, IsFiniteSet(S), \A x \in S : f[x] \in Int,
           NEW t \in SUBSET S, NEW g, SumsOf(g, f, S), NEW h, SumsOf(h, f, t)
    PROVE  g[t] = h[t]
<1> DEFINE T == {u \in SUBSET t : g[u] = h[u]}
<1>1. IsFiniteSet(t)
  BY FS_Subset
<1>2. {} \in T
  BY DEF SumsOf
<1>3. ASSUME NEW u \in T, NEW x \in t \ u PROVE u \cup {x} \in T
  <2>1. /\ u \cup {x} \in SUBSET t /\ u \cup {x} \in SUBSET S
        /\ (u \cup {x}) \ {x} = u
    OBVIOUS
  <2>2. g[u \cup {x}] = f[x] + g[u]
    <3>1. g[u \cup {x}] = f[x] + g[(u \cup {x}) \ {x}]
      BY <2>1, SumsTakeOut
    <3> QED BY <2>1, <3>1
  <2>3. h[u \cup {x}] = f[x] + h[u]
    <3>1. h[u \cup {x}] = f[x] + h[(u \cup {x}) \ {x}]
      <4>1. \A y \in t : f[y] \in Int
        OBVIOUS
      <4> QED BY <1>1, <2>1, <4>1, SumsTakeOut
    <3> QED BY <2>1, <3>1
  <2> QED BY <2>1, <2>2, <2>3
<1> HIDE DEF T
<1>4. t \in T
  BY <1>1, <1>2, <1>3, FiniteSetInduction DEF T
<1> QED BY <1>4 DEF T

------------------------------------------------------------------------------
\* The sum of the empty set, its type, and any element taken out of it.
LEMMA SumOfNothing ==
    ASSUME NEW f PROVE SumFunctionOnSet(f, {}) = 0
<1>1. IsFiniteSet({})
  BY FS_EmptySet
<1>2. \E g : SumsOf(g, f, {})
  BY <1>1, SumsExist
<1> DEFINE h == CHOOSE g : SumsOf(g, f, {})
<1>3. SumsOf(h, f, {})
  BY <1>2
<1> HIDE DEF h
<1>4. h[{}] = 0
  BY <1>3 DEF SumsOf
<1> QED BY <1>4, SumIs DEF h

LEMMA SumTakesOut ==
    ASSUME NEW f, NEW S, IsFiniteSet(S), \A x \in S : f[x] \in Int
    PROVE  /\ SumFunctionOnSet(f, S) \in Int
           /\ \A x \in S : SumFunctionOnSet(f, S) = f[x] + SumFunctionOnSet(f, S \ {x})
<1> DEFINE g == CHOOSE k : SumsOf(k, f, S)
<1>1. SumsOf(g, f, S)
  BY SumsExist
<1>2. SumFunctionOnSet(f, S) = g[S]
  BY SumIs
<1> HIDE DEF g
<1>3. g[S] \in Int /\ \A x \in S : g[S] = f[x] + g[S \ {x}]
  BY <1>1, SumsTakeOut
<1>4. ASSUME NEW x \in S PROVE SumFunctionOnSet(f, S \ {x}) = g[S \ {x}]
  <2> DEFINE t == S \ {x}
             h == CHOOSE k : SumsOf(k, f, t)
  <2>1. IsFiniteSet(t) /\ t \in SUBSET S
    BY FS_Subset
  <2> HIDE DEF t
  <2>2. SumsOf(h, f, t)
    BY <2>1, SumsExist
  <2>3. SumFunctionOnSet(f, t) = h[t]
    BY SumIs
  <2> HIDE DEF h
  <2>4. g[t] = h[t]
    BY <1>1, <2>1, <2>2, SumsAgree
  <2> QED BY <2>3, <2>4 DEF t
<1> QED BY <1>2, <1>3, <1>4

LEMMA SumPutsIn ==
    ASSUME NEW f, NEW S, IsFiniteSet(S), \A y \in S : f[y] \in Int,
           NEW s \in SUBSET S, NEW x \in S \ s
    PROVE  /\ SumFunctionOnSet(f, s) \in Int
           /\ SumFunctionOnSet(f, s \cup {x}) = f[x] + SumFunctionOnSet(f, s)
<1> DEFINE t == s \cup {x}
<1>1. IsFiniteSet(s) /\ IsFiniteSet(t) /\ t \ {x} = s /\ x \in t
  BY FS_Subset
<1>2. \A y \in t : f[y] \in Int
  OBVIOUS
<1> HIDE DEF t
<1>3. SumFunctionOnSet(f, t) = f[x] + SumFunctionOnSet(f, t \ {x})
  BY <1>1, <1>2, SumTakesOut
<1>4. SumFunctionOnSet(f, s) \in Int
  BY <1>1, SumTakesOut
<1> QED BY <1>1, <1>3, <1>4 DEF t

------------------------------------------------------------------------------
\* Functions that agree on a set have one sum there; the sum of zeros is 0.
LEMMA SumOfEquals ==
    ASSUME NEW S, IsFiniteSet(S), NEW f, NEW h, \A x \in S : f[x] \in Int /\ h[x] = f[x]
    PROVE  SumFunctionOnSet(h, S) = SumFunctionOnSet(f, S)
<1> DEFINE T == {s \in SUBSET S : SumFunctionOnSet(h, s) = SumFunctionOnSet(f, s)}
<1>1. {} \in T
  BY SumOfNothing
<1>2. ASSUME NEW s \in T, NEW x \in S \ s PROVE s \cup {x} \in T
  <2>1. SumFunctionOnSet(f, s \cup {x}) = f[x] + SumFunctionOnSet(f, s)
    BY SumPutsIn
  <2>2. SumFunctionOnSet(h, s \cup {x}) = h[x] + SumFunctionOnSet(h, s)
    BY SumPutsIn
  <2> QED BY <2>1, <2>2
<1> HIDE DEF T
<1>3. S \in T
  BY <1>1, <1>2, FiniteSetInduction DEF T
<1> QED BY <1>3 DEF T

LEMMA SumOfZeros ==
    ASSUME NEW S, IsFiniteSet(S), NEW f, \A x \in S : f[x] = 0
    PROVE  SumFunctionOnSet(f, S) = 0
<1> DEFINE T == {s \in SUBSET S : SumFunctionOnSet(f, s) = 0}
<1>1. {} \in T
  BY SumOfNothing
<1>2. ASSUME NEW s \in T, NEW x \in S \ s PROVE s \cup {x} \in T
  <2>1. SumFunctionOnSet(f, s \cup {x}) = f[x] + SumFunctionOnSet(f, s)
    BY SumPutsIn
  <2> QED BY <2>1
<1> HIDE DEF T
<1>3. S \in T
  BY <1>1, <1>2, FiniteSetInduction DEF T
<1> QED BY <1>3 DEF T

\* The sum is additive, in the function and in the set.
LEMMA SumOfSums ==
    ASSUME NEW S, IsFiniteSet(S), NEW f, NEW g, NEW h,
           \A x \in S : f[x] \in Int /\ g[x] \in Int /\ h[x] = f[x] + g[x]
    PROVE  SumFunctionOnSet(h, S) = SumFunctionOnSet(f, S) + SumFunctionOnSet(g, S)
<1> DEFINE T == {s \in SUBSET S :
                   SumFunctionOnSet(h, s) = SumFunctionOnSet(f, s) + SumFunctionOnSet(g, s)}
<1>1. {} \in T
  BY SumOfNothing
<1>2. ASSUME NEW s \in T, NEW x \in S \ s PROVE s \cup {x} \in T
  <2>1. SumFunctionOnSet(f, s) \in Int
        /\ SumFunctionOnSet(f, s \cup {x}) = f[x] + SumFunctionOnSet(f, s)
    BY SumPutsIn
  <2>2. SumFunctionOnSet(g, s) \in Int
        /\ SumFunctionOnSet(g, s \cup {x}) = g[x] + SumFunctionOnSet(g, s)
    BY SumPutsIn
  <2>3. SumFunctionOnSet(h, s \cup {x}) = h[x] + SumFunctionOnSet(h, s)
    <3>1. \A y \in S : h[y] \in Int
      OBVIOUS
    <3> QED BY <3>1, SumPutsIn
  <2> QED BY <2>1, <2>2, <2>3
<1> HIDE DEF T
<1>3. S \in T
  BY <1>1, <1>2, FiniteSetInduction DEF T
<1> QED BY <1>3 DEF T

LEMMA SumOfUnion ==
    ASSUME NEW S, IsFiniteSet(S), NEW f, \A x \in S : f[x] \in Int,
           NEW s \in SUBSET S, NEW t \in SUBSET S, s \cap t = {}
    PROVE  SumFunctionOnSet(f, s \cup t) = SumFunctionOnSet(f, s) + SumFunctionOnSet(f, t)
<1> DEFINE T == {u \in SUBSET s :
                   SumFunctionOnSet(f, u \cup t) = SumFunctionOnSet(f, u) + SumFunctionOnSet(f, t)}
<1>1. IsFiniteSet(s) /\ IsFiniteSet(t)
  BY FS_Subset
<1>2. SumFunctionOnSet(f, t) \in Int
  BY <1>1, SumTakesOut
<1>3. {} \in T
  <2>1. {} \cup t = t
    OBVIOUS
  <2> QED BY <1>2, <2>1, SumOfNothing
<1>4. ASSUME NEW u \in T, NEW x \in s \ u PROVE u \cup {x} \in T
  <2>1. /\ u \in SUBSET S /\ x \in S \ u
        /\ u \cup t \in SUBSET S /\ x \in S \ (u \cup t)
        /\ (u \cup {x}) \cup t = (u \cup t) \cup {x}
    OBVIOUS
  <2>2. SumFunctionOnSet(f, u) \in Int
        /\ SumFunctionOnSet(f, u \cup {x}) = f[x] + SumFunctionOnSet(f, u)
    BY <2>1, SumPutsIn
  <2>3. SumFunctionOnSet(f, (u \cup t) \cup {x}) = f[x] + SumFunctionOnSet(f, u \cup t)
    <3> DEFINE v == u \cup t
    <3>1. v \in SUBSET S /\ x \in S \ v
      BY <2>1
    <3> HIDE DEF v
    <3>2. SumFunctionOnSet(f, v \cup {x}) = f[x] + SumFunctionOnSet(f, v)
      BY <3>1, SumPutsIn
    <3> QED BY <3>2 DEF v
  <2>4. f[x] \in Int
    OBVIOUS
  <2>5. u \cup {x} \in SUBSET s
    OBVIOUS
  <2>6. SumFunctionOnSet(f, u \cup t) = SumFunctionOnSet(f, u) + SumFunctionOnSet(f, t)
    OBVIOUS
  <2>7. SumFunctionOnSet(f, (u \cup {x}) \cup t)
          = SumFunctionOnSet(f, u \cup {x}) + SumFunctionOnSet(f, t)
    <3>1. SumFunctionOnSet(f, (u \cup {x}) \cup t) = f[x] + SumFunctionOnSet(f, u \cup t)
      BY <2>1, <2>3
    <3> QED BY <1>2, <2>2, <2>4, <2>6, <3>1
  <2> QED BY <2>5, <2>7
<1>5. T \in SUBSET (SUBSET s)
  OBVIOUS
<1> HIDE DEF T
<1>6. s \in T
  BY <1>1, <1>3, <1>4, <1>5, FiniteSetInduction
<1> QED BY <1>6 DEF T

\* A function that moves at one element moves its sum by as much.
LEMMA SumMoves ==
    ASSUME NEW S, IsFiniteSet(S), NEW f, NEW h, NEW x \in S,
           \A y \in S : f[y] \in Int /\ h[y] \in Int,
           \A y \in S \ {x} : h[y] = f[y]
    PROVE  SumFunctionOnSet(h, S) = SumFunctionOnSet(f, S) + (h[x] - f[x])
<1>1. /\ SumFunctionOnSet(f, S) \in Int
      /\ SumFunctionOnSet(f, S) = f[x] + SumFunctionOnSet(f, S \ {x})
  BY SumTakesOut
<1>2. SumFunctionOnSet(h, S) = h[x] + SumFunctionOnSet(h, S \ {x})
  BY SumTakesOut
<1>3. IsFiniteSet(S \ {x})
  BY FS_Subset
<1>4. SumFunctionOnSet(h, S \ {x}) = SumFunctionOnSet(f, S \ {x})
  BY <1>3, SumOfEquals
<1>5. SumFunctionOnSet(f, S \ {x}) \in Int
  BY <1>3, SumTakesOut
<1> QED BY <1>1, <1>2, <1>4, <1>5

------------------------------------------------------------------------------
\* Bounds.
LEMMA SumWithin ==
    ASSUME NEW S, IsFiniteSet(S), NEW f, NEW g,
           \A x \in S : f[x] \in Int /\ g[x] \in Int /\ -g[x] <= f[x] /\ f[x] <= g[x]
    PROVE  /\ -SumFunctionOnSet(g, S) <= SumFunctionOnSet(f, S)
           /\ SumFunctionOnSet(f, S) <= SumFunctionOnSet(g, S)
<1> DEFINE T == {s \in SUBSET S : /\ -SumFunctionOnSet(g, s) <= SumFunctionOnSet(f, s)
                                 /\ SumFunctionOnSet(f, s) <= SumFunctionOnSet(g, s)}
<1>1. {} \in T
  BY SumOfNothing
<1>2. ASSUME NEW s \in T, NEW x \in S \ s PROVE s \cup {x} \in T
  <2>1. SumFunctionOnSet(f, s) \in Int
        /\ SumFunctionOnSet(f, s \cup {x}) = f[x] + SumFunctionOnSet(f, s)
    BY SumPutsIn
  <2>2. SumFunctionOnSet(g, s) \in Int
        /\ SumFunctionOnSet(g, s \cup {x}) = g[x] + SumFunctionOnSet(g, s)
    BY SumPutsIn
  <2> QED BY <2>1, <2>2
<1>3. T \in SUBSET (SUBSET S)
  OBVIOUS
<1> HIDE DEF T
<1>4. S \in T
  BY <1>1, <1>2, <1>3, FiniteSetInduction
<1> QED BY <1>4 DEF T

LEMMA SumOfPart ==
    ASSUME NEW S, IsFiniteSet(S), NEW f, \A x \in S : f[x] \in Nat, NEW s \in SUBSET S
    PROVE  SumFunctionOnSet(f, s) <= SumFunctionOnSet(f, S)
<1> DEFINE t == S \ s
<1>1. /\ t \in SUBSET S /\ s \cap t = {} /\ s \cup t = S
      /\ IsFiniteSet(s) /\ IsFiniteSet(t)
  BY FS_Subset
<1>2. /\ \A x \in S : f[x] \in Int
      /\ \A x \in t : f[x] \in Int /\ -f[x] <= f[x] /\ f[x] <= f[x]
  OBVIOUS
<1> HIDE DEF t
<1>3. SumFunctionOnSet(f, S) = SumFunctionOnSet(f, s) + SumFunctionOnSet(f, t)
  BY <1>1, <1>2, SumOfUnion
<1>4. SumFunctionOnSet(f, s) \in Int /\ SumFunctionOnSet(f, t) \in Int
  BY <1>1, <1>2, SumTakesOut
<1>5. -SumFunctionOnSet(f, t) <= SumFunctionOnSet(f, t)
  BY <1>1, <1>2, SumWithin
<1> QED BY <1>3, <1>4, <1>5

\* Summed class by class, a sum stays what it is: k says which class an
\* element of S belongs to, and by[m] is the sum of class m.
LEMMA SumByClass ==
    ASSUME NEW S, IsFiniteSet(S), NEW M, IsFiniteSet(M), NEW k \in [S -> M],
           NEW f, \A x \in S : f[x] \in Int
    PROVE  SumFunctionOnSet([m \in M |-> SumFunctionOnSet(f, {x \in S : k[x] = m})], M)
             = SumFunctionOnSet(f, S)
<1> DEFINE Class(s, m) == {x \in s : k[x] = m}
           By(s) == [m \in M |-> SumFunctionOnSet(f, Class(s, m))]
           T == {s \in SUBSET S : SumFunctionOnSet(By(s), M) = SumFunctionOnSet(f, s)}
<1>1. \A s \in SUBSET S : \A m \in M : /\ Class(s, m) \in SUBSET S
                                       /\ By(s)[m] = SumFunctionOnSet(f, Class(s, m))
  OBVIOUS
<1>2. \A s \in SUBSET S : SumFunctionOnSet(f, s) \in Int
  BY FS_Subset, SumTakesOut
<1>3. \A s \in SUBSET S : \A m \in M : By(s)[m] \in Int
  BY <1>1, <1>2
<1>4. {} \in T
  <2>1. \A m \in M : Class({}, m) = {}
    OBVIOUS
  <2>2. \A m \in M : By({})[m] = 0
    BY <1>1, <2>1, SumOfNothing
  <2> HIDE DEF By
  <2>3. SumFunctionOnSet(By({}), M) = 0
    BY <2>2, SumOfZeros
  <2> QED BY <2>3, SumOfNothing
<1>5. ASSUME NEW s \in T, NEW x \in S \ s PROVE s \cup {x} \in T
  <2> DEFINE u == s \cup {x}
             c == k[x]
  <2>1. s \in SUBSET S /\ u \in SUBSET S /\ c \in M
    OBVIOUS
  <2>2. \A m \in M \ {c} : Class(u, m) = Class(s, m)
    OBVIOUS
  <2>3. Class(u, c) = Class(s, c) \cup {x} /\ x \in S \ Class(s, c)
    OBVIOUS
  <2>4. SumFunctionOnSet(By(s), M) = SumFunctionOnSet(f, s)
    OBVIOUS
  <2>5. SumFunctionOnSet(f, u) = f[x] + SumFunctionOnSet(f, s)
    BY SumPutsIn
  <2> HIDE DEF u, Class
  <2>6. \A m \in M \ {c} : By(u)[m] = By(s)[m]
    BY <1>1, <2>1, <2>2
  <2>7. By(u)[c] = f[x] + By(s)[c]
    <3>1. SumFunctionOnSet(f, Class(s, c) \cup {x}) = f[x] + SumFunctionOnSet(f, Class(s, c))
      BY <1>1, <2>1, <2>3, SumPutsIn
    <3> QED BY <1>1, <2>1, <2>3, <3>1
  <2>8. \A m \in M : By(s)[m] \in Int /\ By(u)[m] \in Int
    BY <1>3, <2>1
  <2>9. f[x] \in Int
    OBVIOUS
  <2> HIDE DEF By, c
  <2>10. SumFunctionOnSet(By(u), M) = SumFunctionOnSet(By(s), M) + (By(u)[c] - By(s)[c])
    <3> DEFINE old == By(s)
               new == By(u)
    <3>1. \A m \in M : old[m] \in Int /\ new[m] \in Int
      BY <2>8
    <3>2. \A m \in M \ {c} : new[m] = old[m]
      BY <2>6
    <3>3. c \in M
      BY <2>1
    <3> HIDE DEF old, new
    <3>4. SumFunctionOnSet(new, M) = SumFunctionOnSet(old, M) + (new[c] - old[c])
      BY <3>1, <3>2, <3>3, SumMoves
    <3> QED BY <3>4 DEF old, new
  <2>11. By(u)[c] - By(s)[c] = f[x]
    <3>1. By(s)[c] \in Int
      BY <2>1, <2>8
    <3> QED BY <2>7, <2>9, <3>1
  <2>12. SumFunctionOnSet(By(u), M) = SumFunctionOnSet(f, u)
    BY <1>2, <2>1, <2>4, <2>5, <2>9, <2>10, <2>11
  <2> QED BY <2>1, <2>12 DEF u
<1>6. T \in SUBSET (SUBSET S)
  OBVIOUS
<1> HIDE DEF T
<1>7. S \in T
  BY <1>4, <1>5, <1>6, FiniteSetInduction
<1> QED BY <1>7 DEF T, By, Class
==============================================================================
