----------------------------- MODULE FoldProofs -----------------------------
(***************************************************************************)
(* What the proofs of several modules need about recursion: induction over *)
(* numbers and over finite sets, recursive functions, and sums over finite *)
(* sets.  A set that is closed under the step takes the place of the       *)
(* predicate that an induction theorem would have as a parameter.          *)
(***************************************************************************)
EXTENDS Integers, FiniteSets, Functions, FiniteSetTheorems, WellFoundedInduction,
        NaturalsInduction, TLAPS

-----------------------------------------------------------------------------
(* Numbers and recursive functions.                                        *)

\* Induction, for a set of numbers.
LEMMA Reaches ==
  ASSUME NEW S \in SUBSET Nat, 0 \in S, \A m \in S : m + 1 \in S
  PROVE  S = Nat
<1> DEFINE T == Nat \ S
<1>1. SUFFICES ASSUME T # {} PROVE FALSE
  OBVIOUS
<1>2. T \subseteq Nat
  OBVIOUS
<1>3. PICK x \in T : \A y \in T : ~ (<<y, x>> \in OpToRel(<, Nat))
  <2> HIDE DEF T
  <2> QED BY <1>1, <1>2, NatLessThanWellFounded, WFMin, Zenon
<1>4. x \in Nat /\ x \notin S
  OBVIOUS
<1>5. x # 0
  BY <1>4
<1>6. x - 1 \in Nat /\ x - 1 + 1 = x /\ x - 1 < x
  BY <1>4, <1>5
<1>7. x - 1 \in S
  <2>1. SUFFICES ASSUME x - 1 \in T PROVE FALSE
    BY <1>6
  <2>2. <<x - 1, x>> \in OpToRel(<, Nat)
    BY <1>4, <1>6 DEF OpToRel
  <2>3. QED
    BY <1>3, <2>1, <2>2, Zenon
<1>8. QED
  BY <1>4, <1>6, <1>7

\* A set of numbers has a least one.
LEMMA LeastNumber ==
  ASSUME NEW S \in SUBSET Nat, S # {}
  PROVE  \E m \in S : \A n \in S : m <= n
<1>1. PICK m \in S : \A n \in S : ~ (<<n, m>> \in OpToRel(<, Nat))
  BY NatLessThanWellFounded, WFMin, Zenon
<1>2. ASSUME NEW n \in S PROVE m <= n
  <2>1. m \in Nat /\ n \in Nat
    OBVIOUS
  <2>2. n < m => <<n, m>> \in OpToRel(<, Nat)
    BY <2>1 DEF OpToRel
  <2>3. ~ n < m
    BY <1>1, <2>2, Zenon
  <2>4. QED
    BY <2>1, <2>3
<1>3. QED
  BY <1>2

\* f is what m rounds make of start.
Built(V, start, round, m, f) ==
  /\ f \in [0..m -> V]
  /\ \A i \in 0..m : f[i] = IF i = 0 THEN start ELSE round[i][f[i - 1]]

\* A function that a recursion over rounds describes exists: the rounds are
\* any function of their number and of what there was before.
LEMMA Rounds ==
  ASSUME NEW V, NEW start \in V, NEW round \in [Nat -> [V -> V]], NEW m \in Nat
  PROVE  \E f : Built(V, start, round, m, f)
<1> DEFINE Is(f, k) == \A i \in 0..k : f[i] = IF i = 0 THEN start ELSE round[i][f[i - 1]]
           S == {k \in Nat : \E f \in [0..k -> V] : Is(f, k)}
<1>1. 0 \in S
  <2>1. Is([i \in 0..0 |-> start], 0)
    OBVIOUS
  <2>2. QED
    BY <2>1
<1>2. ASSUME NEW k \in S PROVE k + 1 \in S
  <2>1. k \in Nat
    OBVIOUS
  <2>2. PICK f \in [0..k -> V] : Is(f, k)
    OBVIOUS
  <2> DEFINE v == round[k + 1][f[k]]
             g == [i \in 0..k + 1 |-> IF i = k + 1 THEN v ELSE f[i]]
  <2>3. f[k] \in V /\ v \in V
    BY <2>1, <2>2
  <2>4. g \in [0..k + 1 -> V] /\ g[k + 1] = v /\ \A i \in 0..k : g[i] = f[i]
    <3> HIDE DEF v
    <3> QED BY <2>1, <2>2, <2>3
  <2>5. ASSUME NEW i \in 0..k + 1
        PROVE  g[i] = IF i = 0 THEN start ELSE round[i][g[i - 1]]
    <3> HIDE DEF g
    <3>1. CASE i = k + 1
      <4>1. i - 1 = k /\ i # 0 /\ g[k] = f[k]
        BY <2>1, <2>4, <3>1
      <4>2. QED
        BY <2>4, <3>1, <4>1
    <3>2. CASE i # k + 1
      <4>1. i \in 0..k /\ (i # 0 => i - 1 \in 0..k)
        BY <2>1, <3>2
      <4>2. QED
        BY <2>2, <2>4, <4>1
    <3>3. QED
      BY <3>1, <3>2
  <2>6. k + 1 \in Nat
    BY <2>1
  <2>7. QED
    <3> HIDE DEF g
    <3> QED BY <2>4, <2>5, <2>6
<1>3. S = Nat
  <2>1. S \in SUBSET Nat
    OBVIOUS
  <2> HIDE DEF S
  <2>2. QED
    BY <1>1, <1>2, <2>1, Reaches
<1>4. QED
  BY <1>3 DEF Built

\* Two functions that agree at 0 and go on alike are the same.
LEMMA SameRounds ==
  ASSUME NEW f, NEW g, NEW m \in Nat, f[0] = g[0],
         \A i \in 1..m : f[i - 1] = g[i - 1] => f[i] = g[i]
  PROVE  \A i \in 0..m : f[i] = g[i]
<1> DEFINE S == {k \in Nat : k <= m => f[k] = g[k]}
<1>1. 0 \in S
  OBVIOUS
<1>2. ASSUME NEW k \in S PROVE k + 1 \in S
  <2>1. SUFFICES ASSUME k + 1 <= m PROVE f[k + 1] = g[k + 1]
    OBVIOUS
  <2>2. k + 1 \in 1..m /\ k + 1 - 1 = k /\ f[k] = g[k]
    BY <2>1
  <2>3. QED
    BY <2>2
<1>3. S = Nat
  <2>1. S \in SUBSET Nat
    OBVIOUS
  <2> HIDE DEF S
  <2>2. QED
    BY <1>1, <1>2, <2>1, Reaches
<1>4. QED
  BY <1>3

-----------------------------------------------------------------------------
(* Finite sets.                                                            *)

\* Induction, for a set of subsets of a finite set.
LEMMA FiniteGrowth ==
  ASSUME NEW U, IsFiniteSet(U), NEW P \in SUBSET (SUBSET U), {} \in P,
         \A T \in P, x \in U : x \notin T => T \cup {x} \in P
  PROVE  U \in P
<1> DEFINE S == {n \in Nat : \A T \in SUBSET U : Cardinality(T) = n => T \in P}
<1>1. \A T \in SUBSET U : IsFiniteSet(T) /\ Cardinality(T) \in Nat
  BY FS_Subset, FS_CardinalityType
<1>2. 0 \in S
  BY <1>1, FS_EmptySet
<1>3. ASSUME NEW n \in S PROVE n + 1 \in S
  <2>1. n \in Nat /\ \A T \in SUBSET U : Cardinality(T) = n => T \in P
    OBVIOUS
  <2>2. ASSUME NEW T \in SUBSET U, Cardinality(T) = n + 1 PROVE T \in P
    <3>1. T # {}
      <4>1. n + 1 # 0
        BY <2>1
      <4> QED
        BY <2>2, <4>1, FS_EmptySet
    <3>2. PICK x \in T : TRUE
      BY <3>1
    <3>3. Cardinality(T \ {x}) = n
      BY <1>1, <2>1, <2>2, FS_RemoveElement
    <3>4. T \ {x} \in P /\ x \in U /\ (T \ {x}) \cup {x} = T
      BY <2>1, <3>3
    <3> QED
      BY <3>4
  <2> QED
    BY <2>1, <2>2
<1>4. S = Nat
  <2>1. S \in SUBSET Nat
    OBVIOUS
  <2> HIDE DEF S
  <2> QED
    BY <1>2, <1>3, <2>1, Reaches
<1> QED
  BY <1>1, <1>4

-----------------------------------------------------------------------------
(* Sums.                                                                   *)

\* One step of the recursion that SumFunctionOnSet is defined by.
SumNext(f, g, s) == IF s = {} THEN 0 ELSE f[CHOOSE x \in s : TRUE] + g[s \ {CHOOSE x \in s : TRUE}]

\* g is the sums over all subsets of S.
IsSum(f, g, S) == g = [s \in SUBSET S |-> SumNext(f, g, s)]

\* The recursion has a solution.
LEMMA SumExists ==
  ASSUME NEW S, IsFiniteSet(S), NEW f
  PROVE  \E g : IsSum(f, g, S)
<1> DEFINE Upto(n) == \E g : /\ g = [s \in SUBSET S |-> g[s]]
                             /\ \A s \in SUBSET S : Cardinality(s) <= n => g[s] = SumNext(f, g, s)
           N == {n \in Nat : Upto(n)}
<1>1. \A s \in SUBSET S : IsFiniteSet(s) /\ Cardinality(s) \in Nat
  BY FS_Subset, FS_CardinalityType
<1>2. ASSUME NEW s \in SUBSET S, s # {}
      PROVE  LET x == CHOOSE x \in s : TRUE IN x \in s /\ Cardinality(s \ {x}) = Cardinality(s) - 1
  BY <1>1, <1>2, FS_RemoveElement
<1>3. 0 \in N
  <2> DEFINE g == [s \in SUBSET S |-> 0]
  <2>1. ASSUME NEW s \in SUBSET S, Cardinality(s) <= 0 PROVE g[s] = SumNext(f, g, s)
    <3>1. s = {}
      BY <1>1, <2>1, FS_EmptySet
    <3> QED
      BY <3>1 DEF SumNext
  <2>2. g = [s \in SUBSET S |-> g[s]]
    OBVIOUS
  <2> QED
    BY <2>1, <2>2
<1>4. ASSUME NEW n \in N PROVE n + 1 \in N
  <2>1. n \in Nat /\ Upto(n)
    OBVIOUS
  <2>2. PICK g : /\ g = [s \in SUBSET S |-> g[s]]
                 /\ \A s \in SUBSET S : Cardinality(s) <= n => g[s] = SumNext(f, g, s)
    BY <2>1
  <2> DEFINE h == [s \in SUBSET S |-> IF Cardinality(s) = n + 1 THEN SumNext(f, g, s) ELSE g[s]]
  <2>3. \A s \in SUBSET S : Cardinality(s) <= n => h[s] = g[s]
    BY <1>1, <2>1
  <2>4. ASSUME NEW s \in SUBSET S, Cardinality(s) <= n + 1 PROVE SumNext(f, h, s) = SumNext(f, g, s)
    <3> DEFINE x == CHOOSE x \in s : TRUE
    <3>1. CASE s = {}
      BY <3>1 DEF SumNext
    <3>2. CASE s # {}
      <4>1. Cardinality(s \ {x}) <= n /\ s \ {x} \in SUBSET S
        BY <1>1, <1>2, <2>1, <2>4, <3>2
      <4>2. h[s \ {x}] = g[s \ {x}]
        BY <2>3, <4>1
      <4> HIDE DEF h
      <4> QED
        BY <3>2, <4>2 DEF SumNext
    <3> QED
      BY <3>1, <3>2
  <2>5. ASSUME NEW s \in SUBSET S, Cardinality(s) <= n + 1 PROVE h[s] = SumNext(f, h, s)
    <3>1. CASE Cardinality(s) = n + 1
      <4>1. h[s] = SumNext(f, g, s)
        BY <3>1
      <4> HIDE DEF h
      <4> QED
        BY <2>4, <2>5, <4>1
    <3>2. CASE Cardinality(s) <= n
      <4>1. h[s] = SumNext(f, g, s)
        BY <2>2, <2>3, <3>2
      <4> HIDE DEF h
      <4> QED
        BY <2>4, <2>5, <4>1
    <3> QED
      BY <1>1, <2>1, <2>5, <3>1, <3>2
  <2>6. h = [s \in SUBSET S |-> h[s]]
    OBVIOUS
  <2>7. Upto(n + 1)
    <3> HIDE DEF h
    <3> QED
      BY <2>5, <2>6
  <2>8. n + 1 \in Nat
    BY <2>1
  <2> HIDE DEF Upto
  <2> QED
    BY <2>7, <2>8
<1>5. N = Nat
  <2>1. N \in SUBSET Nat
    OBVIOUS
  <2> HIDE DEF N
  <2> QED
    BY <1>3, <1>4, <2>1, Reaches
<1>6. Cardinality(S) \in N
  BY <1>1, <1>5
<1>7. \A s \in SUBSET S : Cardinality(s) <= Cardinality(S)
  BY FS_Subset
<1>8. PICK g : /\ g = [s \in SUBSET S |-> g[s]]
               /\ \A s \in SUBSET S : Cardinality(s) <= Cardinality(S) => g[s] = SumNext(f, g, s)
  BY <1>6
<1>9. \A s \in SUBSET S : g[s] = SumNext(f, g, s)
  BY <1>7, <1>8
<1> QED
  BY <1>8, <1>9 DEF IsSum

\* Solutions agree where both are defined.
LEMMA SumUnique ==
  ASSUME NEW S, IsFiniteSet(S), NEW T \in SUBSET S, NEW f, NEW g, NEW h, IsSum(f, g, S), IsSum(f, h, T)
  PROVE  \A s \in SUBSET T : g[s] = h[s]
<1> DEFINE N == {n \in Nat : \A s \in SUBSET T : Cardinality(s) <= n => g[s] = h[s]}
<1>1. \A s \in SUBSET T : s \in SUBSET S /\ IsFiniteSet(s) /\ Cardinality(s) \in Nat
  BY FS_Subset, FS_CardinalityType
<1>2. /\ \A s \in SUBSET S : g[s] = SumNext(f, g, s)
      /\ \A s \in SUBSET T : h[s] = SumNext(f, h, s)
  BY DEF IsSum
<1>3. 0 \in N
  <2>1. ASSUME NEW s \in SUBSET T, Cardinality(s) <= 0 PROVE g[s] = h[s]
    <3>1. s = {}
      BY <1>1, <2>1, FS_EmptySet
    <3> QED
      BY <1>1, <1>2, <3>1 DEF SumNext
  <2> QED
    BY <2>1
<1>4. ASSUME NEW n \in N PROVE n + 1 \in N
  <2>1. n \in Nat /\ \A s \in SUBSET T : Cardinality(s) <= n => g[s] = h[s]
    OBVIOUS
  <2>2. ASSUME NEW s \in SUBSET T, Cardinality(s) <= n + 1 PROVE g[s] = h[s]
    <3> DEFINE x == CHOOSE x \in s : TRUE
    <3>1. CASE s = {}
      BY <1>1, <1>2, <3>1 DEF SumNext
    <3>2. CASE s # {}
      <4>1. x \in s
        BY <3>2
      <4>2. Cardinality(s \ {x}) = Cardinality(s) - 1
        BY <1>1, <4>1, FS_RemoveElement
      <4>3. s \ {x} \in SUBSET T /\ Cardinality(s \ {x}) <= n
        BY <1>1, <2>1, <2>2, <4>2
      <4>4. g[s \ {x}] = h[s \ {x}]
        BY <2>1, <4>3
      <4> QED
        BY <1>1, <1>2, <3>2, <4>4 DEF SumNext
    <3> QED
      BY <3>1, <3>2
  <2> QED
    BY <2>1, <2>2
<1>5. N = Nat
  <2>1. N \in SUBSET Nat
    OBVIOUS
  <2> HIDE DEF N
  <2> QED
    BY <1>3, <1>4, <2>1, Reaches
<1> QED
  BY <1>1, <1>5

\* SumFunctionOnSet follows its recursion.
LEMMA SumRecursion ==
  ASSUME NEW S, IsFiniteSet(S), NEW f
  PROVE  /\ S = {} => SumFunctionOnSet(f, S) = 0
         /\ S # {} => \E x \in S : SumFunctionOnSet(f, S) = f[x] + SumFunctionOnSet(f, S \ {x})
<1> DEFINE sum(T) == CHOOSE g : IsSum(f, g, T)
<1>1. \A T : SumFunctionOnSet(f, T) = sum(T)[T]
  BY DEF SumFunctionOnSet, FoldFunctionOnSet, MapThenFoldSet, IsSum, SumNext
<1>2. ASSUME NEW T \in SUBSET S PROVE IsSum(f, sum(T), T)
  <2>1. IsFiniteSet(T)
    BY FS_Subset
  <2>2. \E g : IsSum(f, g, T)
    BY <2>1, SumExists
  <2> QED
    BY <2>2
<1> HIDE DEF sum
<1>3. ASSUME NEW T \in SUBSET S PROVE sum(S)[T] = SumFunctionOnSet(f, T)
  <2>1. IsSum(f, sum(S), S) /\ IsSum(f, sum(T), T)
    BY <1>2
  <2>2. sum(S)[T] = sum(T)[T]
    BY <2>1, SumUnique
  <2> QED
    BY <1>1, <2>2
<1>4. sum(S)[S] = SumNext(f, sum(S), S)
  BY <1>2 DEF IsSum
<1>5. ASSUME S # {} PROVE \E x \in S : SumFunctionOnSet(f, S) = f[x] + SumFunctionOnSet(f, S \ {x})
  <2> DEFINE x == CHOOSE x \in S : TRUE
  <2>1. x \in S
    BY <1>5
  <2>2. sum(S)[S] = f[x] + sum(S)[S \ {x}]
    BY <1>4, <1>5 DEF SumNext
  <2>3. sum(S)[S \ {x}] = SumFunctionOnSet(f, S \ {x})
    BY <1>3
  <2> HIDE DEF x
  <2> QED
    BY <1>1, <2>1, <2>2, <2>3
<1>6. ASSUME S = {} PROVE SumFunctionOnSet(f, S) = 0
  BY <1>1, <1>4, <1>6 DEF SumNext
<1> QED
  BY <1>5, <1>6

\* f is a number for every member of S.
Numbers(f, S) == \A x \in S : f[x] \in Nat

\* A sum of numbers is a number.
LEMMA SumType ==
  ASSUME NEW S, IsFiniteSet(S), NEW f, Numbers(f, S)
  PROVE  SumFunctionOnSet(f, S) \in Nat
<1> DEFINE N == {n \in Nat : \A T \in SUBSET S : Cardinality(T) = n => SumFunctionOnSet(f, T) \in Nat}
<1>1. \A T \in SUBSET S : IsFiniteSet(T) /\ Cardinality(T) \in Nat
  BY FS_Subset, FS_CardinalityType
<1>2. 0 \in N
  <2>1. ASSUME NEW T \in SUBSET S, Cardinality(T) = 0 PROVE SumFunctionOnSet(f, T) \in Nat
    <3>1. T = {}
      BY <1>1, <2>1, FS_EmptySet
    <3>2. SumFunctionOnSet(f, T) = 0
      BY <1>1, <3>1, SumRecursion
    <3> QED
      BY <3>2
  <2> QED
    BY <2>1
<1>3. ASSUME NEW n \in N PROVE n + 1 \in N
  <2>1. n \in Nat /\ \A T \in SUBSET S : Cardinality(T) = n => SumFunctionOnSet(f, T) \in Nat
    OBVIOUS
  <2>2. ASSUME NEW T \in SUBSET S, Cardinality(T) = n + 1 PROVE SumFunctionOnSet(f, T) \in Nat
    <3>1. T # {}
      <4>1. n + 1 # 0
        BY <2>1
      <4> QED
        BY <2>2, <4>1, FS_EmptySet
    <3>2. PICK x \in T : SumFunctionOnSet(f, T) = f[x] + SumFunctionOnSet(f, T \ {x})
      BY <1>1, <3>1, SumRecursion
    <3>3. Cardinality(T \ {x}) = n /\ T \ {x} \in SUBSET S
      BY <1>1, <2>1, <2>2, FS_RemoveElement
    <3>4. SumFunctionOnSet(f, T \ {x}) \in Nat
      BY <2>1, <3>3
    <3>5. f[x] \in Nat
      BY DEF Numbers
    <3> QED
      BY <3>2, <3>4, <3>5
  <2> QED
    BY <2>1, <2>2
<1>4. N = Nat
  <2>1. N \in SUBSET Nat
    OBVIOUS
  <2> HIDE DEF N
  <2> QED
    BY <1>2, <1>3, <2>1, Reaches
<1> QED
  BY <1>1, <1>4

\* A sum may be taken from any of its members.
LEMMA SumRemove ==
  ASSUME NEW S, IsFiniteSet(S), NEW f, Numbers(f, S), NEW a \in S
  PROVE  SumFunctionOnSet(f, S) = f[a] + SumFunctionOnSet(f, S \ {a})
<1> DEFINE Sum(T) == SumFunctionOnSet(f, T)
           Any(T) == \A x \in T : Sum(T) = f[x] + Sum(T \ {x})
           N == {n \in Nat : \A T \in SUBSET S : Cardinality(T) = n => Any(T)}
<1>1. \A T \in SUBSET S : IsFiniteSet(T) /\ Cardinality(T) \in Nat /\ Sum(T) \in Nat
  <2>1. \A T \in SUBSET S : IsFiniteSet(T) /\ Cardinality(T) \in Nat /\ Numbers(f, T)
    BY FS_Subset, FS_CardinalityType DEF Numbers
  <2> QED
    BY <2>1, SumType
<1>2. \A T \in SUBSET S : T # {} => \E x \in T : Sum(T) = f[x] + Sum(T \ {x})
  BY <1>1, SumRecursion
<1>3. \A x \in S : f[x] \in Nat
  BY DEF Numbers
<1> HIDE DEF Sum
<1>4. 0 \in N
  BY <1>1, FS_EmptySet
<1>5. ASSUME NEW n \in N PROVE n + 1 \in N
  <2>1. n \in Nat /\ \A T \in SUBSET S : Cardinality(T) = n => Any(T)
    OBVIOUS
  <2>2. ASSUME NEW T \in SUBSET S, Cardinality(T) = n + 1, NEW x \in T
        PROVE  Sum(T) = f[x] + Sum(T \ {x})
    <3>1. PICK c \in T : Sum(T) = f[c] + Sum(T \ {c})
      BY <1>2
    <3>2. CASE c = x
      BY <3>1, <3>2
    <3>3. CASE c # x
      <4>1. \A y \in T : T \ {y} \in SUBSET S /\ Cardinality(T \ {y}) = n
        BY <1>1, <2>1, <2>2, FS_RemoveElement
      <4>2. Any(T \ {c}) /\ Any(T \ {x})
        BY <2>1, <4>1
      <4>3. x \in T \ {c} /\ c \in T \ {x} /\ (T \ {c}) \ {x} = (T \ {x}) \ {c}
        BY <3>3
      <4>4. Sum(T \ {c}) = f[x] + Sum((T \ {x}) \ {c})
        BY <4>2, <4>3
      <4>5. Sum(T \ {x}) = f[c] + Sum((T \ {x}) \ {c})
        BY <4>2, <4>3
      <4>6. Sum((T \ {x}) \ {c}) \in Nat /\ f[x] \in Nat /\ f[c] \in Nat
        BY <1>1, <1>3
      <4> QED
        BY <3>1, <4>4, <4>5, <4>6
    <3> QED
      BY <3>2, <3>3
  <2>3. n + 1 \in Nat /\ \A T \in SUBSET S : Cardinality(T) = n + 1 => Any(T)
    BY <2>1, <2>2
  <2> HIDE DEF Any
  <2> QED
    BY <2>3
<1>6. N = Nat
  <2>1. N \in SUBSET Nat
    OBVIOUS
  <2> HIDE DEF N
  <2> QED
    BY <1>4, <1>5, <2>1, Reaches
<1>7. Any(S)
  BY <1>1, <1>6
<1> QED
  BY <1>7 DEF Sum

\* One member more.
LEMMA SumAdd ==
  ASSUME NEW S, IsFiniteSet(S), NEW f, NEW a, a \notin S, Numbers(f, S \cup {a})
  PROVE  /\ SumFunctionOnSet(f, S \cup {a}) = f[a] + SumFunctionOnSet(f, S)
         /\ SumFunctionOnSet(f, S) \in Nat /\ f[a] \in Nat
<1>1. IsFiniteSet(S \cup {a}) /\ (S \cup {a}) \ {a} = S
  BY FS_AddElement
<1>2. SumFunctionOnSet(f, S \cup {a}) = f[a] + SumFunctionOnSet(f, S)
  BY <1>1, SumRemove
<1> QED
  BY <1>2, SumType DEF Numbers

\* Equal summands have equal sums.
LEMMA SumSame ==
  ASSUME NEW S, IsFiniteSet(S), NEW f, NEW g, Numbers(f, S), \A x \in S : f[x] = g[x]
  PROVE  SumFunctionOnSet(f, S) = SumFunctionOnSet(g, S)
<1> DEFINE P == {T \in SUBSET S : SumFunctionOnSet(f, T) = SumFunctionOnSet(g, T)}
<1>1. {} \in P
  BY FS_EmptySet, SumRecursion
<1>2. ASSUME NEW T \in P, NEW x \in S, x \notin T PROVE T \cup {x} \in P
  <2>1. T \in SUBSET S /\ SumFunctionOnSet(f, T) = SumFunctionOnSet(g, T) /\ IsFiniteSet(T)
    BY FS_Subset
  <2>2. Numbers(f, T \cup {x}) /\ Numbers(g, T \cup {x}) /\ f[x] = g[x]
    BY <2>1 DEF Numbers
  <2>3. /\ SumFunctionOnSet(f, T \cup {x}) = f[x] + SumFunctionOnSet(f, T)
        /\ SumFunctionOnSet(g, T \cup {x}) = g[x] + SumFunctionOnSet(g, T)
    BY <1>2, <2>1, <2>2, SumAdd
  <2> QED
    BY <2>1, <2>2, <2>3
<1>3. S \in P
  <2>1. P \in SUBSET (SUBSET S)
    OBVIOUS
  <2> HIDE DEF P
  <2> QED
    BY <1>1, <1>2, <2>1, FiniteGrowth
<1> QED
  BY <1>3

\* The sum over two sets without a common member.
LEMMA SumUnion ==
  ASSUME NEW S, NEW T, IsFiniteSet(S), IsFiniteSet(T), S \cap T = {}, NEW f, Numbers(f, S \cup T)
  PROVE  SumFunctionOnSet(f, S \cup T) = SumFunctionOnSet(f, S) + SumFunctionOnSet(f, T)
<1> DEFINE Sum(V) == SumFunctionOnSet(f, V)
           P == {V \in SUBSET T : Sum(S \cup V) = Sum(S) + Sum(V)}
<1>1. IsFiniteSet(S \cup T)
  BY FS_Union
<1>2. \A V \in SUBSET (S \cup T) : IsFiniteSet(V) /\ Sum(V) \in Nat
  <2>1. \A V \in SUBSET (S \cup T) : IsFiniteSet(V) /\ Numbers(f, V)
    BY <1>1, FS_Subset DEF Numbers
  <2> QED
    BY <2>1, SumType
<1>3. {} \in P
  <2>1. Sum({}) = 0 /\ S \cup {} = S /\ Sum(S) \in Nat
    BY <1>2, FS_EmptySet, SumRecursion
  <2> HIDE DEF Sum
  <2> QED
    BY <2>1
<1>4. ASSUME NEW V \in P, NEW x \in T, x \notin V PROVE V \cup {x} \in P
  <2>1. V \in SUBSET T /\ Sum(S \cup V) = Sum(S) + Sum(V)
    OBVIOUS
  <2>2. /\ V \in SUBSET (S \cup T) /\ S \cup V \in SUBSET (S \cup T)
        /\ x \notin S \cup V /\ Numbers(f, V \cup {x}) /\ Numbers(f, (S \cup V) \cup {x})
        /\ (S \cup V) \cup {x} = S \cup (V \cup {x})
    BY <1>4, <2>1 DEF Numbers
  <2>3. /\ Sum(V \cup {x}) = f[x] + Sum(V)
        /\ Sum(S \cup (V \cup {x})) = f[x] + Sum(S \cup V)
    BY <1>2, <1>4, <2>2, SumAdd
  <2>4. Sum(S) \in Nat /\ Sum(V) \in Nat /\ f[x] \in Nat
    BY <1>2, <2>1 DEF Numbers
  <2> HIDE DEF Sum
  <2> QED
    BY <2>1, <2>3, <2>4
<1>5. T \in P
  <2>1. P \in SUBSET (SUBSET T)
    OBVIOUS
  <2> HIDE DEF P
  <2> QED
    BY <1>3, <1>4, <2>1, FiniteGrowth
<1> QED
  BY <1>5

\* What is left out is not more than the whole.
LEMMA SumPart ==
  ASSUME NEW S, IsFiniteSet(S), NEW T \in SUBSET S, NEW f, Numbers(f, S)
  PROVE  /\ SumFunctionOnSet(f, S) = SumFunctionOnSet(f, T) + SumFunctionOnSet(f, S \ T)
         /\ SumFunctionOnSet(f, T) <= SumFunctionOnSet(f, S)
<1>1. IsFiniteSet(T) /\ IsFiniteSet(S \ T) /\ Numbers(f, T) /\ Numbers(f, S \ T)
  BY FS_Subset DEF Numbers
<1>2. T \cup (S \ T) = S /\ T \cap (S \ T) = {}
  OBVIOUS
<1>3. SumFunctionOnSet(f, S) = SumFunctionOnSet(f, T) + SumFunctionOnSet(f, S \ T)
  BY <1>1, <1>2, SumUnion
<1>4. SumFunctionOnSet(f, T) \in Nat /\ SumFunctionOnSet(f, S \ T) \in Nat
  BY <1>1, SumType
<1> QED
  BY <1>3, <1>4

\* A finite set has finitely many images.
LEMMA FiniteImage ==
  ASSUME NEW S, IsFiniteSet(S), NEW b
  PROVE  IsFiniteSet({b[x] : x \in S})
<1> DEFINE T == {b[x] : x \in S}
           g == [x \in S |-> b[x]]
<1>1. g \in Surjection(S, T)
  BY DEF Surjection
<1> HIDE DEF T, g
<1>2. IsFiniteSet(T)
  BY <1>1, FS_Surjection
<1> QED
  BY <1>2 DEF T

\* The sum over the values of a function that has no value twice.
LEMMA SumImage ==
  ASSUME NEW S, IsFiniteSet(S), NEW f, Numbers(f, S), NEW b, NEW g,
         \A x, y \in S : b[x] = b[y] => x = y,
         \A x \in S : g[b[x]] = f[x]
  PROVE  SumFunctionOnSet(g, {b[x] : x \in S}) = SumFunctionOnSet(f, S)
<1> DEFINE Image(T) == {b[x] : x \in T}
           P == {T \in SUBSET S : IsFiniteSet(Image(T)) /\ SumFunctionOnSet(g, Image(T)) = SumFunctionOnSet(f, T)}
<1>1. {} \in P
  <2>1. Image({}) = {}
    OBVIOUS
  <2> QED
    BY <2>1, FS_EmptySet, SumRecursion
<1>2. ASSUME NEW T \in P, NEW x \in S, x \notin T PROVE T \cup {x} \in P
  <2>1. /\ T \in SUBSET S /\ IsFiniteSet(Image(T)) /\ IsFiniteSet(T)
        /\ SumFunctionOnSet(g, Image(T)) = SumFunctionOnSet(f, T)
    BY FS_Subset
  <2>2. Image(T \cup {x}) = Image(T) \cup {b[x]} /\ b[x] \notin Image(T)
    BY <1>2, <2>1
  <2>3. Numbers(f, T \cup {x}) /\ Numbers(g, Image(T) \cup {b[x]})
    BY <2>1 DEF Numbers
  <2> HIDE DEF Image
  <2>4. SumFunctionOnSet(f, T \cup {x}) = f[x] + SumFunctionOnSet(f, T)
    BY <1>2, <2>1, <2>3, SumAdd
  <2>5. SumFunctionOnSet(g, Image(T) \cup {b[x]}) = g[b[x]] + SumFunctionOnSet(g, Image(T))
    BY <2>1, <2>2, <2>3, SumAdd
  <2>6. IsFiniteSet(Image(T) \cup {b[x]})
    BY <2>1, FS_AddElement
  <2> QED
    BY <2>1, <2>2, <2>4, <2>5, <2>6
<1>3. S \in P
  <2>1. P \in SUBSET (SUBSET S)
    OBVIOUS
  <2> HIDE DEF P
  <2> QED
    BY <1>1, <1>2, <2>1, FiniteGrowth
<1> QED
  BY <1>3

\* The sum over the sums of the parts that m divides a set into.
LEMMA SumParts ==
  ASSUME NEW S, IsFiniteSet(S), NEW f, Numbers(f, S), NEW D, IsFiniteSet(D), NEW m,
         \A x \in S : m[x] \in D,
         NEW h, \A d \in D : h[d] = SumFunctionOnSet(f, {x \in S : m[x] = d})
  PROVE  SumFunctionOnSet(h, D) = SumFunctionOnSet(f, S)
<1> DEFINE In(E) == {x \in S : m[x] \in E}
           P == {E \in SUBSET D : SumFunctionOnSet(h, E) = SumFunctionOnSet(f, In(E))}
<1>1. \A T \in SUBSET S : IsFiniteSet(T) /\ Numbers(f, T)
  BY FS_Subset DEF Numbers
<1>2. \A d \in D : h[d] \in Nat
  <2>1. ASSUME NEW d \in D PROVE h[d] \in Nat
    <3>1. {x \in S : m[x] = d} \in SUBSET S
      OBVIOUS
    <3> QED
      BY <1>1, <3>1, SumType
  <2> QED
    BY <2>1
<1>3. {} \in P
  <2>1. In({}) = {}
    OBVIOUS
  <2> QED
    BY <2>1, FS_EmptySet, SumRecursion
<1>4. ASSUME NEW E \in P, NEW d \in D, d \notin E PROVE E \cup {d} \in P
  <2> DEFINE V == {x \in S : m[x] = d}
  <2>1. /\ E \in SUBSET D /\ IsFiniteSet(E) /\ SumFunctionOnSet(h, E) = SumFunctionOnSet(f, In(E))
        /\ Numbers(h, E \cup {d})
    BY <1>2, FS_Subset DEF Numbers
  <2>2. In(E \cup {d}) = In(E) \cup V /\ In(E) \cap V = {} /\ In(E) \cup V \in SUBSET S
    BY <1>4
  <2>3. SumFunctionOnSet(h, E \cup {d}) = h[d] + SumFunctionOnSet(h, E)
    BY <1>4, <2>1, SumAdd
  <2>4. h[d] = SumFunctionOnSet(f, V)
    OBVIOUS
  <2> HIDE DEF V, In
  <2>5. In(E) \in SUBSET S /\ V \in SUBSET S
    BY <2>2
  <2>6. SumFunctionOnSet(f, In(E) \cup V) = SumFunctionOnSet(f, In(E)) + SumFunctionOnSet(f, V)
    BY <1>1, <2>2, <2>5, SumUnion
  <2>7. SumFunctionOnSet(f, In(E)) \in Nat /\ SumFunctionOnSet(f, V) \in Nat
    BY <1>1, <2>5, SumType
  <2> QED
    BY <2>1, <2>2, <2>3, <2>4, <2>6, <2>7, SMTT(30)
<1>5. D \in P
  <2>1. P \in SUBSET (SUBSET D)
    OBVIOUS
  <2> HIDE DEF P
  <2> QED
    BY <1>3, <1>4, <2>1, FiniteGrowth
<1>6. In(D) = S
  OBVIOUS
<1> QED
  BY <1>5, <1>6

=============================================================================
