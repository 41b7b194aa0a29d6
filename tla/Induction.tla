------------------------------ MODULE Induction ------------------------------
(***************************************************************************)
(* Induction on the natural numbers over a set, {n \in Nat : ...}, in      *)
(* place of an operator parameter, and what it gives for the walks of the  *)
(* models: a function defined by recursion on the number of steps exists,  *)
(* and what falls or climbs in a finite set comes to an end.               *)
(***************************************************************************)
EXTENDS Integers, WellFoundedInduction, FiniteSetTheorems, FunctionTheorems, TLAPS

LEMMA LessIsWellFounded ==
  IsWellFoundedOn({ss \in Nat \X Nat : ss[1] < ss[2]}, Nat)
  BY NatLessThanWellFounded DEF OpToRel

LEMMA Least ==
  ASSUME NEW S \in SUBSET Nat, S # {}
  PROVE  \E n \in S : \A m \in S : n <= m
<1>1. PICK n \in S : \A m \in S : << m, n >> \notin {ss \in Nat \X Nat : ss[1] < ss[2]}
  BY LessIsWellFounded, WFMin
<1>2. \A m \in S : ~ (m < n)
  <2> TAKE m \in S
  <2>1. << m, n >> \in Nat \X Nat /\ << m, n >> \notin {ss \in Nat \X Nat : ss[1] < ss[2]}
    BY <1>1
  <2> QED
    BY <2>1
<1> QED
  BY <1>1, <1>2

\* Induction, for the set T of the numbers that have the property.
LEMMA SetInduction ==
  ASSUME NEW T, 0 \in T, \A n \in Nat : n \in T => n + 1 \in T
  PROVE  Nat \subseteq T
<1>1. ASSUME NEW n \in Nat \ T, \A m \in Nat \ T : n <= m PROVE FALSE
  <2>1. n # 0 /\ n - 1 \in Nat \ T
    BY <1>1
  <2> QED
    BY <1>1, <2>1
<1>2. Nat \ T = {}
  BY <1>1, Least
<1> QED
  BY <1>2

\* at[k] is where a loop stands after k turns: it starts at v and next[k] is its
\* k-th turn.
IsWalk(at, V, v, next, n) ==
  /\ at \in [0 .. n -> V]
  /\ at[0] = v
  /\ \A k \in 1 .. n : at[k] = next[k][at[k - 1]]

LEMMA WalkExists ==
  ASSUME NEW V, NEW v \in V, NEW next \in [Nat -> [V -> V]], NEW n \in Nat
  PROVE  \E at : IsWalk(at, V, v, next, n)
<1> DEFINE T == {m \in Nat : \E at : IsWalk(at, V, v, next, m)}
<1>1. 0 \in T
  <2>1. IsWalk([k \in 0 .. 0 |-> v], V, v, next, 0)
    BY DEF IsWalk
  <2> QED
    BY <2>1
<1>2. ASSUME NEW m \in Nat, m \in T PROVE m + 1 \in T
  <2>1. PICK at : IsWalk(at, V, v, next, m)
    BY <1>2
  <2> DEFINE more == [k \in 0 .. m + 1 |-> IF k = m + 1 THEN next[k][at[m]] ELSE at[k]]
  <2>2. at[m] \in V /\ next[m + 1] \in [V -> V]
    BY <2>1 DEF IsWalk
  <2>3. more \in [0 .. m + 1 -> V]
    BY <2>1, <2>2 DEF IsWalk
  <2>4. \A k \in 1 .. m + 1 : more[k] = next[k][more[k - 1]]
    BY <2>1 DEF IsWalk
  <2>5. IsWalk(more, V, v, next, m + 1)
    BY <2>1, <2>3, <2>4 DEF IsWalk
  <2> HIDE DEF more
  <2> QED
    BY <2>5
<1> HIDE DEF T
<1>3. n \in T
  BY <1>1, <1>2, SetInduction
<1> QED
  BY <1>3 DEF T

-----------------------------------------------------------------------------
\* A finite set has no longer sequence of distinct members.
LEMMA Distinct ==
  ASSUME NEW S, IsFiniteSet(S), NEW n \in Nat, NEW at \in [1 .. n -> S],
         \A j, k \in 1 .. n : at[j] = at[k] => j = k
  PROVE  n <= Cardinality(S)
<1>1. at \in Injection(1 .. n, S)
  BY DEF Injection, IsInjective
<1>2. Cardinality(1 .. n) = n
  BY FS_Interval
<1> QED
  BY <1>1, <1>2, FS_Injection

\* Nor one along which r gets smaller.
LEMMA Descends ==
  ASSUME NEW S, IsFiniteSet(S), NEW n \in Nat, NEW at \in [1 .. n -> S],
         NEW r \in [S -> Int], \A k \in 1 .. n - 1 : r[at[k + 1]] < r[at[k]]
  PROVE  n <= Cardinality(S)
<1> DEFINE T == {d \in Nat : \A j \in 1 .. n : j + d \in 1 .. n => r[at[j + d]] <= r[at[j]] - d}
<1>1. 0 \in T
  OBVIOUS
<1>2. ASSUME NEW d \in Nat, d \in T PROVE d + 1 \in T
  <2> SUFFICES ASSUME NEW j \in 1 .. n, j + (d + 1) \in 1 .. n
               PROVE  r[at[j + (d + 1)]] <= r[at[j]] - (d + 1)
    OBVIOUS
  <2>1. j + d \in 1 .. n - 1 /\ j + d \in 1 .. n
    OBVIOUS
  <2>2. r[at[j + d + 1]] < r[at[j + d]] /\ r[at[j + d]] <= r[at[j]] - d
    BY <1>2, <2>1
  <2>3. r[at[j + d + 1]] \in Int /\ r[at[j + d]] \in Int /\ r[at[j]] \in Int
    BY <2>1
  <2>4. j + (d + 1) = j + d + 1
    OBVIOUS
  <2> QED
    BY <2>2, <2>3, <2>4
<1> HIDE DEF T
<1>3. Nat \subseteq T
  BY <1>1, <1>2, SetInduction
<1>4. ASSUME NEW j \in 1 .. n, NEW k \in 1 .. n, j < k PROVE at[j] # at[k]
  <2>1. k - j \in T /\ j + (k - j) = k /\ k - j > 0
    BY <1>3, <1>4
  <2>2. r[at[k]] <= r[at[j]] - (k - j)
    BY <2>1 DEF T
  <2>3. r[at[j]] \in Int /\ r[at[k]] \in Int
    OBVIOUS
  <2> QED
    BY <2>1, <2>2, <2>3
<1>5. \A j, k \in 1 .. n : at[j] = at[k] => j = k
  BY <1>4
<1> QED
  BY <1>5, Distinct

\* Nobody in a finite set always knows one with a greater r.
LEMMA NoClimb ==
  ASSUME NEW S, IsFiniteSet(S), NEW r \in [S -> Int],
         \A x \in S : \E y \in S : r[x] < r[y]
  PROVE  S = {}
<1> SUFFICES ASSUME NEW v \in S PROVE FALSE
  OBVIOUS
<1> DEFINE g == [x \in S |-> CHOOSE y \in S : r[x] < r[y]]
           n == Cardinality(S)
           next == [k \in Nat |-> g]
           m == [x \in S |-> - r[x]]
<1>1. g \in [S -> S] /\ \A x \in S : r[x] < r[g[x]]
  OBVIOUS
<1>2. n \in Nat
  BY FS_CardinalityType
<1> HIDE DEF g, n
<1>3. PICK at : IsWalk(at, S, v, next, n)
  BY <1>1, <1>2, WalkExists
<1> DEFINE to == [k \in 1 .. n + 1 |-> at[k - 1]]
<1>4. to \in [1 .. n + 1 -> S] /\ m \in [S -> Int]
  <2>1. at \in [0 .. n -> S] /\ \A k \in 1 .. n + 1 : k - 1 \in 0 .. n
    BY <1>2, <1>3 DEF IsWalk
  <2> QED
    BY <2>1
<1>5. \A k \in 1 .. n : m[to[k + 1]] < m[to[k]]
  <2> TAKE k \in 1 .. n
  <2>1. to[k + 1] = at[k] /\ to[k] = at[k - 1] /\ at[k - 1] \in S /\ at[k] = g[at[k - 1]]
    <3>1. k + 1 \in 1 .. n + 1 /\ k \in 1 .. n + 1 /\ (k + 1) - 1 = k /\ k - 1 \in 0 .. n
      BY <1>2
    <3>2. to[k + 1] = at[k] /\ to[k] = at[k - 1]
      <4>1. \A i \in 1 .. n + 1 : to[i] = at[i - 1]
        OBVIOUS
      <4> HIDE DEF to
      <4> QED
        BY <3>1, <4>1
    <3>3. at[k - 1] \in S /\ at[k] = g[at[k - 1]]
      <4>1. next[k] = g
        BY <1>2
      <4> HIDE DEF next
      <4>2. at \in [0 .. n -> S] /\ at[k] = next[k][at[k - 1]]
        BY <1>3 DEF IsWalk
      <4> QED
        BY <3>1, <4>1, <4>2
    <3> QED
      BY <3>2, <3>3
  <2>2. at[k] \in S /\ r[at[k - 1]] < r[at[k]]
    BY <1>1, <2>1
  <2>3. r[at[k]] \in Int /\ r[at[k - 1]] \in Int
    BY <2>1, <2>2
  <2> HIDE DEF to
  <2> QED
    BY <2>1, <2>2, <2>3
<1> HIDE DEF to, m
<1>6. n + 1 <= n
  <2>1. n + 1 \in Nat /\ n + 1 - 1 = n
    BY <1>2
  <2>2. \A k \in 1 .. (n + 1) - 1 : m[to[k + 1]] < m[to[k]]
    <3>1. \A k \in 1 .. (n + 1) - 1 : k \in 1 .. n
      BY <1>2
    <3> QED
      BY <1>5, <3>1
  <2> QED
    BY <1>4, <2>1, <2>2, Descends DEF n
<1> QED
  BY <1>2, <1>6
=============================================================================
