--------------------------- MODULE FiniteNumbers ---------------------------
(* Lemmas about finite sets of natural numbers: how many of them are among *)
(* the greatest (the eviction of AuditService), and that one of them is    *)
(* the greatest (the baseline of AuditLoop) or the least (the next spec of *)
(* ElementQuery). Without induction: the number of greater members tells   *)
(* the members of a set apart.                                             *)
EXTENDS Naturals, FiniteSets, FiniteSetTheorems, TLAPS

Above(S, j) == {k \in S : k > j}
Few(S, M) == {j \in S : Cardinality(Above(S, j)) < M}

\* A member has fewer members above it than any smaller one.
LEMMA AboveShrinks ==
  ASSUME NEW S, S \subseteq Nat, IsFiniteSet(S)
  PROVE  /\ \A j \in S : /\ IsFiniteSet(Above(S, j))
                         /\ Cardinality(Above(S, j)) \in Nat
                         /\ Cardinality(Above(S, j)) < Cardinality(S)
         /\ \A j, k \in S :
              j < k => Cardinality(Above(S, k)) < Cardinality(Above(S, j))
  <1>1. \A j \in S : /\ IsFiniteSet(Above(S, j))
                     /\ Cardinality(Above(S, j)) \in Nat
                     /\ Cardinality(Above(S, j)) < Cardinality(S)
    <2> TAKE j \in S
    <2>1. Above(S, j) \subseteq S /\ Above(S, j) # S
      <3>1. ~(j > j)
        OBVIOUS
      <3> QED
        BY <3>1 DEF Above
    <2> QED
      BY <2>1, FS_Subset, FS_CardinalityType
  <1>2. ASSUME NEW j \in S, NEW k \in S, j < k
        PROVE  Cardinality(Above(S, k)) < Cardinality(Above(S, j))
    <2>1. j \in Nat /\ k \in Nat /\ ~(k > k) /\ k > j
      BY <1>2
    <2>2. \A i \in S : i > k => i > j
      BY <2>1
    <2>3. /\ Above(S, k) \subseteq Above(S, j)
          /\ k \in Above(S, j) /\ k \notin Above(S, k)
      BY <2>1, <2>2 DEF Above
    <2>4. Above(S, k) # Above(S, j)
      BY <2>3
    <2> QED
      BY <1>1, <2>3, <2>4, FS_Subset
  <1> QED
    BY <1>1, <1>2

\* A set of numbers has at most M members with less than M above them.
LEMMA TopFew ==
  ASSUME NEW S, S \subseteq Nat, IsFiniteSet(S), NEW M \in Nat
  PROVE  IsFiniteSet(Few(S, M)) /\ Cardinality(Few(S, M)) <= M
  <1> DEFINE T == Few(S, M)
             f == [j \in T |-> Cardinality(Above(S, j))]
  <1>1. IsFiniteSet(T)
    BY FS_Subset DEF Few
  <1>2. IsFiniteSet(0 .. M - 1) /\ Cardinality(0 .. M - 1) = M
    BY FS_Interval
  <1>3. f \in [T -> 0 .. M - 1]
    <2>1. \A j \in T : /\ Cardinality(Above(S, j)) \in Nat
                       /\ Cardinality(Above(S, j)) < M
      BY AboveShrinks DEF Few
    <2> QED
      BY <2>1
  <1>4. \A j, k \in T : f[j] = f[k] => j = k
    <2>1. \A j, k \in T : j < k => f[j] # f[k]
      <3>1. \A j \in T : Cardinality(Above(S, j)) \in Nat
        BY AboveShrinks DEF Few
      <3>2. \A j, k \in T :
              j < k => Cardinality(Above(S, k)) < Cardinality(Above(S, j))
        BY AboveShrinks DEF Few
      <3> QED
        BY <3>1, <3>2
    <2>2. T \subseteq Nat
      BY DEF Few
    <2> QED
      BY <2>1, <2>2
  <1>5. f \in Injection(T, 0 .. M - 1)
    BY <1>3, <1>4 DEF Injection, IsInjective
  <1>6. Cardinality(T) <= Cardinality(0 .. M - 1)
    <2> HIDE DEF f, T
    <2> QED
      BY <1>1, <1>2, <1>5, FS_Injection
  <1> QED
    BY <1>1, <1>2, <1>6

\* A set of numbers that is finite and not empty has a greatest member.
LEMMA GreatestExists ==
  ASSUME NEW S, S \subseteq Nat, IsFiniteSet(S), S # {}
  PROVE  \E j \in S : \A k \in S : k <= j
  <1> SUFFICES ASSUME \A j \in S : \E k \in S : ~(k <= j) PROVE FALSE
    OBVIOUS
  <1> DEFINE n == Cardinality(S)
             f == [j \in S |-> Cardinality(Above(S, j))]
  <1>1. n \in Nat /\ n # 0
    BY FS_CardinalityType, FS_EmptySet
  <1>2. \A j \in S : Cardinality(Above(S, j)) \in 1 .. n - 1
    <2> TAKE j \in S
    <2>1. PICK k \in S : k > j
      OBVIOUS
    <2>2. Above(S, j) # {}
      BY <2>1 DEF Above
    <2>3. /\ IsFiniteSet(Above(S, j)) /\ Cardinality(Above(S, j)) \in Nat
          /\ Cardinality(Above(S, j)) < n
      BY AboveShrinks
    <2>4. Cardinality(Above(S, j)) # 0
      BY <2>2, <2>3, FS_EmptySet
    <2> HIDE DEF n
    <2> QED
      BY <1>1, <2>3, <2>4
  <1>3. \A j, k \in S : f[j] = f[k] => j = k
    <2>1. \A j, k \in S : j < k => f[j] # f[k]
      <3>1. \A j \in S : Cardinality(Above(S, j)) \in Nat
        BY AboveShrinks
      <3>2. \A j, k \in S :
              j < k => Cardinality(Above(S, k)) < Cardinality(Above(S, j))
        BY AboveShrinks
      <3> QED
        BY <3>1, <3>2
    <2> QED
      BY <2>1
  <1>4. f \in Injection(S, 1 .. n - 1)
    BY <1>2, <1>3 DEF Injection, IsInjective
  <1>5. IsFiniteSet(1 .. n - 1) /\ Cardinality(1 .. n - 1) = n - 1
    <2> HIDE DEF n
    <2> QED
      BY <1>1, FS_Interval
  <1>6. Cardinality(S) <= Cardinality(1 .. n - 1)
    <2> HIDE DEF f
    <2> QED
      BY <1>4, <1>5, FS_Injection
  <1> QED
    BY <1>1, <1>5, <1>6

\* Some of the numbers from 1 to n have a least member.
LEMMA LeastExists ==
  ASSUME NEW n \in Nat, NEW S \in SUBSET (1 .. n), S # {}
  PROVE  \E j \in S : \A k \in S : j <= k
  <1> DEFINE T == {n - k : k \in S}
  <1>1. T \in SUBSET (0 .. n)
    OBVIOUS
  <1>2. IsFiniteSet(T)
    <2> HIDE DEF T
    <2>1. IsFiniteSet(0 .. n)
      BY FS_Interval
    <2> QED
      BY <1>1, <2>1, FS_Subset
  <1>3. T \subseteq Nat /\ T # {}
    OBVIOUS
  <1>4. PICK t \in T : \A u \in T : u <= t
    <2> HIDE DEF T
    <2> QED
      BY <1>2, <1>3, GreatestExists
  <1>5. PICK j \in S : t = n - j
    BY <1>4
  <1>6. \A k \in S : n - k <= n - j
    BY <1>4, <1>5
  <1> QED
    BY <1>5, <1>6
=============================================================================
