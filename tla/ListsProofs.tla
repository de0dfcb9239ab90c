----------------------------- MODULE ListsProofs -----------------------------
(***************************************************************************)
(* Facts about the lists that a loop with a test leaves, for lists of any  *)
(* length.  Everything rests on RankBijects: the ranks of the chosen       *)
(* positions are exactly 1..n, so Pick is a list of n elements, each of    *)
(* them chosen, none left out, and in the old order.                       *)
(***************************************************************************)
EXTENDS Lists, FiniteSetTheorems, FunctionTheorems, TLAPS

(***************************************************************************)
(* Positions of a list: a set of numbers between 1 and n.                  *)
(***************************************************************************)
LEMMA PositionsFinite ==
    ASSUME NEW n \in Nat, NEW S \in SUBSET (1..n)
    PROVE  /\ IsFiniteSet(S) /\ Cardinality(S) \in Nat /\ Cardinality(S) <= n
           /\ \A i : IsFiniteSet({j \in S : j <= i})
<1>1. IsFiniteSet(1..n) /\ Cardinality(1..n) = n
  BY FS_Interval
<1>2. IsFiniteSet(S) /\ Cardinality(S) <= n
  BY <1>1, FS_Subset
<1>3. Cardinality(S) \in Nat
  BY <1>2, FS_CardinalityType
<1>4. \A i : IsFiniteSet({j \in S : j <= i})
  BY <1>2, FS_Subset
<1> QED
  BY <1>2, <1>3, <1>4

LEMMA RankType ==
    ASSUME NEW n \in Nat, NEW S \in SUBSET (1..n), NEW i \in S
    PROVE  Rank(S, i) \in 1..Cardinality(S)
<1> DEFINE U == {j \in S : j <= i}
<1>1. IsFiniteSet(S) /\ IsFiniteSet(U) /\ Cardinality(S) \in Nat
  BY PositionsFinite
<1>2. i \in U
  OBVIOUS
<1>3. Cardinality(U) \in Nat /\ Cardinality(U) <= Cardinality(S)
  BY <1>1, FS_Subset, FS_CardinalityType
<1>4. Cardinality(U) # 0
  BY <1>1, <1>2, FS_EmptySet
<1> QED
  BY <1>1, <1>3, <1>4 DEF Rank

(***************************************************************************)
(* Ranks grow with positions, and by one from a position to the next.      *)
(***************************************************************************)
LEMMA RankGrows ==
    ASSUME NEW n \in Nat, NEW S \in SUBSET (1..n),
           NEW i \in S, NEW j \in S, i < j
    PROVE  Rank(S, i) < Rank(S, j)
<1> DEFINE U == {k \in S : k <= i}
           V == {k \in S : k <= j}
<1>1. IsFiniteSet(U) /\ IsFiniteSet(V)
  BY PositionsFinite
<1>2. i \in Nat /\ j \in Nat /\ \A k \in S : k \in Nat
  OBVIOUS
<1>3. U \subseteq V /\ j \in V /\ j \notin U
  <2>1. \A k \in S : k <= i => k <= j
    BY <1>2
  <2>2. j <= j /\ ~(j <= i)
    BY <1>2
  <2> QED
    BY <2>1, <2>2
<1>4. Cardinality(U) <= Cardinality(V) /\ Cardinality(U) # Cardinality(V)
  BY <1>1, <1>3, FS_Subset
<1>5. Cardinality(U) \in Nat /\ Cardinality(V) \in Nat
  BY <1>1, FS_CardinalityType
<1> QED
  BY <1>4, <1>5 DEF Rank

LEMMA RankInjective ==
    ASSUME NEW n \in Nat, NEW S \in SUBSET (1..n),
           NEW i \in S, NEW j \in S, Rank(S, i) = Rank(S, j)
    PROVE  i = j
<1>1. i \in Nat /\ j \in Nat
  OBVIOUS
<1>2. Rank(S, i) \in Nat
  <2>1. Rank(S, i) \in 1..Cardinality(S) /\ Cardinality(S) \in Nat
    BY RankType, PositionsFinite
  <2> QED
    BY <2>1
<1>3. ~(i < j)
  <2>1. i < j => Rank(S, i) < Rank(S, j)
    BY RankGrows
  <2> QED
    BY <1>2, <2>1
<1>4. ~(j < i)
  <2>1. j < i => Rank(S, j) < Rank(S, i)
    BY RankGrows
  <2> QED
    BY <1>2, <2>1
<1> QED
  BY <1>1, <1>3, <1>4

LEMMA RankNext ==
    ASSUME NEW n \in Nat, NEW S \in SUBSET (1..n), NEW i \in S, i + 1 \in S
    PROVE  Rank(S, i + 1) = Rank(S, i) + 1
<1> DEFINE U == {k \in S : k <= i}
<1>0. i \in Nat /\ \A k \in S : k \in Nat
  OBVIOUS
<1>1. {k \in S : k <= i + 1} = U \cup {i + 1} /\ i + 1 \notin U
  <2>1. \A k \in S : k <= i + 1 <=> k <= i \/ k = i + 1
    BY <1>0
  <2>2. ~(i + 1 <= i)
    BY <1>0
  <2> QED
    BY <2>1, <2>2
<1>2. IsFiniteSet(U)
  BY PositionsFinite
<1> QED
  BY <1>1, <1>2, FS_AddElement DEF Rank

LEMMA RankBijects ==
    ASSUME NEW n \in Nat, NEW S \in SUBSET (1..n)
    PROVE  \A k \in 1..Cardinality(S) : \E i \in S : Rank(S, i) = k
<1> DEFINE T == 1..Cardinality(S)
           r == [i \in S |-> Rank(S, i)]
<1>1. Cardinality(S) \in Nat
  BY PositionsFinite
<1>2. IsFiniteSet(T) /\ Cardinality(T) = Cardinality(S)
  BY <1>1, FS_Interval
<1>3. r \in Injection(S, T)
  <2>1. r \in [S -> T]
    BY RankType
  <2>2. ASSUME NEW i \in S, NEW j \in S, r[i] = r[j] PROVE i = j
    <3>1. Rank(S, i) = Rank(S, j)
      BY <2>2
    <3>2. i = j
      BY <3>1, RankInjective
    <3> QED
      BY <3>2
  <2> QED
    BY <2>1, <2>2 DEF Injection, IsInjective
<1>4. r \in Surjection(S, T)
  BY <1>2, <1>3, FS_Injection
<1> QED
  BY <1>4 DEF Surjection

-----------------------------------------------------------------------------
(***************************************************************************)
(* Pick.                                                                   *)
(***************************************************************************)
LEMMA PickElement ==
    ASSUME NEW list, NEW n \in Nat, NEW S \in SUBSET (1..n), NEW i \in S
    PROVE  Pick(list, S)[Rank(S, i)] = list[i]
<1> DEFINE k == Rank(S, i)
<1>1. k \in 1..Cardinality(S)
  BY RankType
<1>2. ASSUME NEW j \in S, Rank(S, j) = k PROVE j = i
  BY <1>2, RankInjective
<1>3. (CHOOSE j \in S : Rank(S, j) = k) = i
  BY <1>2
<1> QED
  BY <1>1, <1>3 DEF Pick

Taken(list, S, k) == \E i \in S : Rank(S, i) = k /\ Pick(list, S)[k] = list[i]

LEMMA PickOrigin ==
    ASSUME NEW list, NEW n \in Nat, NEW S \in SUBSET (1..n),
           NEW k \in 1..Cardinality(S)
    PROVE  Taken(list, S, k)
<1>1. \A l \in 1..Cardinality(S) : \E i \in S : Rank(S, i) = l
  BY RankBijects
<1>2. PICK i \in S : Rank(S, i) = k
  BY <1>1
<1>3. Pick(list, S)[Rank(S, i)] = list[i]
  BY PickElement
<1> QED
  BY <1>2, <1>3 DEF Taken

LEMMA PickSeq ==
    ASSUME NEW T, NEW list \in Seq(T), NEW S \in SUBSET (DOMAIN list)
    PROVE  /\ Pick(list, S) \in Seq(T)
           /\ Len(Pick(list, S)) = Cardinality(S)
           /\ Cardinality(S) \in Nat
           /\ DOMAIN Pick(list, S) = 1..Cardinality(S)
<1>1. DOMAIN list = 1..Len(list) /\ Len(list) \in Nat
  OBVIOUS
<1>2. Cardinality(S) \in Nat
  BY <1>1, PositionsFinite
<1>3. DOMAIN Pick(list, S) = 1..Cardinality(S)
  BY DEF Pick
<1>4. ASSUME NEW k \in 1..Cardinality(S) PROVE Pick(list, S)[k] \in T
  <2>1. S \in SUBSET (1..Len(list)) /\ Len(list) \in Nat
    BY <1>1
  <2>2. Taken(list, S, k)
    BY <2>1, PickOrigin
  <2>3. PICK i \in S : Pick(list, S)[k] = list[i]
    BY <2>2 DEF Taken
  <2>4. i \in DOMAIN list
    OBVIOUS
  <2> QED
    BY <2>3, <2>4
<1>5. Pick(list, S) = [k \in 1..Cardinality(S) |-> Pick(list, S)[k]]
  BY DEF Pick
<1>6. Pick(list, S) \in [1..Cardinality(S) -> T]
  BY <1>4, <1>5
<1> QED
  BY <1>2, <1>3, <1>6

(***************************************************************************)
(* The first position of an element: the one of rank 1 among its           *)
(* positions.                                                              *)
(***************************************************************************)
IsFirstOf(i, list, x) == list[i] = x /\ \A j \in 1..(i - 1) : list[j] # x
OccursFirst(list, n, x) == \E i \in 1..n : IsFirstOf(i, list, x)

LEMMA FirstPosition ==
    ASSUME NEW list, NEW n \in Nat, NEW i0 \in 1..n
    PROVE  OccursFirst(list, n, list[i0])
<1> DEFINE x == list[i0]
           S == {i \in 1..n : list[i] = x}
<1>1. S \in SUBSET (1..n) /\ i0 \in S /\ \A i \in 1..n : i \in S <=> list[i] = x
  OBVIOUS
<1> HIDE DEF S
<1>2. Cardinality(S) \in Nat /\ Rank(S, i0) \in 1..Cardinality(S)
  BY <1>1, PositionsFinite, RankType
<1>3. 1 \in 1..Cardinality(S)
  BY <1>2
<1>4. PICK i \in S : Rank(S, i) = 1
  BY <1>1, <1>3, RankBijects
<1>5. ASSUME NEW j \in 1..(i - 1), list[j] = x PROVE FALSE
  <2>1. j \in 1..n /\ j < i
    BY <1>1
  <2>2. j \in S
    BY <1>1, <1>5, <2>1
  <2>3. Rank(S, j) < Rank(S, i) /\ Rank(S, j) \in 1..Cardinality(S)
    BY <1>1, <2>1, <2>2, RankGrows, RankType
  <2> QED
    BY <1>2, <1>4, <2>3
<1>6. IsFirstOf(i, list, x) /\ i \in 1..n
  BY <1>1, <1>5 DEF IsFirstOf
<1> QED
  BY <1>6 DEF OccursFirst

(***************************************************************************)
(* Distinct has the members of the list, each of them once.                *)
(***************************************************************************)
LEMMA DistinctMembers ==
    ASSUME NEW T, NEW list \in Seq(T)
    PROVE  /\ Distinct(list) \in Seq(T)
           /\ Members(Distinct(list)) = Members(list)
           /\ \A k, l \in DOMAIN Distinct(list) :
                 Distinct(list)[k] = Distinct(list)[l] => k = l
<1> DEFINE S == {i \in DOMAIN list : \A j \in 1..(i - 1) : list[j] # list[i]}
<1>1. S \in SUBSET (DOMAIN list) /\ DOMAIN list = 1..Len(list) /\ Len(list) \in Nat
  OBVIOUS
<1>2. Distinct(list) = Pick(list, S)
  BY DEF Distinct
<1>3. \A i \in 1..Len(list) : i \in S <=> \A j \in 1..(i - 1) : list[j] # list[i]
  BY <1>1
<1> HIDE DEF S
<1>4. DOMAIN Pick(list, S) = 1..Cardinality(S)
  BY DEF Pick
<1>5. S \in SUBSET (1..Len(list)) /\ Len(list) \in Nat
  BY <1>1
<1>6. ASSUME NEW k \in DOMAIN Pick(list, S)
      PROVE  \E i \in S : Rank(S, i) = k /\ Pick(list, S)[k] = list[i]
  <2>1. k \in 1..Cardinality(S)
    BY <1>4
  <2>2. Taken(list, S, k)
    BY <1>5, <2>1, PickOrigin
  <2> QED
    BY <2>2 DEF Taken
<1>7. ASSUME NEW i \in S
      PROVE  Rank(S, i) \in DOMAIN Pick(list, S) /\ Pick(list, S)[Rank(S, i)] = list[i]
  BY <1>4, <1>5, PickElement, RankType
<1>8. Members(Distinct(list)) \subseteq Members(list)
  BY <1>1, <1>2, <1>6 DEF Members
<1>9. Members(list) \subseteq Members(Distinct(list))
  <2> SUFFICES ASSUME NEW i0 \in DOMAIN list
               PROVE  list[i0] \in Members(Distinct(list))
    BY DEF Members
  <2>1. PICK i \in 1..Len(list) :
            list[i] = list[i0] /\ \A j \in 1..(i - 1) : list[j] # list[i0]
    <3>1. i0 \in 1..Len(list) /\ Len(list) \in Nat
      BY <1>1
    <3>2. OccursFirst(list, Len(list), list[i0])
      BY <3>1, FirstPosition
    <3> QED
      BY <3>2 DEF OccursFirst, IsFirstOf
  <2>2. i \in S
    BY <1>3, <2>1
  <2> QED
    BY <1>2, <1>7, <2>1, <2>2 DEF Members
<1>10. ASSUME NEW k \in DOMAIN Pick(list, S), NEW l \in DOMAIN Pick(list, S),
              Pick(list, S)[k] = Pick(list, S)[l]
       PROVE  k = l
  <2>1. PICK i \in S : Rank(S, i) = k /\ Pick(list, S)[k] = list[i]
    BY <1>6
  <2>2. PICK j \in S : Rank(S, j) = l /\ Pick(list, S)[l] = list[j]
    BY <1>6
  <2>3. list[i] = list[j] /\ i \in 1..Len(list) /\ j \in 1..Len(list)
    BY <1>5, <1>10, <2>1, <2>2
  <2>4. ~(i < j)
    <3>1. i < j => i \in 1..(j - 1)
      BY <2>3
    <3> QED
      BY <1>3, <2>3, <3>1
  <2>5. ~(j < i)
    <3>1. j < i => j \in 1..(i - 1)
      BY <2>3
    <3> QED
      BY <1>3, <2>3, <3>1
  <2>6. i = j
    BY <2>3, <2>4, <2>5
  <2> QED
    BY <2>1, <2>2, <2>6
<1>11. Distinct(list) \in Seq(T)
  BY <1>1, <1>2, PickSeq
<1>12. \A k, l \in DOMAIN Distinct(list) : Distinct(list)[k] = Distinct(list)[l] => k = l
  BY <1>2, <1>10
<1>13. Members(Distinct(list)) = Members(list)
  BY <1>8, <1>9
<1> QED
  BY <1>11, <1>12, <1>13
=============================================================================
