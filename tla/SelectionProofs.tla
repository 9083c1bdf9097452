--------------------------- MODULE SelectionProofs ---------------------------
(* What filtering and sorting keep, for arrays of any length; and the two  *)
(* facts about natural numbers that proofs over an array begin with.       *)
EXTENDS Selection, TLAPS, FiniteSetTheorems, FunctionTheorems, SequenceTheorems

(* The ranks of a finite set of numbers are 1, 2 and so on.                *)
LEMMA RankIsPlace ==
  ASSUME NEW K, IsFiniteSet(K), K \subseteq Nat
  PROVE  /\ Cardinality(K) \in Nat
         /\ \A k \in K : Rank(K, k) \in 1..Cardinality(K)
         /\ \A j, k \in K : j < k => Rank(K, j) < Rank(K, k)
         /\ \A i \in 1..Cardinality(K) : \E k \in K : Rank(K, k) = i
<1> DEFINE Upto(k) == {j \in K : j <= k}
           N == Cardinality(K)
           rank == [k \in K |-> Rank(K, k)]
<1>1. N \in Nat
  BY FS_CardinalityType
<1>2. \A k \in K : /\ Upto(k) \subseteq K /\ k \in Upto(k) /\ Upto(k) # {}
                   /\ Rank(K, k) = Cardinality(Upto(k))
  BY DEF Rank
<1>3. \A k \in K : IsFiniteSet(Upto(k)) /\ Rank(K, k) \in Nat /\ Rank(K, k) <= N /\ Rank(K, k) # 0
  <2>1. SUFFICES ASSUME NEW k \in K
                 PROVE  IsFiniteSet(Upto(k)) /\ Rank(K, k) \in Nat /\ Rank(K, k) <= N /\ Rank(K, k) # 0
    OBVIOUS
  <2>2. Upto(k) \in SUBSET K /\ Upto(k) # {} /\ Rank(K, k) = Cardinality(Upto(k))
    BY <1>2
  <2> HIDE DEF Upto
  <2>3. IsFiniteSet(Upto(k)) /\ Cardinality(Upto(k)) <= N
    BY <2>2, FS_Subset
  <2>4. Cardinality(Upto(k)) \in Nat /\ Cardinality(Upto(k)) # 0
    BY <2>2, <2>3, FS_CardinalityType, FS_EmptySet
  <2>5. QED
    BY <2>2, <2>3, <2>4
<1>4. \A k \in K : Rank(K, k) \in 1..N
  <2>1. SUFFICES ASSUME NEW k \in K PROVE Rank(K, k) \in 1..N
    OBVIOUS
  <2>2. PICK r : r = Rank(K, k)
    OBVIOUS
  <2>3. r \in Nat /\ r <= N /\ r # 0
    BY <1>3, <2>2
  <2> HIDE DEF N
  <2>4. r \in 1..N
    BY <1>1, <2>3
  <2>5. QED
    BY <2>2, <2>4
<1>5. \A j, k \in K : j < k => Rank(K, j) < Rank(K, k)
  <2>1. SUFFICES ASSUME NEW j \in K, NEW k \in K, j < k PROVE Rank(K, j) < Rank(K, k)
    OBVIOUS
  <2>2. Upto(j) \in SUBSET Upto(k) /\ k \in Upto(k) /\ k \notin Upto(j)
    <3>1. j \in Nat /\ k \in Nat /\ \A i \in K : i \in Nat
      BY <2>1
    <3>2. \A i \in K : i <= j => i <= k
      BY <2>1, <3>1
    <3>3. Upto(j) \subseteq Upto(k)
      BY <3>2
    <3>4. k <= k /\ ~(k <= j)
      BY <2>1, <3>1
    <3>5. QED
      BY <3>3, <3>4
  <2>3. IsFiniteSet(Upto(k)) /\ Rank(K, k) = Cardinality(Upto(k)) /\ Rank(K, j) = Cardinality(Upto(j))
    BY <1>2, <1>3
  <2>4. Rank(K, j) \in Nat /\ Rank(K, k) \in Nat
    BY <1>3
  <2> HIDE DEF Upto
  <2>5. /\ Cardinality(Upto(j)) <= Cardinality(Upto(k))
        /\ Cardinality(Upto(k)) = Cardinality(Upto(j)) => Upto(k) = Upto(j)
    BY <2>2, <2>3, FS_Subset
  <2>6. QED
    BY <2>2, <2>3, <2>4, <2>5
<1>6. rank \in Injection(K, 1..N)
  <2>1. rank \in [K -> 1..N]
    BY <1>4
  <2>2. \A j, k \in K : rank[j] = rank[k] => j = k
    <3>1. SUFFICES ASSUME NEW j \in K, NEW k \in K, Rank(K, j) = Rank(K, k) PROVE j = k
      OBVIOUS
    <3>2. j \in Nat /\ k \in Nat /\ Rank(K, j) \in Nat /\ Rank(K, k) \in Nat
      BY <1>3
    <3>3. ~(j < k) /\ ~(k < j)
      BY <1>5, <3>1, <3>2
    <3>4. QED
      BY <3>2, <3>3
  <2>3. QED
    BY <2>1, <2>2 DEF Injection, IsInjective
<1>7. IsFiniteSet(1..N) /\ Cardinality(1..N) = N
  BY <1>1, FS_Interval
<1>8. rank \in Surjection(K, 1..N)
  <2> HIDE DEF rank
  <2>1. QED
    BY <1>6, <1>7, FS_Injection
<1>9. \A i \in 1..N : \E k \in K : rank[k] = i
  BY <1>8 DEF Surjection
<1>10. QED
  BY <1>1, <1>4, <1>5, <1>9

(* Each number of the set has its place in the ascending order.            *)
LEMMA AscendingIs ==
  ASSUME NEW K, IsFiniteSet(K), K \subseteq Nat
  PROVE  /\ Cardinality(K) \in Nat
         /\ Ascending(K) \in [1..Cardinality(K) -> K]
         /\ \A i, j \in 1..Cardinality(K) : i < j => Ascending(K)[i] < Ascending(K)[j]
         /\ \A k \in K : \E i \in 1..Cardinality(K) : Ascending(K)[i] = k
<1> DEFINE N == Cardinality(K)
           at == Ascending(K)
<1>1. /\ N \in Nat
      /\ \A k \in K : Rank(K, k) \in 1..N
      /\ \A j, k \in K : j < k => Rank(K, j) < Rank(K, k)
      /\ \A i \in 1..N : \E k \in K : Rank(K, k) = i
  BY RankIsPlace
<1>2. at = [i \in 1..N |-> CHOOSE k \in K : Rank(K, k) = i]
  BY DEF Ascending
<1>3. \A i \in 1..N : at[i] \in K /\ Rank(K, at[i]) = i
  BY <1>1, <1>2
<1>4. at \in [1..N -> K]
  BY <1>2, <1>3
<1>5. \A i, j \in 1..N : i < j => at[i] < at[j]
  <2>1. SUFFICES ASSUME NEW i \in 1..N, NEW j \in 1..N, i < j PROVE at[i] < at[j]
    OBVIOUS
  <2>2. at[i] \in Nat /\ at[j] \in Nat /\ at[i] \in K /\ at[j] \in K
    BY <1>3
  <2>3. CASE at[j] < at[i]
    <3>1. j < i
      BY <1>1, <1>3, <2>2, <2>3
    <3>2. QED
      BY <2>1, <3>1
  <2>4. CASE at[i] = at[j]
    BY <1>3, <2>1, <2>4
  <2>5. QED
    <3> HIDE DEF at
    <3>1. QED
      BY <2>2, <2>3, <2>4
<1>6. \A k \in K : \E i \in 1..N : at[i] = k
  <2>1. SUFFICES ASSUME NEW k \in K PROVE at[Rank(K, k)] = k
    BY <1>1
  <2>2. /\ Rank(K, k) \in 1..N
        /\ at[Rank(K, k)] \in K /\ Rank(K, at[Rank(K, k)]) = Rank(K, k)
    BY <1>1, <1>3
  <2>3. PICK i : i = at[Rank(K, k)]
    OBVIOUS
  <2>4. i \in K /\ i \in Nat /\ k \in Nat /\ Rank(K, i) = Rank(K, k)
    BY <2>2, <2>3
  <2>5. ~(i < k) /\ ~(k < i)
    BY <1>1, <2>4
  <2>6. QED
    BY <2>3, <2>4, <2>5
<1>7. QED
  BY <1>1, <1>4, <1>5, <1>6

(* A finite set of numbers has a least and a greatest one.                 *)
LEMMA Extremes ==
  ASSUME NEW K, IsFiniteSet(K), K \subseteq Nat, K # {}
  PROVE  /\ \E k \in K : \A j \in K : k <= j
         /\ \E k \in K : \A j \in K : j <= k
<1> DEFINE N == Cardinality(K)
           at == Ascending(K)
<1>1. /\ N \in Nat /\ at \in [1..N -> K]
      /\ \A i, j \in 1..N : i < j => at[i] < at[j]
      /\ \A k \in K : \E i \in 1..N : at[i] = k
  BY AscendingIs
<1> HIDE DEF N, at
<1>2. N # 0 /\ 1 \in 1..N /\ N \in 1..N
  <2>1. PICK k \in K : TRUE
    OBVIOUS
  <2>2. PICK i \in 1..N : at[i] = k
    BY <1>1
  <2>3. QED
    BY <1>1, <2>2
<1>3. at[1] \in K /\ at[N] \in K /\ \A i \in 1..N : at[i] \in Nat
  BY <1>1, <1>2
<1>4. \A j \in K : at[1] <= j /\ j <= at[N]
  <2>1. SUFFICES ASSUME NEW j \in K PROVE at[1] <= j /\ j <= at[N]
    OBVIOUS
  <2>2. PICK i \in 1..N : at[i] = j
    BY <1>1
  <2>3. (i = 1 \/ 1 < i) /\ (i = N \/ i < N)
    BY <1>1
  <2>4. (i = 1 \/ at[1] < at[i]) /\ (i = N \/ at[i] < at[N])
    BY <1>1, <1>2, <2>3
  <2>5. QED
    BY <1>2, <1>3, <2>2, <2>4
<1>5. QED
  BY <1>3, <1>4

(* Induction, for a set of numbers.                                        *)
LEMMA NatSets ==
  ASSUME NEW T, 0 \in T, \A n \in Nat : n \in T => n + 1 \in T
  PROVE  \A n \in Nat : n \in T
<1>1. SUFFICES ASSUME NEW n \in Nat, n \notin T PROVE FALSE
  OBVIOUS
<1> DEFINE K == {k \in 0..n : k \notin T}
<1>2. n \in K /\ K \in SUBSET (0..n) /\ K \subseteq Nat
  BY <1>1
<1>3. IsFiniteSet(K)
  <2>1. IsFiniteSet(0..n)
    BY FS_Interval
  <2> HIDE DEF K
  <2>2. QED
    BY <1>2, <2>1, FS_Subset
<1>4. PICK k \in K : \A j \in K : k <= j
  <2> HIDE DEF K
  <2>1. QED
    BY <1>2, <1>3, Extremes
<1>5. k \in 0..n /\ k \notin T /\ k # 0
  OBVIOUS
<1>6. k - 1 \in Nat /\ k - 1 \in 0..n /\ ~(k <= k - 1)
  BY <1>5
<1>7. k - 1 \in T
  BY <1>4, <1>6
<1>8. k - 1 + 1 \in T
  BY <1>6, <1>7
<1>9. k - 1 + 1 = k
  BY <1>5
<1>10. QED
  BY <1>5, <1>8, <1>9

IsIndices(K) == IsFiniteSet(K) /\ K \subseteq Nat

(* An increasing sequence of the elements of a set, all of them.           *)
Lists(at, K) ==
  /\ Cardinality(K) \in Nat
  /\ at \in [1..Cardinality(K) -> K]
  /\ \A i, j \in 1..Cardinality(K) : i < j <=> at[i] < at[j]
  /\ \A k \in K : \E i \in 1..Cardinality(K) : at[i] = k

(* The elements picked keep their order, and none of the indices is left   *)
(* out.                                                                    *)
LEMMA PickedIs ==
  ASSUME NEW q, NEW K, IsIndices(K)
  PROVE  /\ Lists(Ascending(K), K)
         /\ DOMAIN Picked(q, K) = 1..Cardinality(K)
         /\ \A j \in 1..Cardinality(K) : Picked(q, K)[j] = q[Ascending(K)[j]]
<1> DEFINE N == Cardinality(K)
           at == Ascending(K)
<1>1. /\ N \in Nat /\ at \in [1..N -> K] /\ K \subseteq Nat
      /\ \A i, j \in 1..N : i < j => at[i] < at[j]
      /\ \A k \in K : \E i \in 1..N : at[i] = k
  BY AscendingIs DEF IsIndices
<1>2. Picked(q, K) = [j \in DOMAIN at |-> q[at[j]]]
  BY DEF Picked
<1> HIDE DEF N, at
<1>3. Picked(q, K) = [j \in 1..N |-> q[at[j]]]
  BY <1>1, <1>2
<1>4. \A i, j \in 1..N : at[i] < at[j] => i < j
  <2>1. SUFFICES ASSUME NEW i \in 1..N, NEW j \in 1..N, at[i] < at[j], ~(i < j) PROVE FALSE
    OBVIOUS
  <2>2. at[i] \in Nat /\ at[j] \in Nat
    BY <1>1
  <2>3. i = j \/ j < i
    BY <1>1, <2>1
  <2>4. at[i] = at[j] \/ at[j] < at[i]
    BY <1>1, <2>3
  <2>5. QED
    BY <2>1, <2>2, <2>4
<1>5. QED
  BY <1>1, <1>3, <1>4 DEF N, at, Lists

LEMMA PickedSeq ==
  ASSUME NEW T, NEW q, NEW K, IsIndices(K), \A k \in K : q[k] \in T
  PROVE  Picked(q, K) \in Seq(T) /\ Len(Picked(q, K)) = Cardinality(K)
<1>1. Cardinality(K) \in Nat /\ Ascending(K) \in [1..Cardinality(K) -> K]
  BY PickedIs DEF Lists
<1>2. Picked(q, K) = [j \in 1..Cardinality(K) |-> q[Ascending(K)[j]]]
  <2>1. Picked(q, K) = [j \in DOMAIN Ascending(K) |-> q[Ascending(K)[j]]]
    BY DEF Picked
  <2>2. QED
    BY <1>1, <2>1
<1>3. \A j \in 1..Cardinality(K) : q[Ascending(K)[j]] \in T
  BY <1>1
<1>4. Picked(q, K) \in Seq(T)
  BY <1>1, <1>2, <1>3, SeqDef
<1>5. QED
  BY <1>1, <1>2, <1>4, LenProperties

(* An array filtered has the elements asked for, in the order it had them. *)
LEMMA AmongIs ==
  ASSUME NEW T, NEW q \in Seq(T), NEW S
  PROVE  /\ Among(q, S) \in Seq(T)
         /\ Items(Among(q, S)) = Items(q) \cap S
         /\ \E at \in [DOMAIN Among(q, S) -> DOMAIN q] :
              /\ \A i \in DOMAIN Among(q, S) : Among(q, S)[i] = q[at[i]]
              /\ \A i, j \in DOMAIN Among(q, S) : i < j <=> at[i] < at[j]
<1> DEFINE K == {i \in DOMAIN q : q[i] \in S}
           at == Ascending(K)
           N == Cardinality(K)
           kept == Among(q, S)
<1>1. Len(q) \in Nat /\ DOMAIN q = 1..Len(q) /\ \A i \in DOMAIN q : q[i] \in T
  BY LenProperties, ElementOfSeq
<1>2. IsIndices(K)
  <2>1. IsFiniteSet(1..Len(q)) /\ K \in SUBSET (1..Len(q))
    BY <1>1, FS_Interval
  <2> HIDE DEF K
  <2>2. IsFiniteSet(K)
    BY <2>1, FS_Subset
  <2>3. K \subseteq Nat
    BY <2>1
  <2>4. QED
    BY <2>2, <2>3 DEF IsIndices
<1>3. kept = Picked(q, K) /\ \A i \in K : i \in DOMAIN q /\ q[i] \in S /\ q[i] \in T
  BY <1>1 DEF Among
<1>4. /\ N \in Nat /\ kept \in Seq(T) /\ DOMAIN kept = 1..N /\ at \in [1..N -> K]
      /\ \A j \in 1..N : kept[j] = q[at[j]]
      /\ \A i, j \in 1..N : i < j <=> at[i] < at[j]
      /\ \A k \in K : \E i \in 1..N : at[i] = k
  <2> HIDE DEF K, kept
  <2>1. Picked(q, K) \in Seq(T)
    BY <1>2, <1>3, PickedSeq
  <2>2. Lists(at, K) /\ DOMAIN Picked(q, K) = 1..N /\ \A j \in 1..N : Picked(q, K)[j] = q[at[j]]
    BY <1>2, PickedIs
  <2>3. /\ N \in Nat /\ at \in [1..N -> K]
        /\ \A i, j \in 1..N : i < j <=> at[i] < at[j]
        /\ \A k \in K : \E i \in 1..N : at[i] = k
    <3> HIDE DEF at
    <3>1. QED
      BY <2>2 DEF Lists
  <2> HIDE DEF N, at
  <2>4. QED
    BY <1>3, <2>1, <2>2, <2>3
<1>5. \A i \in DOMAIN q : q[i] \in S => i \in K
  OBVIOUS
<1> HIDE DEF kept, at, N, K
<1>6. \A j \in 1..N : at[j] \in K
  BY <1>4
<1>7. Items(kept) = Items(q) \cap S
  <2>1. \A x \in Items(q) \cap S : x \in Items(kept)
    BY <1>4, <1>5 DEF Items
  <2>2. \A x \in Items(kept) : x \in Items(q) \cap S
    BY <1>3, <1>4, <1>6 DEF Items
  <2>3. QED
    BY <2>1, <2>2
<1>8. at \in [DOMAIN kept -> DOMAIN q]
  BY <1>3, <1>4
<1>9. QED
  BY <1>4, <1>7, <1>8 DEF kept

(* a[1], ..., a[m] are increasing numbers, all among b[1], ..., b[n].      *)
RisesIn(m, a, n, b) ==
  /\ \A i \in 1..m : a[i] \in Nat
  /\ \A i, j \in 1..m : i < j => a[i] < a[j]
  /\ \A i \in 1..m : \E j \in 1..n : b[j] = a[i]

(* Two increasing sequences of the same numbers are the same.              *)
LEMMA PrefixOf ==
  ASSUME NEW m \in Nat, NEW n \in Nat, NEW a, NEW b, RisesIn(m, a, n, b), RisesIn(n, b, m, a)
  PROVE  \A i \in 1..m : i \in 1..n /\ a[i] = b[i]
<1>0. /\ \A i, j \in 1..m : i < j => a[i] < a[j]
      /\ \A i, j \in 1..n : i < j => b[i] < b[j]
      /\ \A i \in 1..m : a[i] \in Nat /\ \E j \in 1..n : b[j] = a[i]
      /\ \A j \in 1..n : b[j] \in Nat /\ \E i \in 1..m : a[i] = b[j]
  BY DEF RisesIn
<1> DEFINE D == {i \in 1..m : ~(i \in 1..n /\ a[i] = b[i])}
<1>1. SUFFICES ASSUME D # {} PROVE FALSE
  OBVIOUS
<1>2. IsFiniteSet(D) /\ D \subseteq Nat
  <2>1. D \in SUBSET (1..m) /\ IsFiniteSet(1..m)
    BY FS_Interval
  <2>2. D \subseteq Nat
    BY <2>1
  <2> HIDE DEF D
  <2>3. IsFiniteSet(D)
    BY <2>1, FS_Subset
  <2>4. QED
    BY <2>2, <2>3
<1>3. PICK i \in D : \A k \in D : i <= k
  <2> HIDE DEF D
  <2>1. QED
    BY <1>1, <1>2, Extremes
<1>4. i \in 1..m /\ \A k \in 1..m : k < i => k \in 1..n /\ a[k] = b[k]
  BY <1>3
<1>5. ~(i \in 1..n /\ a[i] = b[i])
  BY <1>3
<1> HIDE DEF D
<1>6. PICK j \in 1..n : b[j] = a[i]
  BY <1>0, <1>4
<1>7. ~(j < i)
  BY <1>0, <1>4, <1>6
<1>8. i \in 1..n
  BY <1>0, <1>4, <1>6, <1>7
<1>9. PICK h \in 1..m : a[h] = b[i]
  BY <1>0, <1>8
<1>10. ~(h < i)
  BY <1>0, <1>4, <1>8, <1>9
<1>11. a[i] \in Nat /\ b[i] \in Nat /\ a[h] \in Nat /\ b[j] \in Nat
  BY <1>0, <1>4, <1>8
<1>12. b[i] <= b[j] /\ a[i] <= a[h]
  <2>1. i = j \/ b[i] < b[j]
    BY <1>0, <1>6, <1>7, <1>8
  <2>2. i = h \/ a[i] < a[h]
    BY <1>0, <1>4, <1>9, <1>10
  <2>3. QED
    BY <1>11, <2>1, <2>2
<1>13. QED
  BY <1>5, <1>6, <1>8, <1>9, <1>11, <1>12

LEMMA SameListing ==
  ASSUME NEW m \in Nat, NEW n \in Nat, NEW a, NEW b, RisesIn(m, a, n, b), RisesIn(n, b, m, a)
  PROVE  m = n /\ \A i \in 1..m : a[i] = b[i]
<1>1. \A i \in 1..m : i \in 1..n /\ a[i] = b[i]
  BY PrefixOf
<1>2. \A j \in 1..n : j \in 1..m /\ b[j] = a[j]
  BY PrefixOf
<1>3. ~(m < n)
  <2>1. m < n => n \in 1..n /\ n \notin 1..m
    OBVIOUS
  <2>2. QED
    BY <1>2, <2>1
<1>4. ~(n < m)
  <2>1. n < m => m \in 1..m /\ m \notin 1..n
    OBVIOUS
  <2>2. QED
    BY <1>1, <2>1
<1>5. QED
  BY <1>1, <1>3, <1>4

(* To pick everything changes nothing.                                     *)
LEMMA PickedAll ==
  ASSUME NEW T, NEW q \in Seq(T)
  PROVE  Picked(q, DOMAIN q) = q
<1> DEFINE n == Len(q)
           N == Cardinality(1..n)
           at == Ascending(1..n)
           all == [i \in 1..n |-> i]
           r == Picked(q, 1..n)
<1>1. n \in Nat /\ DOMAIN q = 1..n /\ \A i \in 1..n : q[i] \in T
  BY LenProperties, ElementOfSeq
<1> HIDE DEF n
<1>2. IsIndices(1..n)
  BY <1>1, FS_Interval DEF IsIndices
<1>3. Lists(at, 1..n) /\ DOMAIN r = 1..N /\ \A j \in 1..N : r[j] = q[at[j]]
  BY <1>2, PickedIs
<1>4. r \in Seq(T) /\ Len(r) = N
  BY <1>1, <1>2, PickedSeq
<1> HIDE DEF at, r
<1>5. /\ N \in Nat /\ \A i \in 1..N : at[i] \in 1..n
      /\ \A i, j \in 1..N : i < j <=> at[i] < at[j]
      /\ \A k \in 1..n : \E i \in 1..N : at[i] = k
  BY <1>3 DEF Lists
<1> HIDE DEF N
<1>6. RisesIn(N, at, n, all)
  <2>1. \A i \in 1..N : at[i] \in Nat /\ all[at[i]] = at[i]
    BY <1>1, <1>5
  <2> HIDE DEF all
  <2>2. QED
    BY <1>5, <2>1 DEF RisesIn
<1>7. RisesIn(n, all, N, at)
  BY <1>1, <1>5 DEF RisesIn
<1>8. N = n /\ \A i \in 1..N : at[i] = all[i]
  <2> HIDE DEF all
  <2>1. QED
    BY <1>1, <1>5, <1>6, <1>7, SameListing
<1>9. r = q
  <2>1. Len(r) = Len(q)
    BY <1>4, <1>8 DEF n
  <2>2. \A i \in 1..Len(r) : r[i] = q[i]
    BY <1>3, <1>4, <1>8
  <2>3. QED
    BY <1>4, <2>1, <2>2, SeqEqual
<1>10. QED
  BY <1>1, <1>9 DEF r
=============================================================================
