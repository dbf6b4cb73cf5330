------------------------------ MODULE DataFacts ------------------------------
(***************************************************************************)
(* Induction over the naturals in the form of sets, and what Picked does   *)
(* to sequences: the lemmas that the proofs about loops over vectors share.*)
(***************************************************************************)
EXTENDS Integers, Picks, TLAPS, SequenceTheorems, WellFoundedInduction,
        FiniteSetTheorems

(* Every set of naturals has a least element: the intervals below its      *)
(* elements are finite sets, and strict inclusion of those is well founded.*)
LEMMA LeastNumber ==
    ASSUME NEW T \in SUBSET Nat, T # {}
    PROVE  \E x \in T : \A y \in T : x <= y
<1> DEFINE I == {0..(n - 1) : n \in T}
<1>1. I \subseteq FiniteSubsetsOf(Nat) /\ I # {}
  <2>1. \A n \in T : 0..(n - 1) \subseteq Nat
    OBVIOUS
  <2>2. \A n \in T : IsFiniteSet(0..(n - 1))
    BY FS_Interval
  <2> QED
    BY <2>1, <2>2 DEF FiniteSubsetsOf
<1>2. IsWellFoundedOn(StrictSubsetOrdering(Nat), FiniteSubsetsOf(Nat))
  BY FS_StrictSubsetOrderingWellFounded
<1> HIDE DEF I
<1>3. \E x \in I : \A y \in I : <<y, x>> \notin StrictSubsetOrdering(Nat)
  BY <1>1, <1>2, WFMin
<1>4. PICK n \in T : \A m \in T : <<0..(m - 1), 0..(n - 1)>> \notin StrictSubsetOrdering(Nat)
  BY <1>3 DEF I
<1>5. ASSUME NEW m \in T, m < n PROVE FALSE
  <2>1. 0..(m - 1) \subseteq 0..(n - 1) /\ 0..(n - 1) \subseteq Nat
    BY <1>5
  <2>2. m \in 0..(n - 1) /\ m \notin 0..(m - 1)
    BY <1>5
  <2> QED
    BY <2>1, <2>2, <1>4 DEF StrictSubsetOrdering
<1> QED
  BY <1>5

(* Induction: what holds of 0 and is passed on holds of every natural.     *)
LEMMA SetInduction ==
    ASSUME NEW S, 0 \in S, \A n \in Nat : n \in S => n + 1 \in S
    PROVE  \A n \in Nat : n \in S
<1> SUFFICES ASSUME Nat \ S # {} PROVE FALSE
  OBVIOUS
<1>1. PICK n \in Nat \ S : \A m \in Nat \ S : n <= m
  BY LeastNumber
<1> QED
  BY <1>1

------------------------------------------------------------------------------
(* How many positions of I lie below m.                                    *)
CountBelow(I, m) == Cardinality({k \in I : k < m})

(* Positions of a vector are finitely many, and so are those below one.    *)
LEMMA PositionsFinite ==
    ASSUME NEW N \in Nat, NEW I \in SUBSET (1..N)
    PROVE  /\ IsFiniteSet(I) /\ Cardinality(I) \in Nat
           /\ \A m : CountBelow(I, m) \in Nat
           /\ \A m : IsFiniteSet({k \in I : k < m})
<1>1. IsFiniteSet(1..N)
  BY FS_Interval
<1>2. \A J \in SUBSET (1..N) : IsFiniteSet(J) /\ Cardinality(J) \in Nat
  BY <1>1, FS_Subset, FS_CardinalityType
<1> QED
  BY <1>2 DEF CountBelow

(* Passing a position raises the count by one if it is in I, by nothing if *)
(* it is not.                                                              *)
LEMMA BelowNext ==
    ASSUME NEW N \in Nat, NEW I \in SUBSET (1..N), NEW m \in Nat
    PROVE  CountBelow(I, m + 1) = IF m \in I THEN CountBelow(I, m) + 1 ELSE CountBelow(I, m)
<1>1. \A k \in I : k < m + 1 <=> k < m \/ k = m
  <2>1. \A k \in I : k \in Int
    OBVIOUS
  <2> QED
    BY <2>1
<1>2. CASE m \in I
  <2>1. {k \in I : k < m + 1} = {k \in I : k < m} \cup {m}
    BY <1>1, <1>2
  <2>2. m \notin {k \in I : k < m} /\ IsFiniteSet({k \in I : k < m})
    <3>1. ~(m < m)
      OBVIOUS
    <3> QED
      BY <3>1, PositionsFinite
  <2>3. Cardinality({k \in I : k < m} \cup {m}) = Cardinality({k \in I : k < m}) + 1
    BY <2>2, FS_AddElement
  <2> QED
    BY <1>2, <2>1, <2>3 DEF CountBelow
<1>3. CASE m \notin I
  <2>1. {k \in I : k < m + 1} = {k \in I : k < m}
    BY <1>1, <1>3
  <2> QED
    BY <1>3, <2>1 DEF CountBelow
<1> QED
  BY <1>2, <1>3

(* The count never falls, and it rises past every position of I.           *)
LEMMA BelowGrows ==
    ASSUME NEW N \in Nat, NEW I \in SUBSET (1..N), NEW i \in I, NEW j \in Nat, i < j
    PROVE  CountBelow(I, i) < CountBelow(I, j)
<1>0. i \in Nat
  OBVIOUS
<1>1. CountBelow(I, i + 1) = CountBelow(I, i) + 1
  BY <1>0, BelowNext
<1>2. {k \in I : k < i + 1} \subseteq {k \in I : k < j}
  <2>1. \A k \in I : k < i + 1 => k < j
    <3>1. \A k \in I : k \in Int
      OBVIOUS
    <3> QED
      BY <1>0, <3>1
  <2> QED
    BY <2>1
<1>3. CountBelow(I, i + 1) <= CountBelow(I, j)
  BY <1>2, PositionsFinite, FS_Subset DEF CountBelow
<1>4. CountBelow(I, i) \in Nat /\ CountBelow(I, j) \in Nat
  BY PositionsFinite
<1> QED
  BY <1>1, <1>3, <1>4

(* At the ends the count is nothing and everything.                        *)
LEMMA BelowEnds ==
    ASSUME NEW N \in Nat, NEW I \in SUBSET (1..N)
    PROVE  CountBelow(I, 0) = 0 /\ CountBelow(I, N + 1) = Cardinality(I)
<1>1. \A k \in I : ~(k < 0) /\ k < N + 1
  <2>1. \A k \in I : k \in 1..N
    OBVIOUS
  <2> QED
    BY <2>1
<1>2. {k \in I : k < 0} = {} /\ {k \in I : k < N + 1} = I
  BY <1>1
<1> QED
  BY <1>2, FS_EmptySet DEF CountBelow

(* Each place from the first to the last has its position in I ...         *)
LEMMA NthThere ==
    ASSUME NEW N \in Nat, NEW I \in SUBSET (1..N), NEW n \in 1..Cardinality(I)
    PROVE  NthOf(I, n) \in I /\ CountBelow(I, NthOf(I, n)) = n - 1
<1> DEFINE T == {m \in Nat : CountBelow(I, m) >= n}
<1>0. Cardinality(I) \in Nat /\ n \in Nat /\ n >= 1
  <2>1. Cardinality(I) \in Nat
    BY PositionsFinite
  <2> QED
    BY <2>1
<1>1. N + 1 \in T
  BY <1>0, BelowEnds
<1>2. PICK m \in T : \A k \in T : m <= k
  <2>1. T \in SUBSET Nat /\ T # {}
    BY <1>1
  <2> HIDE DEF T
  <2> QED
    BY <2>1, LeastNumber
<1>3. m \in Nat /\ CountBelow(I, m) >= n
  OBVIOUS
<1>4. m # 0
  BY <1>0, <1>3, BelowEnds
<1>5. m - 1 \in Nat /\ m - 1 \notin T
  BY <1>2, <1>3, <1>4
<1>6. ~(CountBelow(I, m - 1) >= n)
  BY <1>5
<1>7. CountBelow(I, m) = IF m - 1 \in I THEN CountBelow(I, m - 1) + 1 ELSE CountBelow(I, m - 1)
  <2>1. (m - 1) + 1 = m
    BY <1>3
  <2> QED
    BY <1>5, <2>1, BelowNext
<1>8. CountBelow(I, m - 1) \in Nat
  BY PositionsFinite
<1>9. m - 1 \in I /\ CountBelow(I, m - 1) = n - 1
  BY <1>0, <1>3, <1>6, <1>7, <1>8
<1>10. m - 1 \in {j \in I : Cardinality({k \in I : k < j}) = n - 1}
  BY <1>9 DEF CountBelow
<1> QED
  BY <1>10 DEF NthOf, CountBelow

(* ... and only one.                                                       *)
LEMMA NthOnly ==
    ASSUME NEW N \in Nat, NEW I \in SUBSET (1..N), NEW i \in I
    PROVE  /\ CountBelow(I, i) + 1 \in 1..Cardinality(I)
           /\ NthOf(I, CountBelow(I, i) + 1) = i
<1>0. /\ CountBelow(I, i) \in Nat /\ Cardinality(I) \in Nat
      /\ i \in Nat /\ i < N + 1
  <2>1. i \in Nat /\ i < N + 1
    OBVIOUS
  <2>2. CountBelow(I, i) \in Nat /\ Cardinality(I) \in Nat
    BY PositionsFinite
  <2> QED
    BY <2>1, <2>2
<1>1. CountBelow(I, i) + 1 \in 1..Cardinality(I)
  <2>1. CountBelow(I, i) < CountBelow(I, N + 1)
    BY <1>0, BelowGrows
  <2> QED
    BY <1>0, <2>1, BelowEnds
<1>2. PICK j \in I : j = NthOf(I, CountBelow(I, i) + 1) /\ CountBelow(I, j) = CountBelow(I, i)
  <2>1. (CountBelow(I, i) + 1) - 1 = CountBelow(I, i)
    BY <1>0
  <2> QED
    BY <1>1, <2>1, NthThere
<1>3. j \in Nat
  OBVIOUS
<1>4. ~(i < j) /\ ~(j < i)
  <2>1. ~(CountBelow(I, i) < CountBelow(I, j)) /\ ~(CountBelow(I, j) < CountBelow(I, i))
    BY <1>0, <1>2
  <2> QED
    BY <1>0, <1>3, <2>1, BelowGrows
<1> QED
  BY <1>0, <1>1, <1>2, <1>3, <1>4

------------------------------------------------------------------------------
(* A loop that collects elements of a vector leaves a vector of them.      *)
LEMMA PickedSeq ==
    ASSUME NEW S, NEW seq \in Seq(S), NEW I \in SUBSET (1..Len(seq))
    PROVE  /\ Cardinality(I) \in Nat
           /\ Picked(seq, I) \in Seq(S)
           /\ Len(Picked(seq, I)) = Cardinality(I)
           /\ \A n \in 1..Cardinality(I) :
                NthOf(I, n) \in I /\ Picked(seq, I)[n] = seq[NthOf(I, n)]
           /\ \A i \in I : \E n \in 1..Cardinality(I) : NthOf(I, n) = i
<1>1. Len(seq) \in Nat /\ \A i \in 1..Len(seq) : seq[i] \in S
  BY LenProperties, ElementOfSeq
<1>2. Cardinality(I) \in Nat
  BY <1>1, PositionsFinite
<1>3. \A n \in 1..Cardinality(I) : NthOf(I, n) \in I
  BY <1>1, NthThere
<1>4. Picked(seq, I) \in [1..Cardinality(I) -> S]
  BY <1>1, <1>3 DEF Picked
<1>5. \A i \in I : \E n \in 1..Cardinality(I) : NthOf(I, n) = i
  BY <1>1, NthOnly
<1> QED
  BY <1>2, <1>3, <1>4, <1>5 DEF Picked

(* Two vectors of one length that agree at the positions give the same.    *)
LEMMA PickedSame ==
    ASSUME NEW N \in Nat, NEW I \in SUBSET (1..N), NEW s, NEW r,
           \A i \in I : s[i] = r[i]
    PROVE  Picked(s, I) = Picked(r, I)
<1>1. \A n \in 1..Cardinality(I) : NthOf(I, n) \in I
  BY NthThere
<1> QED
  BY <1>1 DEF Picked

(* Elements added at the end that are all collected are collected last.    *)
LEMMA PickedAll ==
    ASSUME NEW S, NEW s \in Seq(S), NEW r \in Seq(S), NEW I \in SUBSET (1..Len(s))
    PROVE  Picked(s \o r, I \cup (Len(s) + 1)..(Len(s) + Len(r))) = Picked(s, I) \o r
<1> DEFINE N == Len(s)
           M == Len(r)
           J == I \cup (N + 1)..(N + M)
           C == Cardinality(I)
<1>0. N \in Nat /\ M \in Nat
  BY LenProperties
<1>1. C \in Nat
  BY <1>0, PositionsFinite
<1>2. N + M \in Nat /\ J \in SUBSET (1..(N + M))
  <2>1. N + M \in Nat
    BY <1>0
  <2>2. \A k \in 1..N : k \in 1..(N + M)
    BY <1>0
  <2>3. \A k \in (N + 1)..(N + M) : k \in 1..(N + M)
    BY <1>0
  <2> QED
    BY <2>1, <2>2, <2>3
<1>3. \A i \in 1..N : CountBelow(J, i) = CountBelow(I, i)
  <2> TAKE i \in 1..N
  <2>1. \A k \in (N + 1)..(N + M) : ~(k < i)
    BY <1>0
  <2>2. {k \in J : k < i} = {k \in I : k < i}
    BY <2>1
  <2> QED
    BY <2>2 DEF CountBelow
<1>4. CountBelow(J, N + 1) = C
  <2>1. \A k \in 1..N : k < N + 1
    BY <1>0
  <2>2. \A k \in (N + 1)..(N + M) : ~(k < N + 1)
    BY <1>0
  <2>3. {k \in J : k < N + 1} = I
    BY <2>1, <2>2
  <2> QED
    BY <2>3 DEF CountBelow
<1>5. \A m \in Nat : m <= M => CountBelow(J, N + 1 + m) = C + m
  <2> DEFINE A == {m \in Nat : m <= M => CountBelow(J, N + 1 + m) = C + m}
  <2>1. 0 \in A
    <3>1. N + 1 + 0 = N + 1 /\ C + 0 = C
      BY <1>0, <1>1
    <3> QED
      BY <1>4, <3>1
  <2>2. ASSUME NEW m \in Nat, m \in A PROVE m + 1 \in A
    <3> SUFFICES ASSUME m + 1 <= M PROVE CountBelow(J, N + 1 + (m + 1)) = C + (m + 1)
      OBVIOUS
    <3>1. N + 1 + m \in (N + 1)..(N + M) /\ N + 1 + m \in Nat
      BY <1>0
    <3> DEFINE p == N + 1 + m
    <3>2. p \in J /\ p \in Nat
      BY <3>1
    <3> HIDE DEF p, J
    <3>3. CountBelow(J, p + 1) = CountBelow(J, p) + 1
      BY <1>2, <3>2, BelowNext
    <3>4. p + 1 = N + 1 + (m + 1) /\ C + (m + 1) = (C + m) + 1 /\ m <= M
      BY <1>0, <1>1 DEF p
    <3> QED
      BY <2>2, <3>3, <3>4 DEF p
  <2>3. \A m \in Nat : m \in A
    <3> HIDE DEF A
    <3> QED
      BY <2>1, <2>2, SetInduction
  <2> QED
    BY <2>3
<1>6. Cardinality(J) = C + M
  <2>0. M <= M /\ N + 1 + M = (N + M) + 1
    BY <1>0
  <2>1. CountBelow(J, N + 1 + M) = C + M
    BY <1>0, <1>5, <2>0
  <2> HIDE DEF J
  <2>2. CountBelow(J, (N + M) + 1) = Cardinality(J)
    BY <1>2, BelowEnds
  <2> QED
    BY <2>0, <2>1, <2>2
<1>7. \A n \in 1..C : NthOf(J, n) = NthOf(I, n)
  <2> TAKE n \in 1..C
  <2>1. NthOf(I, n) \in I /\ CountBelow(I, NthOf(I, n)) = n - 1
    BY <1>0, NthThere
  <2> DEFINE i == NthOf(I, n)
  <2>2. i \in J /\ CountBelow(J, i) = n - 1
    BY <1>3, <2>1
  <2>3. NthOf(J, CountBelow(J, i) + 1) = i
    BY <1>2, <2>2, NthOnly
  <2>4. (n - 1) + 1 = n
    BY <1>1
  <2> QED
    BY <2>2, <2>3, <2>4
<1>8. \A m \in 1..M : NthOf(J, C + m) = N + m
  <2> TAKE m \in 1..M
  <2>1. m - 1 \in Nat /\ m - 1 <= M /\ N + 1 + (m - 1) = N + m /\ C + (m - 1) = (C + m) - 1
    BY <1>0, <1>1
  <2>2. CountBelow(J, N + m) = (C + m) - 1
    BY <1>5, <2>1
  <2>3. N + m \in J
    BY <1>0
  <2> HIDE DEF J
  <2>4. NthOf(J, CountBelow(J, N + m) + 1) = N + m
    BY <1>2, <2>3, NthOnly
  <2>5. ((C + m) - 1) + 1 = C + m
    BY <1>1
  <2> QED
    BY <2>2, <2>4, <2>5
<1>9. Picked(s, I) \in Seq(S) /\ Len(Picked(s, I)) = C
  BY PickedSeq
<1> DEFINE left  == Picked(s \o r, J)
           right == Picked(s, I) \o r
<1>10. DOMAIN left = 1..(C + M)
  BY <1>6 DEF Picked
<1>11. DOMAIN right = 1..(C + M)
  <2>1. right \in Seq(S) /\ Len(right) = C + M
    BY <1>9, ConcatProperties
  <2> HIDE DEF right
  <2> QED
    BY <2>1, LenProperties
<1>12. \A n \in 1..(C + M) : left[n] = right[n]
  <2> TAKE n \in 1..(C + M)
  <2>1. left[n] = (s \o r)[NthOf(J, n)]
    BY <1>6 DEF Picked
  <2>2. CASE n <= C
    <3>1. n \in 1..C
      BY <1>0, <1>1, <2>2
    <3>2. NthOf(I, n) \in 1..N
      BY <1>0, <3>1, NthThere
    <3>3. left[n] = s[NthOf(I, n)]
      <4>1. PICK i \in 1..N : i = NthOf(I, n)
        BY <3>2
      <4>2. i \in 1..(N + M) /\ i <= N
        BY <1>0
      <4>3. (s \o r)[i] = s[i]
        BY <4>2, ConcatProperties
      <4> QED
        BY <1>7, <2>1, <3>1, <4>1, <4>3
    <3>4. right[n] = Picked(s, I)[n]
      BY <1>9, <3>1, ConcatProperties
    <3> QED
      BY <3>1, <3>3, <3>4 DEF Picked
  <2>3. CASE ~(n <= C)
    <3>1. n - C \in 1..M /\ C + (n - C) = n
      BY <1>0, <1>1, <2>3
    <3>2. NthOf(J, n) = N + (n - C)
      BY <1>8, <3>1
    <3>3. N + (n - C) \in 1..(N + M) /\ ~(N + (n - C) <= N) /\ (N + (n - C)) - N = n - C
      BY <1>0, <1>1, <3>1
    <3>4. left[n] = r[n - C]
      BY <2>1, <3>2, <3>3, ConcatProperties
    <3>5. right[n] = r[n - C]
      BY <1>9, <2>3, ConcatProperties
    <3> QED
      BY <3>4, <3>5
  <2> QED
    BY <2>2, <2>3
<1>13. left = [n \in 1..(C + M) |-> left[n]] /\ right = [n \in 1..(C + M) |-> right[n]]
  <2>1. right \in Seq(S) /\ Len(right) = C + M
    BY <1>9, ConcatProperties
  <2>2. right = [n \in 1..(C + M) |-> right[n]]
    <3> HIDE DEF right
    <3> QED
      BY <2>1, LenProperties
  <2> QED
    BY <1>6, <2>2 DEF Picked
<1> QED
  BY <1>12, <1>13

(* Collecting some of what was collected is collecting those at once.      *)
LEMMA PickedTwice ==
    ASSUME NEW S, NEW seq \in Seq(S), NEW I \in SUBSET (1..Len(seq)), NEW K \in SUBSET I,
           NEW J \in SUBSET (1..Cardinality(I)),
           \A n \in 1..Cardinality(I) : n \in J <=> NthOf(I, n) \in K
    PROVE  Picked(Picked(seq, I), J) = Picked(seq, K)
<1> DEFINE N == Len(seq)
           C == Cardinality(I)
<1>0. N \in Nat /\ C \in Nat /\ K \in SUBSET (1..N) /\ J \in SUBSET (1..C)
  BY LenProperties, PickedSeq
<1>1. \A m \in Nat : CountBelow(I, m) \in Nat /\ CountBelow(J, m) \in Nat /\ CountBelow(K, m) \in Nat
  BY <1>0, PositionsFinite
<1>2. \A m \in Nat : CountBelow(J, CountBelow(I, m) + 1) = CountBelow(K, m)
  <2> DEFINE A == {m \in Nat : CountBelow(J, CountBelow(I, m) + 1) = CountBelow(K, m)}
  <2>1. 0 \in A
    <3>1. CountBelow(I, 0) = 0 /\ CountBelow(K, 0) = 0 /\ CountBelow(J, 0) = 0
      BY <1>0, BelowEnds
    <3>2. 0 \notin J
      BY <1>0
    <3>3. \A z \in Nat : z \notin J => CountBelow(J, z + 1) = CountBelow(J, z)
      BY <1>0, BelowNext
    <3>4. CountBelow(J, 0 + 1) = CountBelow(J, 0)
      BY <3>2, <3>3
    <3> QED
      BY <3>1, <3>4
  <2>2. ASSUME NEW m \in Nat, m \in A PROVE m + 1 \in A
    <3>0. CountBelow(J, CountBelow(I, m) + 1) = CountBelow(K, m) /\ m + 1 \in Nat
      BY <2>2
    <3>1. CASE m \in I
      <4> DEFINE n == CountBelow(I, m) + 1
      <4>1. n \in 1..C /\ NthOf(I, n) = m
        BY <1>0, <3>1, NthOnly
      <4>2. n \in Nat
        <5>1. CountBelow(I, m) \in Nat
          BY <1>1
        <5> QED
          BY <5>1
      <4>3. n \in J <=> m \in K
        BY <4>1
      <4>4. CountBelow(I, m + 1) = n
        BY <1>0, <3>1, BelowNext
      <4>5. CountBelow(J, n + 1) = IF n \in J THEN CountBelow(J, n) + 1 ELSE CountBelow(J, n)
        <5>1. \A z \in Nat : CountBelow(J, z + 1) = IF z \in J THEN CountBelow(J, z) + 1 ELSE CountBelow(J, z)
          BY <1>0, BelowNext
        <5> HIDE DEF n
        <5> QED
          BY <4>2, <5>1
      <4>6. CountBelow(K, m + 1) = IF m \in K THEN CountBelow(K, m) + 1 ELSE CountBelow(K, m)
        BY <1>0, BelowNext
      <4> QED
        BY <3>0, <4>3, <4>4, <4>5, <4>6
    <3>2. CASE m \notin I
      <4>1. CountBelow(I, m + 1) = CountBelow(I, m) /\ CountBelow(K, m + 1) = CountBelow(K, m)
        BY <1>0, <3>2, BelowNext
      <4> QED
        BY <3>0, <4>1
    <3> QED
      BY <3>1, <3>2
  <2>3. \A m \in Nat : m \in A
    <3> HIDE DEF A
    <3> QED
      BY <2>1, <2>2, SetInduction
  <2> QED
    BY <2>3
<1>3. Cardinality(J) = Cardinality(K)
  <2>1. CountBelow(I, N + 1) = C /\ CountBelow(K, N + 1) = Cardinality(K)
    BY <1>0, BelowEnds
  <2>2. CountBelow(J, C + 1) = Cardinality(J)
    BY <1>0, BelowEnds
  <2>3. N + 1 \in Nat
    BY <1>0
  <2> QED
    BY <1>2, <2>1, <2>2, <2>3
<1>4. \A n \in 1..Cardinality(K) : Picked(seq, I)[NthOf(J, n)] = seq[NthOf(K, n)]
  <2> TAKE n \in 1..Cardinality(K)
  <2>1. PICK i \in K : i = NthOf(K, n) /\ CountBelow(K, i) = n - 1
    BY <1>0, NthThere
  <2>2. PICK p \in 1..C : p = CountBelow(I, i) + 1 /\ NthOf(I, p) = i
    BY <1>0, NthOnly
  <2>3. p \in J
    BY <2>1, <2>2
  <2>4. CountBelow(J, p) = n - 1
    <3>1. i \in Nat
      BY <1>0
    <3> QED
      BY <1>2, <2>1, <2>2, <3>1
  <2>5. NthOf(J, CountBelow(J, p) + 1) = p
    BY <1>0, <2>3, NthOnly
  <2>6. (n - 1) + 1 = n
    <3>1. Cardinality(K) \in Nat
      BY <1>0, PositionsFinite
    <3> QED
      BY <3>1
  <2> QED
    BY <2>1, <2>2, <2>4, <2>5, <2>6 DEF Picked
<1> QED
  BY <1>3, <1>4 DEF Picked
==============================================================================
