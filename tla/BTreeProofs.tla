----------------------------- MODULE BTreeProofs -----------------------------
(***************************************************************************)
(* Proofs about BTree: for every number of keys per node, every number of  *)
(* insertions and of insertions that break off between two page writes,    *)
(* whatever search and rangeScan return was inserted under that very key.  *)
(***************************************************************************)
EXTENDS BTree, DataFacts

------------------------------------------------------------------------------
(* Facts about the operators the model is built from.                      *)

(* Min finds the least of a set of naturals.                               *)
LEMMA MinIsLeast ==
    ASSUME NEW S \in SUBSET Nat, S # {}
    PROVE  Min(S) \in S /\ \A y \in S : Min(S) <= y
  BY LeastNumber DEF Min

(* A finite set of naturals has a bound: add its elements one by one.      *)
LEMMA FiniteIsBounded ==
    ASSUME NEW S \in SUBSET Nat, IsFiniteSet(S)
    PROVE  \E b \in Nat : \A x \in S : x <= b
<1>1. PICK n \in Nat : ExistsSurjection(1..n, S)
  BY FS_NatSurjection
<1>2. PICK f \in [1..n -> S] : \A x \in S : \E i \in 1..n : f[i] = x
  BY <1>1 DEF ExistsSurjection, Surjection
<1> DEFINE A == {k \in Nat : k <= n => \E b \in Nat : \A i \in 1..k : f[i] <= b}
<1>3. 0 \in A
  <2>1. \A i \in 1..0 : f[i] <= 0
    OBVIOUS
  <2> QED
    BY <2>1
<1>4. ASSUME NEW k \in Nat, k \in A PROVE k + 1 \in A
  <2> SUFFICES ASSUME k + 1 <= n PROVE \E b \in Nat : \A i \in 1..(k + 1) : f[i] <= b
    OBVIOUS
  <2>1. k <= n /\ k + 1 \in 1..n
    OBVIOUS
  <2>2. PICK b \in Nat : \A i \in 1..k : f[i] <= b
    BY <1>4, <2>1
  <2>3. PICK c \in Nat : c = f[k + 1]
    BY <1>2, <2>1
  <2>4. \A i \in 1..k : f[i] \in Nat
    <3>1. \A i \in 1..k : i \in 1..n
      BY <2>1
    <3> QED
      BY <1>2, <3>1
  <2>5. ASSUME NEW i \in 1..(k + 1) PROVE f[i] <= b + c
    <3>1. CASE i = k + 1
      BY <2>3, <3>1
    <3>2. CASE i # k + 1
      <4>1. i \in 1..k
        BY <3>2
      <4> QED
        BY <2>2, <2>4, <4>1
    <3> QED
      BY <3>1, <3>2
  <2> QED
    BY <2>5
<1>5. n \in A
  <2> HIDE DEF A
  <2> QED
    BY <1>3, <1>4, SetInduction
<1>6. PICK b \in Nat : \A i \in 1..n : f[i] <= b
  <2>1. n <= n
    OBVIOUS
  <2> QED
    BY <1>5, <2>1
<1> QED
  BY <1>2, <1>6

(* Max finds the greatest of a finite set of naturals.                     *)
LEMMA MaxIsGreatest ==
    ASSUME NEW S \in SUBSET Nat, IsFiniteSet(S), S # {}
    PROVE  Max(S) \in S /\ \A y \in S : Max(S) >= y
<1> DEFINE T == {b \in Nat : \A x \in S : x <= b}
<1>1. T \in SUBSET Nat /\ T # {}
  BY FiniteIsBounded
<1>2. PICK b \in T : \A c \in T : b <= c
  <2> HIDE DEF T
  <2> QED
    BY <1>1, LeastNumber
<1>3. b \in S
  <2> SUFFICES ASSUME b \notin S PROVE FALSE
    OBVIOUS
  <2>1. PICK x \in S : TRUE
    OBVIOUS
  <2>2. b \in Nat /\ x \in Nat /\ x <= b /\ x # b
    BY <1>2, <2>1
  <2>3. b - 1 \in Nat
    BY <2>2
  <2>4. \A y \in S : y <= b - 1
    <3> TAKE y \in S
    <3>1. y \in Nat /\ y <= b /\ y # b
      BY <1>2
    <3> QED
      BY <2>2, <3>1
  <2>5. b - 1 \in T
    BY <2>3, <2>4
  <2> QED
    BY <1>2, <2>2, <2>5
<1>4. \A y \in S : b >= y
  BY <1>2
<1> QED
  BY <1>3, <1>4 DEF Max

(* InsertAt, by its places.                                                *)
LEMMA InsertAtFacts ==
    ASSUME NEW S, NEW s \in Seq(S), NEW e \in S, NEW i \in 1..(Len(s) + 1)
    PROVE  /\ InsertAt(s, i, e) \in Seq(S)
           /\ Len(InsertAt(s, i, e)) = Len(s) + 1
           /\ \A j \in 1..(Len(s) + 1) :
                InsertAt(s, i, e)[j] = IF j < i THEN s[j] ELSE IF j = i THEN e ELSE s[j - 1]
<1> DEFINE N == Len(s)
           a == SubSeq(s, 1, i - 1)
           b == SubSeq(s, i, N)
<1>0. N \in Nat /\ i \in Nat /\ i >= 1 /\ i <= N + 1
  BY LenProperties
<1>1. a \in Seq(S) /\ Len(a) = i - 1 /\ \A j \in 1..(i - 1) : a[j] = s[j]
  <2>1. \A j \in 1..(i - 1) : j \in 1..N /\ s[j] \in S
    BY <1>0, ElementOfSeq
  <2>2. \A j \in 1..((i - 1) - 1 + 1) : 1 + j - 1 = j
    BY <1>0
  <2>3. (i - 1) - 1 + 1 = i - 1 /\ (~(1 <= i - 1) => i - 1 = 0)
    BY <1>0
  <2> QED
    BY <1>0, <2>1, <2>2, <2>3, SubSeqProperties
<1>2. b \in Seq(S) /\ Len(b) = N - i + 1 /\ \A j \in 1..(N - i + 1) : b[j] = s[i + j - 1]
  <2>1. \A j \in i..N : j \in 1..N /\ s[j] \in S
    BY <1>0, ElementOfSeq
  <2>2. ~(i <= N) => N - i + 1 = 0
    BY <1>0
  <2> QED
    BY <1>0, <2>1, <2>2, SubSeqProperties
<1> DEFINE d == <<e>>
<1>3. d \in Seq(S) /\ Len(d) = 1 /\ d[1] = e
  OBVIOUS
<1> HIDE DEF a, b, d
<1> DEFINE c == a \o d
<1>4. c \in Seq(S) /\ Len(c) = i /\ \A j \in 1..i : c[j] = IF j < i THEN s[j] ELSE e
  <2>1. c \in Seq(S) /\ Len(c) = (i - 1) + 1
        /\ \A j \in 1..((i - 1) + 1) : c[j] = IF j <= i - 1 THEN a[j] ELSE d[j - (i - 1)]
    <3>1. /\ a \o d \in Seq(S) /\ Len(a \o d) = Len(a) + Len(d)
          /\ \A j \in 1..(Len(a) + Len(d)) :
               (a \o d)[j] = IF j <= Len(a) THEN a[j] ELSE d[j - Len(a)]
      BY <1>1, <1>3, ConcatProperties
    <3>2. Len(a) = i - 1 /\ Len(d) = 1
      BY <1>1, <1>3
    <3> QED
      BY <3>1, <3>2
  <2>2. (i - 1) + 1 = i
    BY <1>0
  <2>3. ASSUME NEW j \in 1..i PROVE c[j] = IF j < i THEN s[j] ELSE e
    <3>1. CASE j < i
      <4>1. j <= i - 1 /\ j \in 1..(i - 1)
        BY <1>0, <3>1
      <4> QED
        BY <1>1, <2>1, <2>2, <3>1, <4>1
    <3>2. CASE ~(j < i)
      <4>1. ~(j <= i - 1) /\ j - (i - 1) = 1
        BY <1>0, <3>2
      <4> QED
        BY <1>3, <2>1, <2>2, <3>2, <4>1
    <3> QED
      BY <3>1, <3>2
  <2> HIDE DEF c
  <2> QED
    BY <2>1, <2>2, <2>3
<1> HIDE DEF c
<1>5. c \o b \in Seq(S) /\ Len(c \o b) = i + (N - i + 1)
      /\ \A j \in 1..(i + (N - i + 1)) : (c \o b)[j] = IF j <= i THEN c[j] ELSE b[j - i]
  BY <1>2, <1>4, ConcatProperties
<1>6. i + (N - i + 1) = N + 1
  BY <1>0
<1>7. InsertAt(s, i, e) = c \o b
  BY DEF InsertAt, a, b, c, d
<1>8. ASSUME NEW j \in 1..(N + 1)
      PROVE  (c \o b)[j] = IF j < i THEN s[j] ELSE IF j = i THEN e ELSE s[j - 1]
  <2>1. CASE j <= i
    <3>1. j \in 1..i
      BY <1>0, <2>1
    <3> QED
      BY <1>0, <1>4, <1>5, <1>6, <2>1, <3>1
  <2>2. CASE ~(j <= i)
    <3>1. j - i \in 1..(N - i + 1) /\ i + (j - i) - 1 = j - 1 /\ ~(j < i) /\ j # i
      BY <1>0, <2>2
    <3> QED
      BY <1>2, <1>5, <1>6, <2>2, <3>1
  <2> QED
    BY <2>1, <2>2
<1> QED
  BY <1>5, <1>6, <1>7, <1>8

(* The two parts of a node's vector.                                       *)
LEMMA PartFacts ==
    ASSUME NEW S, NEW s \in Seq(S), NEW n \in 0..Len(s)
    PROVE  /\ First(s, n) \in Seq(S) /\ Len(First(s, n)) = n
           /\ \A j \in 1..n : First(s, n)[j] = s[j]
           /\ From(s, n + 1) \in Seq(S) /\ Len(From(s, n + 1)) = Len(s) - n
           /\ \A j \in 1..(Len(s) - n) : From(s, n + 1)[j] = s[n + j]
<1> DEFINE N == Len(s)
<1>0. N \in Nat /\ n \in Nat /\ n <= N
  BY LenProperties
<1>1. \A j \in 1..N : s[j] \in S
  BY ElementOfSeq
<1>2. SubSeq(s, 1, n) \in Seq(S) /\ Len(SubSeq(s, 1, n)) = n
      /\ \A j \in 1..n : SubSeq(s, 1, n)[j] = s[j]
  <2>1. \A j \in 1..n : s[j] \in S
    BY <1>0, <1>1
  <2>2. n - 1 + 1 = n /\ (~(1 <= n) => n = 0) /\ \A j \in 1..n : 1 + j - 1 = j
    BY <1>0
  <2> QED
    BY <1>0, <2>1, <2>2, SubSeqProperties
<1>3. SubSeq(s, n + 1, N) \in Seq(S) /\ Len(SubSeq(s, n + 1, N)) = N - n
      /\ \A j \in 1..(N - n) : SubSeq(s, n + 1, N)[j] = s[n + j]
  <2>1. \A j \in (n + 1)..N : s[j] \in S
    BY <1>0, <1>1
  <2>2. N - (n + 1) + 1 = N - n /\ (~(n + 1 <= N) => N - n = 0)
    BY <1>0
  <2>3. \A j \in 1..(N - n) : (n + 1) + j - 1 = n + j
    BY <1>0
  <2> DEFINE m == n + 1
  <2>4. m \in Int /\ N \in Int
    BY <1>0
  <2>5. \A j \in m..N : s[j] \in S
    BY <2>1
  <2> HIDE DEF m
  <2>6. /\ SubSeq(s, m, N) \in Seq(S)
        /\ Len(SubSeq(s, m, N)) = IF m <= N THEN N - m + 1 ELSE 0
        /\ \A j \in 1..(N - m + 1) : SubSeq(s, m, N)[j] = s[m + j - 1]
    BY <2>4, <2>5, SubSeqProperties
  <2> QED
    BY <2>2, <2>3, <2>6 DEF m
<1> QED
  BY <1>2, <1>3 DEF First, From

------------------------------------------------------------------------------
(* Nodes, and what makes one sound at page p of a file with the pages P.   *)
Node == [leaf : BOOLEAN, keys : Seq(Key), vals : Seq(Nat), kids : Seq(Nat),
         next : Nat \cup {NoPage}]

(* Every entry of a leaf is one of X, and a leaf comes before the next one *)
(* by the rank R; an inner node has one child more than keys, and lies     *)
(* higher than its children by the level H.                                *)
SoundAt(p, node, P, H, R, X) ==
    /\ node.leaf =>
         /\ Len(node.vals) = Len(node.keys)
         /\ \A i \in 1..Len(node.keys) : <<node.keys[i], node.vals[i]>> \in X
         /\ node.next # NoPage => node.next \in P /\ R[node.next] < R[p]
    /\ ~node.leaf =>
         /\ node.vals = <<>> /\ node.next = NoPage
         /\ Len(node.kids) = Len(node.keys) + 1
         /\ \A i \in 1..Len(node.kids) : node.kids[i] \in P /\ H[node.kids[i]] < H[p]

(* The child a search goes on to is there, and it is the right one.        *)
LEMMA ChildIndexFacts ==
    ASSUME NEW node, node.keys \in Seq(Key), NEW key \in Key
    PROVE  /\ ChildIndex(node, key) \in 1..(Len(node.keys) + 1)
           /\ \A j \in 1..(ChildIndex(node, key) - 1) : node.keys[j] <= key
           /\ ChildIndex(node, key) <= Len(node.keys) => key < node.keys[ChildIndex(node, key)]
<1> DEFINE N == Len(node.keys)
           S == {i \in 1..N : key < node.keys[i]} \cup {N + 1}
<1>0. N \in Nat /\ key \in Nat /\ \A j \in 1..N : node.keys[j] \in Nat
  BY LenProperties, ElementOfSeq, BTreeAssumption
<1>1. S \in SUBSET Nat /\ S # {} /\ \A i \in S : i \in 1..(N + 1)
  BY <1>0
<1>2. PICK c \in S : c = Min(S) /\ \A y \in S : c <= y
  <2> HIDE DEF S
  <2> QED
    BY <1>1, MinIsLeast
<1>3. c \in 1..(N + 1)
  BY <1>1
<1>4. \A j \in 1..(c - 1) : node.keys[j] <= key
  <2> TAKE j \in 1..(c - 1)
  <2>1. j \in 1..N /\ ~(c <= j)
    BY <1>0, <1>3
  <2>2. j \notin S
    BY <1>2, <2>1
  <2>3. ~(key < node.keys[j])
    BY <2>1, <2>2
  <2> QED
    BY <1>0, <2>1, <2>3
<1>5. c <= N => key < node.keys[c]
  BY <1>0, <1>2
<1>6. ChildIndex(node, key) = c
  BY <1>2 DEF ChildIndex
<1> QED
  BY <1>3, <1>4, <1>5, <1>6

(* The place of a new entry.                                               *)
Place(node, key) == Max({i \in 1..Len(node.keys) : node.keys[i] <= key} \cup {0})

(* It lies behind every key that is not greater.                           *)
LEMMA PlaceFacts ==
    ASSUME NEW node, node.keys \in Seq(Key), NEW key \in Key
    PROVE  /\ Place(node, key) \in 0..Len(node.keys)
           /\ Place(node, key) # 0 => node.keys[Place(node, key)] <= key
           /\ \A j \in (Place(node, key) + 1)..Len(node.keys) : key < node.keys[j]
<1> DEFINE N == Len(node.keys)
           S == {i \in 1..N : node.keys[i] <= key} \cup {0}
<1>0. N \in Nat /\ key \in Nat /\ \A j \in 1..N : node.keys[j] \in Nat
  BY LenProperties, ElementOfSeq, BTreeAssumption
<1>1. S \in SUBSET Nat /\ S # {} /\ \A i \in S : i \in 0..N
  BY <1>0
<1>2. IsFiniteSet(S)
  <2>1. S \subseteq 0..N /\ 0 \in Int /\ N \in Int
    BY <1>0, <1>1
  <2> HIDE DEF S
  <2>2. IsFiniteSet(0..N)
    BY <2>1, FS_Interval
  <2> QED
    BY <2>1, <2>2, FS_Subset
<1>3. PICK c \in S : c = Max(S) /\ \A y \in S : c >= y
  <2> HIDE DEF S
  <2> QED
    BY <1>1, <1>2, MaxIsGreatest
<1>4. c \in 0..N
  BY <1>1
<1>5. \A j \in (c + 1)..N : key < node.keys[j]
  <2> TAKE j \in (c + 1)..N
  <2>1. j \in 1..N /\ ~(c >= j)
    BY <1>0, <1>4
  <2>2. ~(node.keys[j] <= key)
    BY <1>3, <2>1
  <2> QED
    BY <1>0, <2>1, <2>2
<1>6. c # 0 => node.keys[c] <= key
  OBVIOUS
<1>7. Place(node, key) = c
  BY <1>3 DEF Place
<1> QED
  BY <1>4, <1>5, <1>6, <1>7

(* A leaf with one more entry is sound.                                    *)
LEMMA WithEntrySound ==
    ASSUME NEW p, NEW node \in Node, node.leaf, NEW P, NEW H, NEW R, NEW X,
           SoundAt(p, node, P, H, R, X),
           NEW key \in Key, NEW val \in Nat, <<key, val>> \in X
    PROVE  /\ WithEntry(node, key, val) \in Node
           /\ WithEntry(node, key, val).leaf
           /\ SoundAt(p, WithEntry(node, key, val), P, H, R, X)
<1> DEFINE N  == Len(node.keys)
           i  == Place(node, key) + 1
           ks == InsertAt(node.keys, i, key)
           vs == InsertAt(node.vals, i, val)
           new == [node EXCEPT !.keys = ks, !.vals = vs]
<1>0. /\ node.keys \in Seq(Key) /\ node.vals \in Seq(Nat)
      /\ N \in Nat /\ Len(node.vals) = N
      /\ \A j \in 1..N : <<node.keys[j], node.vals[j]>> \in X
      /\ node.next # NoPage => node.next \in P /\ R[node.next] < R[p]
  BY LenProperties DEF Node, SoundAt
<1>1. i \in 1..(N + 1)
  BY <1>0, PlaceFacts
<1> HIDE DEF i
<1>2. /\ ks \in Seq(Key) /\ Len(ks) = N + 1
      /\ \A j \in 1..(N + 1) :
           ks[j] = IF j < i THEN node.keys[j] ELSE IF j = i THEN key ELSE node.keys[j - 1]
  <2>1. PICK s \in Seq(Key) : s = node.keys /\ Len(s) = N
    BY <1>0
  <2>2. i \in 1..(Len(s) + 1)
    BY <1>1, <2>1
  <2>3. /\ InsertAt(s, i, key) \in Seq(Key) /\ Len(InsertAt(s, i, key)) = Len(s) + 1
        /\ \A j \in 1..(Len(s) + 1) :
             InsertAt(s, i, key)[j] = IF j < i THEN s[j] ELSE IF j = i THEN key ELSE s[j - 1]
    BY <2>2, InsertAtFacts
  <2> QED
    BY <2>1, <2>3
<1>3. /\ vs \in Seq(Nat) /\ Len(vs) = N + 1
      /\ \A j \in 1..(N + 1) :
           vs[j] = IF j < i THEN node.vals[j] ELSE IF j = i THEN val ELSE node.vals[j - 1]
  <2>1. PICK s \in Seq(Nat) : s = node.vals /\ Len(s) = N
    BY <1>0
  <2>2. i \in 1..(Len(s) + 1)
    BY <1>1, <2>1
  <2>3. /\ InsertAt(s, i, val) \in Seq(Nat) /\ Len(InsertAt(s, i, val)) = Len(s) + 1
        /\ \A j \in 1..(Len(s) + 1) :
             InsertAt(s, i, val)[j] = IF j < i THEN s[j] ELSE IF j = i THEN val ELSE s[j - 1]
    <3>1. PICK T : T = Nat
      OBVIOUS
    <3>2. s \in Seq(T) /\ val \in T
      BY <3>1
    <3>3. InsertAt(s, i, val) \in Seq(T) /\ Len(InsertAt(s, i, val)) = Len(s) + 1
          /\ \A j \in 1..(Len(s) + 1) :
               InsertAt(s, i, val)[j] = IF j < i THEN s[j] ELSE IF j = i THEN val ELSE s[j - 1]
      BY <2>2, <3>2, InsertAtFacts
    <3> QED
      BY <3>1, <3>3
  <2> QED
    BY <2>1, <2>3
<1>4. WithEntry(node, key, val) = new
  BY DEF WithEntry, Place, i
<1> HIDE DEF ks, vs
<1>5. ASSUME NEW j \in 1..(N + 1) PROVE <<ks[j], vs[j]>> \in X
  <2>1. CASE j < i
    <3>1. j \in 1..N
      BY <1>0, <1>1, <2>1
    <3> QED
      BY <1>0, <1>2, <1>3, <2>1, <3>1
  <2>2. CASE j = i
    <3>1. ~(j < i)
      BY <1>1, <2>2
    <3> QED
      BY <1>2, <1>3, <2>2, <3>1
  <2>3. CASE ~(j < i) /\ j # i
    <3>1. j - 1 \in 1..N
      BY <1>0, <1>1, <2>3
    <3> QED
      BY <1>0, <1>2, <1>3, <2>3, <3>1
  <2> QED
    BY <2>1, <2>2, <2>3
<1>6. /\ new \in Node /\ new.leaf /\ new.keys = ks /\ new.vals = vs
      /\ new.next = node.next
  BY <1>2, <1>3 DEF Node
<1> HIDE DEF new
<1>7. SoundAt(p, new, P, H, R, X)
  BY <1>0, <1>2, <1>3, <1>5, <1>6 DEF SoundAt
<1> QED
  BY <1>4, <1>6, <1>7

(* An inner node with one more child is sound.                             *)
LEMMA WithChildSound ==
    ASSUME NEW p, NEW node \in Node, ~node.leaf, NEW P, NEW H, NEW R, NEW X,
           SoundAt(p, node, P, H, R, X),
           NEW key \in Key, NEW up, up.key \in Key,
           up.page \in Nat, up.page \in P, H[up.page] < H[p]
    PROVE  /\ WithChild(node, key, up) \in Node
           /\ ~WithChild(node, key, up).leaf
           /\ SoundAt(p, WithChild(node, key, up), P, H, R, X)
<1> DEFINE N  == Len(node.keys)
           i  == ChildIndex(node, key)
           ks == InsertAt(node.keys, i, up.key)
           cs == InsertAt(node.kids, i + 1, up.page)
           new == [node EXCEPT !.keys = ks, !.kids = cs]
<1>0. /\ node.keys \in Seq(Key) /\ node.kids \in Seq(Nat)
      /\ N \in Nat /\ Len(node.kids) = N + 1
      /\ \A j \in 1..(N + 1) : node.kids[j] \in P /\ H[node.kids[j]] < H[p]
      /\ node.vals = <<>> /\ node.next = NoPage
  BY LenProperties DEF Node, SoundAt
<1>1. i \in 1..(N + 1)
  BY <1>0, ChildIndexFacts
<1> HIDE DEF i
<1>2. ks \in Seq(Key) /\ Len(ks) = N + 1
  BY <1>0, <1>1, InsertAtFacts
<1>3. /\ cs \in Seq(Nat) /\ Len(cs) = N + 2
      /\ \A j \in 1..(N + 2) :
           cs[j] = IF j < i + 1 THEN node.kids[j] ELSE IF j = i + 1 THEN up.page
                   ELSE node.kids[j - 1]
  <2>1. PICK s \in Seq(Nat) : s = node.kids /\ Len(s) = N + 1
    BY <1>0
  <2>2. PICK k : k = i + 1
    OBVIOUS
  <2>3. PICK e \in Nat : e = up.page
    OBVIOUS
  <2>4. k \in 1..(Len(s) + 1) /\ Len(s) + 1 = N + 2
    BY <1>0, <1>1, <2>1, <2>2
  <2>5. /\ InsertAt(s, k, e) \in Seq(Nat) /\ Len(InsertAt(s, k, e)) = Len(s) + 1
        /\ \A j \in 1..(Len(s) + 1) :
             InsertAt(s, k, e)[j] = IF j < k THEN s[j] ELSE IF j = k THEN e ELSE s[j - 1]
    <3>1. PICK T : T = Nat
      OBVIOUS
    <3>2. s \in Seq(T) /\ e \in T
      BY <3>1
    <3>3. InsertAt(s, k, e) \in Seq(T) /\ Len(InsertAt(s, k, e)) = Len(s) + 1
          /\ \A j \in 1..(Len(s) + 1) :
               InsertAt(s, k, e)[j] = IF j < k THEN s[j] ELSE IF j = k THEN e ELSE s[j - 1]
      BY <2>4, <3>2, InsertAtFacts
    <3> QED
      BY <3>1, <3>3
  <2> QED
    BY <2>1, <2>2, <2>3, <2>4, <2>5
<1>4. WithChild(node, key, up) = new
  BY DEF WithChild, i
<1> HIDE DEF ks, cs
<1>5. ASSUME NEW j \in 1..(N + 2) PROVE cs[j] \in P /\ H[cs[j]] < H[p]
  <2>1. CASE j < i + 1
    <3>1. j \in 1..(N + 1)
      BY <1>0, <1>1, <2>1
    <3> QED
      BY <1>0, <1>3, <2>1, <3>1
  <2>2. CASE j = i + 1
    <3>1. ~(j < i + 1)
      BY <1>1, <2>2
    <3> QED
      BY <1>3, <2>2, <3>1
  <2>3. CASE ~(j < i + 1) /\ j # i + 1
    <3>1. j - 1 \in 1..(N + 1)
      BY <1>0, <1>1, <2>3
    <3> QED
      BY <1>0, <1>3, <2>3, <3>1
  <2> QED
    BY <2>1, <2>2, <2>3
<1>6. /\ new \in Node /\ ~new.leaf /\ new.keys = ks /\ new.kids = cs
      /\ new.next = NoPage /\ new.vals = <<>>
  BY <1>0, <1>2, <1>3 DEF Node
<1> HIDE DEF new
<1>7. Len(new.kids) = Len(new.keys) + 1
  BY <1>0, <1>2, <1>3, <1>6
<1>8. SoundAt(p, new, P, H, R, X)
  BY <1>3, <1>5, <1>6, <1>7 DEF SoundAt
<1> QED
  BY <1>4, <1>6, <1>8

------------------------------------------------------------------------------
(* Splitting.                                                              *)

(* PartFacts for vectors of numbers.                                       *)
LEMMA NumberParts ==
    ASSUME NEW s \in Seq(Nat), NEW n \in 0..Len(s)
    PROVE  /\ First(s, n) \in Seq(Nat) /\ Len(First(s, n)) = n
           /\ \A j \in 1..n : First(s, n)[j] = s[j]
           /\ From(s, n + 1) \in Seq(Nat) /\ Len(From(s, n + 1)) = Len(s) - n
           /\ \A j \in 1..(Len(s) - n) : From(s, n + 1)[j] = s[n + j]
<1>1. PICK T : T = Nat
  OBVIOUS
<1>2. s \in Seq(T)
  BY <1>1
<1>3. /\ First(s, n) \in Seq(T) /\ Len(First(s, n)) = n
      /\ \A j \in 1..n : First(s, n)[j] = s[j]
      /\ From(s, n + 1) \in Seq(T) /\ Len(From(s, n + 1)) = Len(s) - n
      /\ \A j \in 1..(Len(s) - n) : From(s, n + 1)[j] = s[n + j]
  BY <1>2, PartFacts
<1> QED
  BY <1>1, <1>3

(* A node that is split has a key on either side of its middle.            *)
LEMMA MiddleInside ==
    ASSUME NEW node, node.keys \in Seq(Key), ~(Len(node.keys) <= ORDER)
    PROVE  /\ Middle(node) \in Nat /\ 1 <= Middle(node)
           /\ Middle(node) + 1 <= Len(node.keys)
<1> DEFINE N == Len(node.keys)
<1>1. N \in Nat /\ ORDER \in Nat /\ ORDER # 0 /\ ORDER # 1
  BY LenProperties, BTreeAssumption
<1>2. N >= 3
  BY <1>1
<1> HIDE DEF N
<1>3. N \div 2 \in Nat /\ 1 <= N \div 2 /\ (N \div 2) + 1 <= N
  BY <1>1, <1>2
<1> QED
  BY <1>3 DEF Middle, N

(* Both halves of a leaf are sound once the new page has its rank.         *)
LEMMA LeafHalvesSound ==
    ASSUME NEW p, NEW node \in Node, node.leaf, ~(Len(node.keys) <= ORDER),
           NEW P, NEW H, NEW R, NEW X, SoundAt(p, node, P, H, R, X),
           NEW new \in Nat, new \in P, R[new] < R[p],
           node.next # NoPage => R[node.next] < R[new]
    PROVE  /\ LeafHalves(node, new).left \in Node /\ LeafHalves(node, new).right \in Node
           /\ LeafHalves(node, new).key \in Key
           /\ SoundAt(p, LeafHalves(node, new).left, P, H, R, X)
           /\ SoundAt(new, LeafHalves(node, new).right, P, H, R, X)
<1> DEFINE N == Len(node.keys)
           m == Middle(node)
           a == First(node.keys, m)
           b == First(node.vals, m)
           c == From(node.keys, m + 1)
           d == From(node.vals, m + 1)
<1>0. /\ node.keys \in Seq(Key) /\ node.vals \in Seq(Nat)
      /\ N \in Nat /\ Len(node.vals) = N
      /\ \A j \in 1..N : <<node.keys[j], node.vals[j]>> \in X
      /\ node.next # NoPage => node.next \in P
      /\ node.next \in Nat \cup {NoPage}
  BY LenProperties DEF Node, SoundAt
<1>1. m \in Nat /\ 1 <= m /\ m + 1 <= N
  BY <1>0, MiddleInside
<1>2. m \in 0..N
  BY <1>0, <1>1
<1> HIDE DEF m
<1>3. /\ a \in Seq(Key) /\ Len(a) = m /\ \A j \in 1..m : a[j] = node.keys[j]
      /\ c \in Seq(Key) /\ Len(c) = N - m /\ \A j \in 1..(N - m) : c[j] = node.keys[m + j]
  <2>0. PICK s \in Seq(Key) : s = node.keys
    BY <1>0
  <2>1. \A n \in 0..Len(s) :
          /\ First(s, n) \in Seq(Key) /\ Len(First(s, n)) = n
          /\ \A j \in 1..n : First(s, n)[j] = s[j]
          /\ From(s, n + 1) \in Seq(Key) /\ Len(From(s, n + 1)) = Len(s) - n
          /\ \A j \in 1..(Len(s) - n) : From(s, n + 1)[j] = s[n + j]
    BY PartFacts
  <2> QED
    BY <1>2, <2>0, <2>1
<1>4. /\ b \in Seq(Nat) /\ Len(b) = m /\ \A j \in 1..m : b[j] = node.vals[j]
      /\ d \in Seq(Nat) /\ Len(d) = N - m /\ \A j \in 1..(N - m) : d[j] = node.vals[m + j]
  <2>1. PICK s : s = node.vals
    OBVIOUS
  <2>2. s \in Seq(Nat) /\ Len(s) = N /\ m \in 0..Len(s)
    BY <1>0, <1>2, <2>1
  <2>3. /\ First(s, m) \in Seq(Nat) /\ Len(First(s, m)) = m
        /\ \A j \in 1..m : First(s, m)[j] = s[j]
        /\ From(s, m + 1) \in Seq(Nat) /\ Len(From(s, m + 1)) = Len(s) - m
        /\ \A j \in 1..(Len(s) - m) : From(s, m + 1)[j] = s[m + j]
    BY <2>2, NumberParts
  <2> QED
    BY <2>1, <2>2, <2>3
<1> DEFINE l == Leaf(a, b, new)
           r == Leaf(c, d, node.next)
<1>5. /\ LeafHalves(node, new).left = l /\ LeafHalves(node, new).right = r
      /\ LeafHalves(node, new).key = node.keys[m + 1]
  BY DEF LeafHalves, m
<1> HIDE DEF a, b, c, d
<1>6. <<>> \in Seq(Nat)
  BY EmptySeq
<1>7. /\ l \in Node /\ l.leaf /\ l.keys = a /\ l.vals = b /\ l.next = new
      /\ r \in Node /\ r.leaf /\ r.keys = c /\ r.vals = d /\ r.next = node.next
  BY <1>0, <1>3, <1>4, <1>6 DEF Node, Leaf
<1> HIDE DEF l, r
<1>8. node.keys[m + 1] \in Key
  BY <1>0, <1>1, ElementOfSeq
<1>9. \A j \in 1..m : <<a[j], b[j]>> \in X
  <2> TAKE j \in 1..m
  <2>1. j \in 1..N
    BY <1>0, <1>2
  <2> QED
    BY <1>0, <1>3, <1>4, <2>1
<1>10. \A j \in 1..(N - m) : <<c[j], d[j]>> \in X
  <2> TAKE j \in 1..(N - m)
  <2>1. m + j \in 1..N
    BY <1>0, <1>2
  <2> QED
    BY <1>0, <1>3, <1>4, <2>1
<1>11. SoundAt(p, l, P, H, R, X)
  BY <1>3, <1>4, <1>7, <1>9 DEF SoundAt
<1>12. SoundAt(new, r, P, H, R, X)
  BY <1>0, <1>3, <1>4, <1>7, <1>10 DEF SoundAt
<1> QED
  BY <1>5, <1>7, <1>8, <1>11, <1>12

(* Both halves of an inner node are sound once the new page has its level. *)
LEMMA InnerHalvesSound ==
    ASSUME NEW p, NEW node \in Node, ~node.leaf, ~(Len(node.keys) <= ORDER),
           NEW P, NEW H, NEW R, NEW X, SoundAt(p, node, P, H, R, X),
           NEW new, \A x \in P : H[x] < H[p] => H[x] < H[new]
    PROVE  /\ InnerHalves(node).left \in Node /\ InnerHalves(node).right \in Node
           /\ InnerHalves(node).key \in Key
           /\ SoundAt(p, InnerHalves(node).left, P, H, R, X)
           /\ SoundAt(new, InnerHalves(node).right, P, H, R, X)
<1> DEFINE N == Len(node.keys)
           m == Middle(node)
           a == First(node.keys, m)
           b == First(node.kids, m + 1)
           c == From(node.keys, m + 2)
           d == From(node.kids, m + 2)
<1>0. /\ node.keys \in Seq(Key) /\ node.kids \in Seq(Nat)
      /\ N \in Nat /\ Len(node.kids) = N + 1
      /\ \A j \in 1..(N + 1) : node.kids[j] \in P /\ H[node.kids[j]] < H[p]
  BY LenProperties DEF Node, SoundAt
<1>1. m \in Nat /\ 1 <= m /\ m + 1 <= N
  BY <1>0, MiddleInside
<1> HIDE DEF m
<1>2. PICK k \in Nat : k = m + 1 /\ k + 1 = m + 2 /\ k <= N
  BY <1>1
<1>3. m \in 0..N /\ k \in 0..N /\ k \in 0..(N + 1) /\ k \in 1..N
  BY <1>0, <1>1, <1>2
<1>4. a \in Seq(Key) /\ Len(a) = m
  <2>0. PICK s \in Seq(Key) : s = node.keys
    BY <1>0
  <2>1. \A n \in 0..Len(s) : First(s, n) \in Seq(Key) /\ Len(First(s, n)) = n
    BY PartFacts
  <2> QED
    BY <1>3, <2>0, <2>1
<1>5. c \in Seq(Key) /\ Len(c) = N - k
  <2>0. PICK s \in Seq(Key) : s = node.keys
    BY <1>0
  <2>1. \A n \in 0..Len(s) : From(s, n + 1) \in Seq(Key) /\ Len(From(s, n + 1)) = Len(s) - n
    BY PartFacts
  <2>2. From(s, k + 1) \in Seq(Key) /\ Len(From(s, k + 1)) = N - k
    BY <1>3, <2>0, <2>1
  <2> QED
    BY <1>2, <2>0, <2>2
<1>6. /\ b \in Seq(Nat) /\ Len(b) = k /\ \A j \in 1..k : b[j] = node.kids[j]
      /\ d \in Seq(Nat) /\ Len(d) = (N + 1) - k
      /\ \A j \in 1..((N + 1) - k) : d[j] = node.kids[k + j]
  <2>1. PICK s : s = node.kids
    OBVIOUS
  <2>2. s \in Seq(Nat) /\ Len(s) = N + 1 /\ k \in 0..Len(s)
    BY <1>0, <1>3, <2>1
  <2>3. /\ First(s, k) \in Seq(Nat) /\ Len(First(s, k)) = k
        /\ \A j \in 1..k : First(s, k)[j] = s[j]
        /\ From(s, k + 1) \in Seq(Nat) /\ Len(From(s, k + 1)) = Len(s) - k
        /\ \A j \in 1..(Len(s) - k) : From(s, k + 1)[j] = s[k + j]
    BY <2>2, NumberParts
  <2> QED
    BY <1>2, <2>1, <2>2, <2>3
<1> DEFINE l == Inner(a, b)
           r == Inner(c, d)
<1>7. /\ InnerHalves(node).left = l /\ InnerHalves(node).right = r
      /\ InnerHalves(node).key = node.keys[m + 1]
  BY DEF InnerHalves, m
<1> HIDE DEF a, b, c, d
<1>8. <<>> \in Seq(Nat)
  BY EmptySeq
<1>9. /\ l \in Node /\ ~l.leaf /\ l.keys = a /\ l.kids = b /\ l.vals = <<>> /\ l.next = NoPage
      /\ r \in Node /\ ~r.leaf /\ r.keys = c /\ r.kids = d /\ r.vals = <<>> /\ r.next = NoPage
  BY <1>4, <1>5, <1>6, <1>8 DEF Node, Inner
<1> HIDE DEF l, r
<1>10. node.keys[m + 1] \in Key
  BY <1>0, <1>2, <1>3, ElementOfSeq
<1>11. \A j \in 1..k : b[j] \in P /\ H[b[j]] < H[p]
  <2> TAKE j \in 1..k
  <2>1. j \in 1..(N + 1)
    BY <1>0, <1>3
  <2> QED
    BY <1>0, <1>6, <2>1
<1>12. \A j \in 1..((N + 1) - k) : d[j] \in P /\ H[d[j]] < H[new]
  <2> TAKE j \in 1..((N + 1) - k)
  <2>1. k + j \in 1..(N + 1)
    BY <1>0, <1>3
  <2> QED
    BY <1>0, <1>6, <2>1
<1>13. Len(b) = Len(a) + 1 /\ Len(d) = Len(c) + 1
  BY <1>0, <1>2, <1>3, <1>4, <1>5, <1>6
<1>14. SoundAt(p, l, P, H, R, X)
  BY <1>6, <1>9, <1>11, <1>13 DEF SoundAt
<1>15. SoundAt(new, r, P, H, R, X)
  BY <1>6, <1>9, <1>12, <1>13 DEF SoundAt
<1> QED
  BY <1>7, <1>9, <1>10, <1>14, <1>15

------------------------------------------------------------------------------
(* The inductive invariant.                                                *)
TypeOK ==
    /\ nodes \in [Page -> Node]
    /\ Page \in SUBSET Nat /\ IsFiniteSet(Page) /\ root \in Page
    /\ given \in SUBSET (Key \X Nat) /\ IsFiniteSet(given)
    /\ breaks \in Nat

(* Levels and ranks that make every page sound.                            *)
Measures(H, R) ==
    /\ H \in [Nat -> Nat] /\ R \in [Nat -> Nat]
    /\ 0 \in Page /\ H[0] = 0
    /\ \A p \in Page : SoundAt(p, nodes[p], Page, H, R, given)

IInv == TypeOK /\ \E H, R : Measures(H, R)

(* What a sound inner page leads to.                                       *)
LEMMA ChildBelow ==
    ASSUME TypeOK, NEW H, NEW R, Measures(H, R), NEW key \in Key,
           NEW p \in Page, ~nodes[p].leaf
    PROVE  ChildFor(nodes[p], key) \in Page /\ H[ChildFor(nodes[p], key)] < H[p]
<1>1. nodes[p] \in Node /\ SoundAt(p, nodes[p], Page, H, R, given)
  BY DEF TypeOK, Measures
<1>2. nodes[p].keys \in Seq(Key)
  BY <1>1 DEF Node
<1>3. ChildIndex(nodes[p], key) \in 1..(Len(nodes[p].keys) + 1)
  BY <1>2, ChildIndexFacts
<1> QED
  BY <1>1, <1>3 DEF SoundAt, ChildFor

(* The levels of the pages in a tree have a bound.                         *)
LEMMA LevelsBounded ==
    ASSUME TypeOK, NEW H \in [Nat -> Nat]
    PROVE  \E b \in Nat : \A p \in Page : H[p] <= b
<1> DEFINE S == {H[p] : p \in Page}
<1>1. S \in SUBSET Nat /\ IsFiniteSet(S)
  <2> DEFINE f == [p \in Page |-> H[p]]
  <2>1. S \in SUBSET Nat /\ IsFiniteSet(Page)
    BY DEF TypeOK
  <2>2. f \in Surjection(Page, S)
    BY DEF Surjection
  <2> HIDE DEF f, S
  <2> QED
    BY <2>1, <2>2, FS_Surjection
<1>2. \E b \in Nat : \A x \in S : x <= b
  <2> HIDE DEF S
  <2> QED
    BY <1>1, FiniteIsBounded
<1> QED
  BY <1>2

(* The table of all paths down for a key: the recursive function of Path.  *)
downTable(f, key) ==
    f = [p \in Page |-> IF nodes[p].leaf THEN <<p>>
                        ELSE <<p>> \o f[ChildFor(nodes[p], key)]]

LEMMA PathIsTable ==
    ASSUME NEW key
    PROVE  Path(key) = (CHOOSE f : downTable(f, key))[root]
  BY DEF Path, downTable

(* It exists, because levels fall on the way down.                         *)
LEMMA DownExists ==
    ASSUME TypeOK, NEW H, NEW R, Measures(H, R), NEW key \in Key
    PROVE  \E f : downTable(f, key)
<1> DEFINE Step(f, p) == IF nodes[p].leaf THEN <<p>>
                         ELSE <<p>> \o f[ChildFor(nodes[p], key)]
           Upto(f, n) == \A p \in Page : H[p] < n => f[p] = Step(f, p)
           A == {n \in Nat : \E f : Upto(f, n)}
<1>0. H \in [Nat -> Nat] /\ \A p \in Page : H[p] \in Nat
  BY DEF Measures, TypeOK
<1>1. 0 \in A
  <2>1. \A p \in Page : ~(H[p] < 0)
    BY <1>0
  <2>2. Upto(<<>>, 0)
    BY <2>1
  <2> QED
    BY <2>2
<1>2. ASSUME NEW n \in Nat, n \in A PROVE n + 1 \in A
  <2>1. PICK f : Upto(f, n)
    BY <1>2
  <2> DEFINE g == [p \in Page |-> IF H[p] < n THEN f[p] ELSE Step(f, p)]
  <2>2. ASSUME NEW p \in Page, H[p] < n + 1 PROVE g[p] = Step(g, p)
    <3>1. g[p] = Step(f, p)
      BY <2>1
    <3>2. CASE nodes[p].leaf
      BY <3>1, <3>2
    <3>3. CASE ~nodes[p].leaf
      <4>1. PICK c \in Page : c = ChildFor(nodes[p], key) /\ H[c] < H[p]
        BY <3>3, ChildBelow
      <4>2. H[c] < n
        BY <1>0, <2>2, <4>1
      <4>3. g[c] = f[c]
        BY <4>2
      <4> QED
        BY <3>1, <3>3, <4>1, <4>3
    <3> QED
      BY <3>2, <3>3
  <2>3. \E h : Upto(h, n + 1)
    <3> HIDE DEF g
    <3>1. Upto(g, n + 1)
      BY <2>2
    <3> HIDE DEF Upto
    <3> QED
      BY <3>1
  <2> QED
    BY <2>3
<1>3. \A n \in Nat : n \in A
  <2> HIDE DEF A
  <2> QED
    BY <1>1, <1>2, SetInduction
<1>4. PICK b \in Nat : \A p \in Page : H[p] <= b
  BY <1>0, LevelsBounded
<1>5. b + 1 \in Nat /\ \A p \in Page : H[p] < b + 1
  BY <1>0, <1>4
<1>6. PICK f : Upto(f, b + 1)
  BY <1>3, <1>5
<1> DEFINE g == [p \in Page |-> f[p]]
<1>7. \A p \in Page : f[p] = Step(f, p)
  BY <1>5, <1>6
<1>8. \A p \in Page : ~nodes[p].leaf => g[ChildFor(nodes[p], key)] = f[ChildFor(nodes[p], key)]
  BY ChildBelow
<1>9. downTable(g, key)
  BY <1>7, <1>8 DEF downTable
<1> QED
  BY <1>9

(* A way down from page p to a leaf.                                       *)
WayDown(s, p, key) ==
    /\ s \in Seq(Page) /\ Len(s) >= 1 /\ s[1] = p
    /\ nodes[s[Len(s)]].leaf
    /\ \A i \in 1..(Len(s) - 1) :
         ~nodes[s[i]].leaf /\ s[i + 1] = ChildFor(nodes[s[i]], key)

(* One page more on top of a way down.                                     *)
LEMMA WayLonger ==
    ASSUME NEW p \in Page, ~nodes[p].leaf, NEW key, NEW s,
           WayDown(s, ChildFor(nodes[p], key), key)
    PROVE  WayDown(<<p>> \o s, p, key)
<1> DEFINE t == <<p>>
           r == t \o s
<1>1. t \in Seq(Page) /\ Len(t) = 1 /\ t[1] = p
  OBVIOUS
<1>2. s \in Seq(Page) /\ Len(s) \in Nat /\ Len(s) >= 1 /\ s[1] = ChildFor(nodes[p], key)
      /\ nodes[s[Len(s)]].leaf
      /\ \A i \in 1..(Len(s) - 1) :
           ~nodes[s[i]].leaf /\ s[i + 1] = ChildFor(nodes[s[i]], key)
  BY LenProperties DEF WayDown
<1> HIDE DEF t
<1>3. /\ r \in Seq(Page) /\ Len(r) = Len(t) + Len(s)
      /\ \A i \in 1..(Len(t) + Len(s)) : r[i] = IF i <= Len(t) THEN t[i] ELSE s[i - Len(t)]
  <2>1. PICK Q : Q = Page
    OBVIOUS
  <2>2. t \in Seq(Q) /\ s \in Seq(Q)
    BY <1>1, <1>2, <2>1
  <2>3. /\ t \o s \in Seq(Q) /\ Len(t \o s) = Len(t) + Len(s)
        /\ \A i \in 1..(Len(t) + Len(s)) :
             (t \o s)[i] = IF i <= Len(t) THEN t[i] ELSE s[i - Len(t)]
    BY <2>2, ConcatProperties
  <2> QED
    BY <2>1, <2>3
<1>4. /\ Len(r) = 1 + Len(s)
      /\ \A i \in 1..(1 + Len(s)) : r[i] = IF i <= 1 THEN t[i] ELSE s[i - 1]
  BY <1>1, <1>3
<1> HIDE DEF r
<1>5. r[1] = p /\ Len(r) >= 1
  BY <1>1, <1>2, <1>4
<1>6. r[Len(r)] = s[Len(s)]
  <2>1. Len(r) \in 1..(1 + Len(s)) /\ ~(Len(r) <= 1) /\ Len(r) - 1 = Len(s)
    BY <1>2, <1>4
  <2> QED
    BY <1>4, <2>1
<1>7. ASSUME NEW i \in 1..(Len(r) - 1)
      PROVE  ~nodes[r[i]].leaf /\ r[i + 1] = ChildFor(nodes[r[i]], key)
  <2>1. /\ i + 1 \in 1..(1 + Len(s)) /\ ~(i + 1 <= 1) /\ (i + 1) - 1 = i
        /\ i \in 1..(1 + Len(s))
    BY <1>2, <1>4
  <2>2. r[i + 1] = s[i]
    BY <1>4, <2>1
  <2>3. CASE i = 1
    BY <1>2, <1>5, <2>2, <2>3
  <2>4. CASE i # 1
    <3>1. ~(i <= 1) /\ i - 1 \in 1..(Len(s) - 1) /\ (i - 1) + 1 = i
      BY <1>2, <1>4, <2>4
    <3>2. r[i] = s[i - 1]
      BY <1>4, <2>1, <3>1
    <3> QED
      BY <1>2, <2>2, <3>1, <3>2
  <2> QED
    BY <2>3, <2>4
<1> QED
  BY <1>2, <1>3, <1>5, <1>6, <1>7 DEF WayDown, r, t

(* The path for a key is the way down from the root.                       *)
LEMMA PathGoesDown ==
    ASSUME TypeOK, NEW H, NEW R, Measures(H, R), NEW key \in Key
    PROVE  WayDown(Path(key), root, key)
<1> DEFINE f == CHOOSE g : downTable(g, key)
           A == {n \in Nat : \A p \in Page : H[p] < n => WayDown(f[p], p, key)}
<1>0. H \in [Nat -> Nat] /\ \A p \in Page : H[p] \in Nat
  BY DEF Measures, TypeOK
<1>1. downTable(f, key)
  BY DownExists
<1> HIDE DEF f
<1>2. \A p \in Page : f[p] = IF nodes[p].leaf THEN <<p>>
                             ELSE <<p>> \o f[ChildFor(nodes[p], key)]
  BY <1>1 DEF downTable
<1>3. 0 \in A
  <2>1. \A p \in Page : ~(H[p] < 0)
    BY <1>0
  <2> QED
    BY <2>1
<1>4. ASSUME NEW n \in Nat, n \in A PROVE n + 1 \in A
  <2>1. ASSUME NEW p \in Page, H[p] < n + 1 PROVE WayDown(f[p], p, key)
    <3>1. CASE nodes[p].leaf
      <4> DEFINE t == <<p>>
      <4>1. t \in Seq(Page) /\ Len(t) = 1 /\ t[1] = p /\ \A i \in 1..(1 - 1) : FALSE
        OBVIOUS
      <4>2. f[p] = t
        BY <1>2, <3>1
      <4> HIDE DEF t
      <4>3. Len(t) >= 1 /\ nodes[t[Len(t)]].leaf /\ \A i \in 1..(Len(t) - 1) : FALSE
        BY <3>1, <4>1
      <4> QED
        BY <4>1, <4>2, <4>3 DEF WayDown
    <3>2. CASE ~nodes[p].leaf
      <4>1. PICK c \in Page : c = ChildFor(nodes[p], key) /\ H[c] < H[p]
        BY <3>2, ChildBelow
      <4>2. H[c] < n
        BY <1>0, <2>1, <4>1
      <4>3. WayDown(f[c], c, key)
        BY <1>4, <4>2
      <4>4. f[p] = <<p>> \o f[c]
        BY <1>2, <3>2, <4>1
      <4> QED
        BY <3>2, <4>1, <4>3, <4>4, WayLonger
    <3> QED
      BY <3>1, <3>2
  <2> QED
    BY <2>1
<1>5. \A n \in Nat : n \in A
  <2> HIDE DEF A
  <2> QED
    BY <1>3, <1>4, SetInduction
<1>6. root \in Page /\ H[root] + 1 \in Nat /\ H[root] < H[root] + 1
  BY <1>0 DEF TypeOK
<1>7. WayDown(f[root], root, key)
  BY <1>5, <1>6
<1> QED
  BY <1>7, PathIsTable DEF f

------------------------------------------------------------------------------
(* The writes of an insertion.                                             *)

(* The pages there are after i writes, and writes of which each leaves a   *)
(* sound node, given the pages there are by then.                          *)
Reach(writes, i) == Page \cup {writes[j].page : j \in 1..i}

PageWrite == [page : Nat, node : Node]

GoodWrites(writes, H, R, X) ==
    /\ writes \in Seq(PageWrite)
    /\ \A i \in 1..Len(writes) :
         SoundAt(writes[i].page, writes[i].node, Reach(writes, i), H, R, X)

(* Soundness is not lost to more pages, to more entries, or to measures of *)
(* other pages.                                                            *)
LEMMA SoundAgain ==
    ASSUME NEW p, NEW node, NEW P, NEW H, NEW R, NEW X, SoundAt(p, node, P, H, R, X),
           NEW Q, P \subseteq Q, NEW Y, X \subseteq Y, NEW G, NEW S,
           \A x \in P \cup {p} : G[x] = H[x] /\ S[x] = R[x]
    PROVE  SoundAt(p, node, Q, G, S, Y)
  BY DEF SoundAt

(* One more sound write.                                                   *)
LEMMA GoodAppend ==
    ASSUME NEW writes, NEW H, NEW R, NEW X, GoodWrites(writes, H, R, X),
           NEW p \in Nat, NEW node \in Node,
           SoundAt(p, node, Reach(writes, Len(writes)) \cup {p}, H, R, X)
    PROVE  /\ GoodWrites(Append(writes, Write(p, node)), H, R, X)
           /\ Len(Append(writes, Write(p, node))) = Len(writes) + 1
           /\ Reach(Append(writes, Write(p, node)), Len(writes) + 1) =
                Reach(writes, Len(writes)) \cup {p}
<1> DEFINE w == Write(p, node)
           N == Len(writes)
           r == Append(writes, w)
<1>1. w \in PageWrite /\ w.page = p /\ w.node = node
  BY DEF Write, PageWrite
<1>2. writes \in Seq(PageWrite) /\ N \in Nat
  BY LenProperties DEF GoodWrites
<1> HIDE DEF w
<1>3. /\ r \in Seq(PageWrite) /\ Len(r) = N + 1
      /\ \A i \in 1..N : r[i] = writes[i]
      /\ r[N + 1] = w
  BY <1>1, <1>2, AppendProperties
<1> HIDE DEF r
<1>4. \A i \in 1..N : Reach(r, i) = Reach(writes, i)
  <2> TAKE i \in 1..N
  <2>1. \A j \in 1..i : j \in 1..N
    BY <1>2
  <2>2. {r[j].page : j \in 1..i} = {writes[j].page : j \in 1..i}
    BY <1>3, <2>1
  <2> QED
    BY <2>2 DEF Reach
<1>5. Reach(r, N + 1) = Reach(writes, N) \cup {p}
  <2>1. \A j \in 1..(N + 1) : j \in 1..N \/ j = N + 1
    BY <1>2
  <2>2. \A j \in 1..N : j \in 1..(N + 1)
    BY <1>2
  <2>3. N + 1 \in 1..(N + 1)
    BY <1>2
  <2>4. {r[j].page : j \in 1..(N + 1)} = {writes[j].page : j \in 1..N} \cup {p}
    <3>1. ASSUME NEW x \in {r[j].page : j \in 1..(N + 1)}
          PROVE  x \in {writes[j].page : j \in 1..N} \cup {p}
      BY <1>1, <1>3, <2>1
    <3>2. ASSUME NEW x \in {writes[j].page : j \in 1..N} \cup {p}
          PROVE  x \in {r[j].page : j \in 1..(N + 1)}
      BY <1>1, <1>3, <2>2, <2>3
    <3> QED
      BY <3>1, <3>2
  <2> QED
    BY <2>4 DEF Reach
<1>6. ASSUME NEW i \in 1..(N + 1)
      PROVE  SoundAt(r[i].page, r[i].node, Reach(r, i), H, R, X)
  <2>1. CASE i \in 1..N
    BY <1>3, <1>4, <2>1 DEF GoodWrites
  <2>2. CASE i = N + 1
    BY <1>1, <1>3, <1>5, <2>2
  <2> QED
    BY <1>2, <2>1, <2>2
<1>7. GoodWrites(r, H, R, X)
  BY <1>3, <1>6 DEF GoodWrites
<1> QED
  BY <1>3, <1>5, <1>7 DEF r, w

(* Three elements at the end are three appended one by one.                *)
LEMMA ThreeMore ==
    ASSUME NEW S, NEW s \in Seq(S), NEW a \in S, NEW b \in S, NEW c \in S
    PROVE  s \o <<a, b, c>> = Append(Append(Append(s, a), b), c)
<1> DEFINE t == <<a, b, c>>
           x == Append(s, a)
           y == Append(x, b)
           z == Append(y, c)
           l == s \o t
           N == Len(s)
<1>0. N \in Nat
  BY LenProperties
<1>1. t \in Seq(S) /\ Len(t) = 3 /\ t[1] = a /\ t[2] = b /\ t[3] = c
  OBVIOUS
<1> HIDE DEF t
<1>2. l \in Seq(S) /\ Len(l) = N + 3 /\ \A i \in 1..(N + 3) : l[i] = IF i <= N THEN s[i] ELSE t[i - N]
  <2>1. /\ s \o t \in Seq(S) /\ Len(s \o t) = Len(s) + Len(t)
        /\ \A i \in 1..(Len(s) + Len(t)) : (s \o t)[i] = IF i <= Len(s) THEN s[i] ELSE t[i - Len(s)]
    BY <1>1, ConcatProperties
  <2> QED
    BY <1>1, <2>1
<1> HIDE DEF l
<1>3. x \in Seq(S) /\ Len(x) = N + 1 /\ (\A i \in 1..N : x[i] = s[i]) /\ x[N + 1] = a
  BY AppendProperties
<1> HIDE DEF x
<1>4. /\ y \in Seq(S) /\ Len(y) = N + 2 /\ (\A i \in 1..N : y[i] = s[i])
      /\ y[N + 1] = a /\ y[N + 2] = b
  <2>1. /\ y \in Seq(S) /\ Len(y) = Len(x) + 1 /\ (\A i \in 1..Len(x) : y[i] = x[i])
        /\ y[Len(x) + 1] = b
    BY <1>3, AppendProperties
  <2>2. (N + 1) + 1 = N + 2 /\ N + 1 \in 1..(N + 1) /\ \A i \in 1..N : i \in 1..(N + 1)
    BY <1>0
  <2> HIDE DEF y
  <2> QED
    BY <1>3, <2>1, <2>2
<1> HIDE DEF y
<1>5. /\ z \in Seq(S) /\ Len(z) = N + 3 /\ (\A i \in 1..N : z[i] = s[i])
      /\ z[N + 1] = a /\ z[N + 2] = b /\ z[N + 3] = c
  <2>1. /\ z \in Seq(S) /\ Len(z) = Len(y) + 1 /\ (\A i \in 1..Len(y) : z[i] = y[i])
        /\ z[Len(y) + 1] = c
    BY <1>4, AppendProperties
  <2>2. /\ (N + 2) + 1 = N + 3 /\ N + 1 \in 1..(N + 2) /\ N + 2 \in 1..(N + 2)
        /\ \A i \in 1..N : i \in 1..(N + 2)
    BY <1>0
  <2> HIDE DEF z
  <2> QED
    BY <1>4, <2>1, <2>2
<1> HIDE DEF z
<1>6. ASSUME NEW i \in 1..(N + 3) PROVE l[i] = z[i]
  <2>1. CASE i <= N
    <3>1. i \in 1..N
      BY <1>0, <2>1
    <3> QED
      BY <1>2, <1>5, <2>1, <3>1
  <2>2. CASE i = N + 1
    <3>1. ~(i <= N) /\ i - N = 1
      BY <1>0, <2>2
    <3> QED
      BY <1>1, <1>2, <1>5, <2>2, <3>1
  <2>3. CASE i = N + 2
    <3>1. ~(i <= N) /\ i - N = 2
      BY <1>0, <2>3
    <3> QED
      BY <1>1, <1>2, <1>5, <2>3, <3>1
  <2>4. CASE i = N + 3
    <3>1. ~(i <= N) /\ i - N = 3
      BY <1>0, <2>4
    <3> QED
      BY <1>1, <1>2, <1>5, <2>4, <3>1
  <2>5. i <= N \/ i = N + 1 \/ i = N + 2 \/ i = N + 3
    BY <1>0
  <2> QED
    BY <2>1, <2>2, <2>3, <2>4, <2>5
<1>7. l = z
  BY <1>2, <1>5, <1>6, SeqEqual
<1> QED
  BY <1>7 DEF l, t, x, y, z

(* Pages after good writes are naturals, finitely many, and the fresh one  *)
(* is not among them.                                                      *)
LEMMA FreshIsNew ==
    ASSUME TypeOK, NEW writes \in Seq(PageWrite)
    PROVE  /\ Reach(writes, Len(writes)) \in SUBSET Nat
           /\ IsFiniteSet(Reach(writes, Len(writes)))
           /\ FreshPage(writes) \in Nat
           /\ FreshPage(writes) \notin Reach(writes, Len(writes))
<1> DEFINE N == Len(writes)
           T == {writes[i].page : i \in 1..N}
           S == Page \cup T
<1>0. N \in Nat
  BY LenProperties
<1>1. \A i \in 1..N : writes[i].page \in Nat
  <2>1. \A i \in 1..N : writes[i] \in PageWrite
    BY ElementOfSeq
  <2> QED
    BY <2>1 DEF PageWrite
<1>2. IsFiniteSet(T)
  <2> DEFINE f == [i \in 1..N |-> writes[i].page]
  <2>1. f \in Surjection(1..N, T)
    BY DEF Surjection
  <2>2. IsFiniteSet(1..N)
    BY <1>0, FS_Interval
  <2> HIDE DEF f, T
  <2> QED
    BY <2>1, <2>2, FS_Surjection
<1>3. S \in SUBSET Nat /\ IsFiniteSet(S) /\ S # {}
  <2>1. S \in SUBSET Nat /\ S # {}
    BY <1>1 DEF TypeOK
  <2>2. IsFiniteSet(S)
    <3> HIDE DEF T
    <3> QED
      BY <1>2, FS_Union DEF TypeOK
  <2> QED
    BY <2>1, <2>2
<1>4. FreshPage(writes) = Max(S) + 1 /\ Reach(writes, N) = S
  BY DEF FreshPage, Reach
<1> HIDE DEF S
<1>5. PICK m \in Nat : m = Max(S) /\ \A x \in S : x <= m
  <2>1. Max(S) \in S /\ \A x \in S : Max(S) >= x
    BY <1>3, MaxIsGreatest
  <2>2. Max(S) \in Nat /\ \A x \in S : x \in Nat
    BY <1>3, <2>1
  <2> QED
    BY <2>1, <2>2
<1>6. m + 1 \notin S
  BY <1>5
<1> QED
  BY <1>3, <1>4, <1>5, <1>6

------------------------------------------------------------------------------
(* The way up.  Every old level and rank is doubled, so that each page a   *)
(* split allocates finds one of its own in between.                        *)
Doubled(H, R, h, r) ==
    /\ H \in [Nat -> Nat] /\ R \in [Nat -> Nat]
    /\ \A x \in Page : H[x] = 2 * h[x] /\ R[x] = 2 * r[x] + 1

(* What insertRec has done when it returns from the page q.                *)
Climbs == [writes : Seq(PageWrite), up : {<<>>} \cup [key : Key, page : Nat]]

Risen(s, q, h, r, X) ==
    /\ s \in Climbs
    /\ \E H, R : /\ Doubled(H, R, h, r)
                 /\ GoodWrites(s.writes, H, R, X)
                 /\ \/ s.up = <<>>
                    \/ /\ s.up.key \in Key /\ s.up.page \in Nat
                       /\ s.up.page \in Reach(s.writes, Len(s.writes))
                       /\ H[s.up.page] = 2 * h[q] + 1

(* A page that was allocated and not saved is sound by itself.             *)
LEMMA UnsavedSound ==
    ASSUME NEW p \in Nat, NEW P, NEW H, NEW R, NEW X, 0 \in P, H[0] = 0,
           H[p] \in Nat, H[p] > 0
    PROVE  Unsaved \in Node /\ SoundAt(p, Unsaved, P, H, R, X)
<1> DEFINE c == <<0>>
<1>1. c \in Seq(Nat) /\ Len(c) = 1 /\ c[1] = 0
  OBVIOUS
<1> HIDE DEF c
<1>2. <<>> \in Seq(Nat) /\ <<>> \in Seq(Key) /\ Len(<<>>) = 0
  BY EmptySeq
<1>3. /\ Unsaved \in Node /\ ~Unsaved.leaf /\ Unsaved.vals = <<>> /\ Unsaved.next = NoPage
      /\ Unsaved.kids = c /\ Unsaved.keys = <<>>
  BY <1>1, <1>2 DEF Unsaved, Inner, Node, c
<1>4. \A i \in 1..1 : c[i] \in P /\ H[c[i]] < H[p]
  <2> TAKE i \in 1..1
  <2>1. i = 1
    OBVIOUS
  <2>2. 0 < H[p]
    OBVIOUS
  <2> QED
    BY <1>1, <2>1, <2>2
<1>5. Len(Unsaved.kids) = Len(Unsaved.keys) + 1
  BY <1>1, <1>2, <1>3
<1> QED
  BY <1>1, <1>3, <1>4, <1>5 DEF SoundAt

(* Old soundness under doubled measures.                                   *)
LEMMA SoundDoubled ==
    ASSUME TypeOK, NEW h, NEW r, Measures(h, r), NEW H, NEW R, Doubled(H, R, h, r),
           NEW p \in Page
    PROVE  SoundAt(p, nodes[p], Page, H, R, given)
<1>1. SoundAt(p, nodes[p], Page, h, r, given)
  BY DEF Measures
<1>2. \A x \in Page : x \in Nat /\ h[x] \in Nat /\ r[x] \in Nat
  BY DEF TypeOK, Measures
<1>3. \A x, y \in Page : h[x] < h[y] => H[x] < H[y]
  BY <1>2 DEF Doubled
<1>4. \A x, y \in Page : r[x] < r[y] => R[x] < R[y]
  BY <1>2 DEF Doubled
<1>5. ASSUME nodes[p].leaf, nodes[p].next # NoPage
      PROVE  nodes[p].next \in Page /\ R[nodes[p].next] < R[p]
  BY <1>1, <1>4, <1>5 DEF SoundAt
<1>6. ASSUME ~nodes[p].leaf, NEW i \in 1..Len(nodes[p].kids)
      PROVE  nodes[p].kids[i] \in Page /\ H[nodes[p].kids[i]] < H[p]
  BY <1>1, <1>3, <1>6 DEF SoundAt
<1> QED
  BY <1>1, <1>5, <1>6 DEF SoundAt

(* Saving the changed node of page p, in one piece or split.               *)
LEMMA SavedRises ==
    ASSUME TypeOK, NEW h, NEW r, Measures(h, r), NEW H, NEW R, Doubled(H, R, h, r),
           NEW X, NEW writes, GoodWrites(writes, H, R, X), NEW p \in Page,
           NEW node \in Node, SoundAt(p, node, Reach(writes, Len(writes)), H, R, X),
           node.leaf /\ node.next # NoPage => node.next \in Page /\ r[node.next] < r[p]
    PROVE  Risen(Saved(writes, p, node), p, h, r, X)
<1> DEFINE N == Len(writes)
           P == Reach(writes, N)
           new == FreshPage(writes)
           Q == P \cup {new}
           half == Halves(node, new)
<1>0. /\ writes \in Seq(PageWrite) /\ N \in Nat
      /\ \A i \in 1..N : SoundAt(writes[i].page, writes[i].node, Reach(writes, i), H, R, X)
  BY LenProperties DEF GoodWrites
<1>1. /\ P \in SUBSET Nat /\ new \in Nat /\ new \notin P /\ Page \subseteq P
      /\ p \in Nat /\ h[p] \in Nat /\ r[p] \in Nat
  BY <1>0, FreshIsNew DEF Reach, TypeOK, Measures
<1> HIDE DEF P, new
<1>2. CASE Len(node.keys) <= ORDER
  <2> DEFINE s == Saved(writes, p, node)
  <2>1. s.writes = Append(writes, Write(p, node)) /\ s.up = <<>>
    BY <1>2 DEF Saved
  <2>4. s = [writes |-> Append(writes, Write(p, node)), up |-> <<>>]
    BY <1>2 DEF Saved
  <2> HIDE DEF s
  <2>2. P \cup {p} = P
    BY <1>1
  <2>3. GoodWrites(s.writes, H, R, X)
    <3>1. SoundAt(p, node, Reach(writes, Len(writes)) \cup {p}, H, R, X)
      BY <2>2 DEF P
    <3>3. \A q \in Nat : \A n \in Node :
            SoundAt(q, n, Reach(writes, Len(writes)) \cup {q}, H, R, X) =>
              /\ GoodWrites(Append(writes, Write(q, n)), H, R, X)
              /\ Len(Append(writes, Write(q, n))) = Len(writes) + 1
              /\ Reach(Append(writes, Write(q, n)), Len(writes) + 1) = Reach(writes, Len(writes)) \cup {q}
      BY GoodAppend
    <3> QED
      BY <1>1, <2>1, <3>1, <3>3
  <2>5. s \in Climbs
    <3>1. s.writes \in Seq(PageWrite)
      BY <2>3 DEF GoodWrites
    <3> QED
      BY <2>1, <2>4, <3>1 DEF Climbs
  <2> QED
    BY <2>1, <2>3, <2>5 DEF Risen, s
<1>3. CASE ~(Len(node.keys) <= ORDER)
  <2>0. PICK a \in Nat, b \in Nat : a = 2 * h[p] /\ b = 2 * r[p]
    BY <1>1
  <2> DEFINE G == [H EXCEPT ![new] = a + 1]
             S == [R EXCEPT ![new] = b]
  <2>1. /\ G \in [Nat -> Nat] /\ S \in [Nat -> Nat]
        /\ G[new] = a + 1 /\ S[new] = b
        /\ \A x \in Nat \ {new} : G[x] = H[x] /\ S[x] = R[x]
    <3>1. H \in [Nat -> Nat] /\ R \in [Nat -> Nat] /\ new \in Nat
      BY <1>1 DEF Doubled
    <3>2. a + 1 \in Nat
      OBVIOUS
    <3>3. /\ G \in [Nat -> Nat] /\ G[new] = a + 1
          /\ \A x \in Nat \ {new} : G[x] = H[x]
      BY <3>1, <3>2
    <3>4. /\ S \in [Nat -> Nat] /\ S[new] = b
          /\ \A x \in Nat \ {new} : S[x] = R[x]
      BY <3>1
    <3> QED
      BY <3>3, <3>4
  <2>2. \A x \in P : x \in Nat \ {new} /\ G[x] = H[x] /\ S[x] = R[x]
    BY <1>1, <2>1
  <2> HIDE DEF G, S
  <2>3. Doubled(G, S, h, r)
    BY <1>1, <2>1, <2>2 DEF Doubled
  <2>4. ASSUME NEW i \in 1..N
        PROVE  SoundAt(writes[i].page, writes[i].node, Reach(writes, i), G, S, X)
    <3>1. Reach(writes, i) \subseteq P /\ writes[i].page \in P
      <4>1. \A j \in 1..i : j \in 1..N
        BY <1>0
      <4> QED
        BY <4>1 DEF P, Reach
    <3>2. \A x \in Reach(writes, i) \cup {writes[i].page} : G[x] = H[x] /\ S[x] = R[x]
      BY <2>2, <3>1
    <3> QED
      BY <1>0, <3>2, SoundAgain
  <2>5. GoodWrites(writes, G, S, X)
    BY <1>0, <2>4 DEF GoodWrites
  <2>6. P \subseteq Q /\ new \in Q /\ p \in P /\ 0 \in Q
    BY <1>1 DEF Measures
  <2>7. SoundAt(p, node, Q, G, S, X)
    <3>1. \A x \in P \cup {p} : G[x] = H[x] /\ S[x] = R[x]
      BY <2>2, <2>6
    <3>2. SoundAt(p, node, P, H, R, X)
      BY DEF P
    <3> HIDE DEF Q
    <3> QED
      BY <2>6, <3>1, <3>2, SoundAgain
  <2>8. G[p] = a /\ S[p] = b + 1 /\ G[0] = 0
    BY <2>0, <2>3 DEF Doubled, Measures
  <2>9. /\ half.left \in Node /\ half.right \in Node /\ half.key \in Key
        /\ SoundAt(p, half.left, Q, G, S, X) /\ SoundAt(new, half.right, Q, G, S, X)
    <3>1. CASE node.leaf
      <4>1. S[new] < S[p]
        BY <2>1, <2>8
      <4>2. ASSUME node.next # NoPage PROVE S[node.next] < S[new]
        <5>1. node.next \in Page /\ r[node.next] < r[p]
          BY <3>1, <4>2
        <5>2. PICK c \in Nat : c = r[node.next]
          BY <5>1 DEF Measures, TypeOK
        <5>3. S[node.next] = 2 * c + 1
          BY <2>3, <5>1, <5>2 DEF Doubled
        <5>4. PICK d \in Nat : d = r[p]
          BY <1>1
        <5>5. c < d /\ b = 2 * d
          BY <2>0, <5>1, <5>2, <5>4
        <5>6. 2 * c + 1 < b
          BY <5>5
        <5> QED
          BY <2>1, <5>3, <5>6
      <4>3. half = LeafHalves(node, new)
        BY <3>1 DEF Halves
      <4> HIDE DEF half, Q
      <4> QED
        BY <1>1, <1>3, <2>6, <2>7, <3>1, <4>1, <4>2, <4>3, LeafHalvesSound
    <3>2. CASE ~node.leaf
      <4>1. ASSUME NEW x \in Q, G[x] < G[p] PROVE G[x] < G[new]
        <5>1. x \in Nat
          BY <1>1
        <5>2. G[x] \in Nat
          BY <2>1, <5>1
        <5>3. G[x] < a
          BY <2>8, <4>1
        <5>4. G[x] < a + 1
          BY <5>2, <5>3
        <5> QED
          BY <2>1, <5>4
      <4>2. half = InnerHalves(node)
        BY <3>2 DEF Halves
      <4> HIDE DEF half, Q
      <4> QED
        BY <1>3, <2>7, <3>2, <4>1, <4>2, InnerHalvesSound
    <3> QED
      BY <3>1, <3>2
  <2>10. Unsaved \in Node /\ SoundAt(new, Unsaved, Q, G, S, X)
    <3>1. G[new] \in Nat /\ G[new] > 0
      BY <1>1, <2>1
    <3> HIDE DEF Q
    <3> QED
      BY <1>1, <2>6, <2>8, <3>1, UnsavedSound
  <2> HIDE DEF half
  <2> DEFINE w1 == Append(writes, Write(new, Unsaved))
             w2 == Append(w1, Write(p, half.left))
             w3 == Append(w2, Write(new, half.right))
             s  == Saved(writes, p, node)
  <2>11. GoodWrites(w1, G, S, X) /\ Len(w1) = N + 1 /\ Reach(w1, N + 1) = Q
    BY <1>1, <2>5, <2>10, GoodAppend DEF P
  <2> HIDE DEF w1
  <2>12. GoodWrites(w2, G, S, X) /\ Len(w2) = N + 2 /\ Reach(w2, N + 2) = Q
    <3>1. Q \cup {p} = Q /\ (N + 1) + 1 = N + 2
      BY <1>0, <2>6
    <3> HIDE DEF Q
    <3>2. SoundAt(p, half.left, Reach(w1, Len(w1)) \cup {p}, G, S, X)
      BY <2>9, <2>11, <3>1
    <3>3. \A q \in Nat : \A n \in Node :
            SoundAt(q, n, Reach(w1, Len(w1)) \cup {q}, G, S, X) =>
              /\ GoodWrites(Append(w1, Write(q, n)), G, S, X)
              /\ Len(Append(w1, Write(q, n))) = Len(w1) + 1
              /\ Reach(Append(w1, Write(q, n)), Len(w1) + 1) = Reach(w1, Len(w1)) \cup {q}
      <4>1. GoodWrites(w1, G, S, X)
        BY <2>11
      <4> HIDE DEF Q
      <4> QED
        BY <4>1, GoodAppend
    <3>4. /\ GoodWrites(w2, G, S, X) /\ Len(w2) = Len(w1) + 1
          /\ Reach(w2, Len(w1) + 1) = Reach(w1, Len(w1)) \cup {p}
      BY <1>1, <2>9, <3>2, <3>3
    <3> HIDE DEF w2
    <3> QED
      BY <2>11, <3>1, <3>4
  <2> HIDE DEF w2
  <2>13. GoodWrites(w3, G, S, X) /\ Len(w3) = N + 3 /\ Reach(w3, N + 3) = Q
    <3>1. Q \cup {new} = Q /\ (N + 2) + 1 = N + 3
      BY <1>0
    <3> HIDE DEF Q
    <3>2. SoundAt(new, half.right, Reach(w2, Len(w2)) \cup {new}, G, S, X)
      BY <2>9, <2>12, <3>1
    <3>3. \A q \in Nat : \A n \in Node :
            SoundAt(q, n, Reach(w2, Len(w2)) \cup {q}, G, S, X) =>
              /\ GoodWrites(Append(w2, Write(q, n)), G, S, X)
              /\ Len(Append(w2, Write(q, n))) = Len(w2) + 1
              /\ Reach(Append(w2, Write(q, n)), Len(w2) + 1) = Reach(w2, Len(w2)) \cup {q}
      <4>1. GoodWrites(w2, G, S, X)
        BY <2>12
      <4> HIDE DEF Q
      <4> QED
        BY <4>1, GoodAppend
    <3>4. /\ GoodWrites(w3, G, S, X) /\ Len(w3) = Len(w2) + 1
          /\ Reach(w3, Len(w2) + 1) = Reach(w2, Len(w2)) \cup {new}
      BY <1>1, <2>9, <3>2, <3>3
    <3> HIDE DEF w3
    <3> QED
      BY <2>12, <3>1, <3>4
  <2>14. s.writes = w3
    <3>1. /\ Write(new, Unsaved) \in PageWrite /\ Write(p, half.left) \in PageWrite
          /\ Write(new, half.right) \in PageWrite
      BY <1>1, <2>9, <2>10 DEF Write, PageWrite
    <3>2. s.writes = writes \o <<Write(new, Unsaved), Write(p, half.left),
                                 Write(new, half.right)>>
      BY <1>3 DEF Saved, half, new
    <3> QED
      BY <1>0, <3>1, <3>2, ThreeMore DEF w1, w2
  <2>15. s.up.key = half.key /\ s.up.page = new
    BY <1>3 DEF Saved, half, new
  <2>18. s = [writes |-> s.writes, up |-> [key |-> half.key, page |-> new]]
    BY <1>3 DEF Saved, half, new
  <2> HIDE DEF w3, s
  <2>19. s \in Climbs
    <3>1. s.writes \in Seq(PageWrite)
      BY <2>13, <2>14 DEF GoodWrites
    <3>2. [key |-> half.key, page |-> new] \in [key : Key, page : Nat]
      BY <1>1, <2>9
    <3> QED
      BY <2>18, <3>1, <3>2 DEF Climbs
  <2>16. s.up.page \in Reach(s.writes, Len(s.writes))
    BY <2>13, <2>14, <2>15
  <2>17. Risen(s, p, h, r, X)
    BY <1>1, <2>0, <2>1, <2>3, <2>9, <2>13, <2>14, <2>15, <2>16, <2>19 DEF Risen
  <2> QED
    BY <2>17 DEF s
<1> QED
  BY <1>2, <1>3

------------------------------------------------------------------------------
(* Back in the inner page p, after what was done below it.                 *)
LEMMA BackRises ==
    ASSUME TypeOK, NEW h, NEW r, Measures(h, r), NEW X, given \subseteq X,
           NEW key \in Key, NEW p \in Page, ~nodes[p].leaf,
           NEW s, Risen(s, ChildFor(nodes[p], key), h, r, X)
    PROVE  Risen(Back(key, p, s), p, h, r, X)
<1>1. PICK c \in Page : c = ChildFor(nodes[p], key) /\ h[c] < h[p]
  BY ChildBelow
<1>2. PICK H, R : /\ Doubled(H, R, h, r)
                  /\ GoodWrites(s.writes, H, R, X)
                  /\ \/ s.up = <<>>
                     \/ /\ s.up.key \in Key /\ s.up.page \in Nat
                        /\ s.up.page \in Reach(s.writes, Len(s.writes))
                        /\ H[s.up.page] = 2 * h[c] + 1
  BY <1>1 DEF Risen
<1>3. CASE s.up = <<>>
  <2>1. Back(key, p, s) = s
    BY <1>3 DEF Back
  <2>2. s \in Climbs
    BY DEF Risen
  <2> QED
    BY <1>2, <1>3, <2>1, <2>2 DEF Risen
<1>4. CASE s.up # <<>>
  <2> DEFINE P == Reach(s.writes, Len(s.writes))
             node == WithChild(nodes[p], key, s.up)
  <2>1. H[s.up.page] < H[p]
    <3>1. PICK a \in Nat, b \in Nat : a = h[c] /\ b = h[p]
      BY DEF TypeOK, Measures
    <3>2. H[s.up.page] = 2 * a + 1 /\ H[p] = 2 * b /\ a < b
      BY <1>1, <1>2, <1>4, <3>1 DEF Doubled
    <3>3. 2 * a + 1 < 2 * b
      BY <3>2
    <3> QED
      BY <3>2, <3>3
  <2>2. SoundAt(p, nodes[p], P, H, R, X)
    <3>1. SoundAt(p, nodes[p], Page, H, R, given)
      BY <1>2, SoundDoubled
    <3>2. Page \subseteq P
      BY DEF Reach
    <3> HIDE DEF P
    <3> QED
      BY <3>1, <3>2, SoundAgain
  <2>3. nodes[p] \in Node
    BY DEF TypeOK
  <2>4. node \in Node /\ ~node.leaf /\ SoundAt(p, node, P, H, R, X)
    <3>1. s.up.key \in Key /\ s.up.page \in Nat /\ s.up.page \in P
      BY <1>2, <1>4
    <3> HIDE DEF P
    <3> QED
      BY <2>1, <2>2, <2>3, <3>1, WithChildSound
  <2>5. Back(key, p, s) = Saved(s.writes, p, node)
    BY <1>4 DEF Back
  <2> HIDE DEF node
  <2> QED
    BY <1>2, <2>4, <2>5, SavedRises
<1> QED
  BY <1>3, <1>4

(* The table of the way up from each place of a path: the fold of          *)
(* insertRec, over sets of places.                                         *)
upTable(g, T, key, path, base) ==
    g = [s \in SUBSET T |-> IF s = {} THEN base
                            ELSE Back(key, path[Min(s)], g[s \ {Min(s)}])]

(* What the leaf level does.                                               *)
AtLeaf(key, val) ==
    Saved(<<>>, Last(Path(key)), WithEntry(nodes[Last(Path(key))], key, val))

LEMMA InsertRecIsTable ==
    ASSUME NEW key, NEW val
    PROVE  InsertRec(key, val) =
             (CHOOSE g : upTable(g, DOMAIN Front(Path(key)), key, Front(Path(key)),
                                 AtLeaf(key, val)))[DOMAIN Front(Path(key))]
  BY DEF InsertRec, AtLeaf, FoldRight, MapThenFoldSet, upTable

(* It exists: it is built from the last place to the first, because the    *)
(* least place of a set is taken out first.                                *)
LEMMA ClimbExists ==
    ASSUME NEW n \in Nat, NEW key, NEW path, NEW base
    PROVE  \E g : upTable(g, 1..n, key, path, base)
<1> DEFINE A == {k \in Nat : k <= n => \E g : upTable(g, (n + 1 - k)..n, key, path, base)}
<1>1. 0 \in A
  <2> DEFINE g == [s \in SUBSET {} |-> base]
  <2>1. (n + 1 - 0)..n = {}
    OBVIOUS
  <2>2. upTable(g, {}, key, path, base)
    BY DEF upTable
  <2> QED
    BY <2>1, <2>2
<1>2. ASSUME NEW k \in Nat, k \in A PROVE k + 1 \in A
  <2> SUFFICES ASSUME k + 1 <= n
               PROVE  \E g : upTable(g, (n + 1 - (k + 1))..n, key, path, base)
    OBVIOUS
  <2> DEFINE m == n - k
             T == (m + 1)..n
             U == m..n
  <2>1. /\ m \in Nat /\ m <= n /\ n + 1 - (k + 1) = m /\ n + 1 - k = m + 1
        /\ k <= n
    OBVIOUS
  <2>2. PICK g : upTable(g, T, key, path, base)
    BY <1>2, <2>1
  <2>3. U = T \cup {m} /\ m \notin T /\ U \subseteq Nat
    BY <2>1
  <2> DEFINE h == [s \in SUBSET U |->
                     IF m \in s THEN Back(key, path[m], g[s \ {m}]) ELSE g[s]]
  <2>4. ASSUME NEW s \in SUBSET U
        PROVE  h[s] = IF s = {} THEN base ELSE Back(key, path[Min(s)], h[s \ {Min(s)}])
    <3>1. CASE s = {}
      <4>1. g[{}] = base
        BY <2>2 DEF upTable
      <4> QED
        BY <3>1, <4>1
    <3>2. CASE m \in s
      <4>1. Min(s) \in s /\ \A y \in s : Min(s) <= y
        BY <2>3, <3>2, MinIsLeast
      <4>2. \A y \in U : m <= y
        BY <2>1
      <4>3. Min(s) = m
        <5>1. Min(s) <= m /\ m <= Min(s) /\ Min(s) \in Nat
          BY <2>3, <3>2, <4>1, <4>2
        <5> QED
          BY <2>1, <5>1
      <4>4. s \ {m} \in SUBSET U /\ m \notin s \ {m}
        OBVIOUS
      <4>5. h[s \ {m}] = g[s \ {m}]
        BY <4>4
      <4> QED
        BY <3>2, <4>3, <4>5
    <3>3. CASE s # {} /\ m \notin s
      <4>1. s \in SUBSET T /\ s \ {Min(s)} \in SUBSET U /\ m \notin s \ {Min(s)}
        BY <2>3, <3>3
      <4>2. g[s] = Back(key, path[Min(s)], g[s \ {Min(s)}])
        BY <2>2, <3>3, <4>1 DEF upTable
      <4>3. h[s] = g[s] /\ h[s \ {Min(s)}] = g[s \ {Min(s)}]
        BY <3>3, <4>1
      <4> QED
        BY <3>3, <4>2, <4>3
    <3> QED
      BY <3>1, <3>2, <3>3
  <2>5. upTable(h, U, key, path, base)
    <3>1. h = [s \in SUBSET U |-> h[s]]
      OBVIOUS
    <3> HIDE DEF h, U
    <3> QED
      BY <2>4, <3>1 DEF upTable
  <2> QED
    BY <2>1, <2>5
<1>3. n \in A
  <2> HIDE DEF A
  <2> QED
    BY <1>1, <1>2, SetInduction
<1>4. n <= n /\ n + 1 - n = 1
  OBVIOUS
<1> QED
  BY <1>3, <1>4

(* What holds of the leaf level, and is kept by every step back up, holds  *)
(* of the whole of insertRec.                                              *)
LEMMA ClimbKeeps ==
    ASSUME NEW key, NEW val, NEW n \in Nat, NEW path,
           path = Front(Path(key)), DOMAIN path = 1..n,
           NEW Q, AtLeaf(key, val) \in Q[n + 1],
           \A i \in 1..n : \A s \in Q[i + 1] : Back(key, path[i], s) \in Q[i]
    PROVE  InsertRec(key, val) \in Q[1]
<1> DEFINE base == AtLeaf(key, val)
           g == CHOOSE f : upTable(f, 1..n, key, path, base)
           A == {k \in Nat : k <= n => g[(n + 1 - k)..n] \in Q[n + 1 - k]}
<1>1. InsertRec(key, val) = g[1..n]
  BY InsertRecIsTable
<1>2. upTable(g, 1..n, key, path, base)
  BY ClimbExists
<1> HIDE DEF g, base
<1>3. 0 \in A
  <2>1. (n + 1 - 0)..n = {} /\ n + 1 - 0 = n + 1
    OBVIOUS
  <2>2. g[{}] = base
    BY <1>2 DEF upTable
  <2> QED
    BY <2>1, <2>2 DEF base
<1>4. ASSUME NEW k \in Nat, k \in A PROVE k + 1 \in A
  <2> SUFFICES ASSUME k + 1 <= n
               PROVE  g[(n + 1 - (k + 1))..n] \in Q[n + 1 - (k + 1)]
    OBVIOUS
  <2>0. PICK m \in Nat : m = n - k /\ 1 <= m /\ m <= n /\ k <= n
    OBVIOUS
  <2> DEFINE U == m..n
  <2>1. /\ m \in 1..n /\ n + 1 - (k + 1) = m /\ n + 1 - k = m + 1
        /\ m \in U /\ U \in SUBSET (1..n) /\ \A y \in U : m <= y
    BY <2>0
  <2>2. U \ {m} = (m + 1)..n
    BY <2>0
  <2>3. Min(U) = m
    <3>1. U \in SUBSET Nat /\ U # {}
      <4>1. \A y \in 1..n : y \in Nat
        OBVIOUS
      <4> HIDE DEF U
      <4> QED
        BY <2>1, <4>1
    <3>2. Min(U) \in U /\ Min(U) <= m /\ m <= Min(U)
      <4>1. Min(U) \in U /\ \A y \in U : Min(U) <= y
        <5> HIDE DEF U
        <5> QED
          BY <3>1, MinIsLeast
      <4> HIDE DEF U
      <4> QED
        BY <2>1, <4>1
    <3>3. m \in Int /\ Min(U) \in Int
      BY <2>1, <3>2
    <3> QED
      BY <3>2, <3>3
  <2>4. g[U] = Back(key, path[m], g[U \ {m}])
    BY <1>2, <2>1, <2>3 DEF upTable
  <2>5. g[U \ {m}] \in Q[m + 1]
    BY <1>4, <2>0, <2>1, <2>2
  <2>6. \A s \in Q[m + 1] : Back(key, path[m], s) \in Q[m]
    BY <2>1
  <2>7. g[U] \in Q[m]
    BY <2>4, <2>5, <2>6
  <2> QED
    BY <2>1, <2>7
<1>5. n \in A
  <2> HIDE DEF A
  <2> QED
    BY <1>3, <1>4, SetInduction
<1>6. n <= n /\ n + 1 - n = 1
  OBVIOUS
<1>7. g[1..n] \in Q[1]
  BY <1>5, <1>6
<1> QED
  BY <1>1, <1>7

(* The inner pages of a path and its leaf.                                 *)
LEMMA PathParts ==
    ASSUME TypeOK, NEW H, NEW R, Measures(H, R), NEW key \in Key
    PROVE  \E n \in Nat :
             /\ Path(key) \in Seq(Page) /\ Len(Path(key)) = n + 1
             /\ Path(key)[1] = root
             /\ Last(Path(key)) = Path(key)[n + 1]
             /\ Path(key)[n + 1] \in Page /\ nodes[Path(key)[n + 1]].leaf
             /\ DOMAIN Front(Path(key)) = 1..n
             /\ \A i \in 1..n : /\ Front(Path(key))[i] = Path(key)[i]
                                /\ Path(key)[i] \in Page /\ ~nodes[Path(key)[i]].leaf
                                /\ Path(key)[i + 1] = ChildFor(nodes[Path(key)[i]], key)
<1>1. PICK s : s = Path(key)
  OBVIOUS
<1>2. /\ s \in Seq(Page) /\ Len(s) \in Nat /\ Len(s) >= 1 /\ s[1] = root
      /\ nodes[s[Len(s)]].leaf
      /\ \A i \in 1..(Len(s) - 1) :
           ~nodes[s[i]].leaf /\ s[i + 1] = ChildFor(nodes[s[i]], key)
  BY <1>1, PathGoesDown, LenProperties DEF WayDown
<1>3. PICK n \in Nat : Len(s) = n + 1 /\ n = Len(s) - 1
  <2>1. Len(s) - 1 \in Nat /\ Len(s) = (Len(s) - 1) + 1
    BY <1>2
  <2> QED
    BY <2>1
<1>4. \A i \in 1..(n + 1) : s[i] \in Page
  BY <1>2, <1>3, ElementOfSeq
<1>5. Front(s) \in Seq(Page) /\ Len(Front(s)) = n /\ \A i \in 1..n : Front(s)[i] = s[i]
  <2>1. \A i \in 1..n : s[i] \in Page
    BY <1>4
  <2>2. n - 1 + 1 = n /\ (~(1 <= n) => n = 0) /\ \A i \in 1..n : 1 + i - 1 = i
    OBVIOUS
  <2>3. Front(s) = SubSeq(s, 1, n)
    BY <1>3 DEF Front
  <2>4. PICK Q : Q = Page
    OBVIOUS
  <2>5. \A i \in 1..n : s[i] \in Q
    BY <2>1, <2>4
  <2>6. /\ SubSeq(s, 1, n) \in Seq(Q)
        /\ Len(SubSeq(s, 1, n)) = IF 1 <= n THEN n - 1 + 1 ELSE 0
        /\ \A i \in 1..(n - 1 + 1) : SubSeq(s, 1, n)[i] = s[1 + i - 1]
    <3>1. n \in Int /\ 1 \in Int
      OBVIOUS
    <3> QED
      BY <2>5, <3>1, SubSeqProperties
  <2>7. Len(SubSeq(s, 1, n)) = n /\ \A i \in 1..n : SubSeq(s, 1, n)[i] = s[i]
    BY <2>2, <2>6
  <2> QED
    BY <2>3, <2>4, <2>6, <2>7
<1>6. DOMAIN Front(s) = 1..n
  BY <1>5, LenProperties
<1>7. n + 1 \in 1..(n + 1) /\ \A i \in 1..n : i \in 1..(n + 1)
  OBVIOUS
<1>8. Last(s) = s[n + 1]
  BY <1>3 DEF Last
<1>9. \A i \in 1..n : /\ Front(s)[i] = s[i] /\ s[i] \in Page /\ ~nodes[s[i]].leaf
                      /\ s[i + 1] = ChildFor(nodes[s[i]], key)
  BY <1>2, <1>3, <1>4, <1>5, <1>7
<1>10. s[n + 1] \in Page /\ nodes[s[n + 1]].leaf
  BY <1>2, <1>3, <1>4, <1>7
<1> QED
  BY <1>1, <1>2, <1>3, <1>6, <1>8, <1>9, <1>10

(* insertRec makes good writes only.                                       *)
LEMMA InsertRecRises ==
    ASSUME TypeOK, NEW h, NEW r, Measures(h, r), NEW key \in Key, NEW val \in Nat,
           NEW X, given \subseteq X, <<key, val>> \in X
    PROVE  Risen(InsertRec(key, val), root, h, r, X)
<1>1. PICK n \in Nat :
        /\ Path(key)[1] = root
        /\ Last(Path(key)) = Path(key)[n + 1]
        /\ Path(key)[n + 1] \in Page /\ nodes[Path(key)[n + 1]].leaf
        /\ DOMAIN Front(Path(key)) = 1..n
        /\ \A i \in 1..n : /\ Front(Path(key))[i] = Path(key)[i]
                           /\ Path(key)[i] \in Page /\ ~nodes[Path(key)[i]].leaf
                           /\ Path(key)[i + 1] = ChildFor(nodes[Path(key)[i]], key)
  BY PathParts
<1>2. PICK path : path = Path(key)
  OBVIOUS
<1>3. PICK front : front = Front(Path(key))
  OBVIOUS
<1> DEFINE Q == [i \in 1..(n + 1) |-> {s \in Climbs : Risen(s, path[i], h, r, X)}]
<1>4. AtLeaf(key, val) \in Q[n + 1]
  <2>1. PICK p \in Page : p = path[n + 1] /\ nodes[p].leaf
    BY <1>1, <1>2
  <2>2. PICK H, R : Doubled(H, R, h, r)
    <3> DEFINE H == [x \in Nat |-> 2 * h[x]]
               R == [x \in Nat |-> 2 * r[x] + 1]
    <3>1. \A x \in Nat : h[x] \in Nat /\ r[x] \in Nat
      BY DEF Measures
    <3>2. Page \subseteq Nat
      BY DEF TypeOK
    <3>3. Doubled(H, R, h, r)
      BY <3>1, <3>2 DEF Doubled
    <3> QED
      BY <3>3
  <2> DEFINE e == <<>>
  <2>3. e \in Seq(PageWrite) /\ Len(e) = 0 /\ \A i \in 1..0 : FALSE
    BY EmptySeq
  <2> HIDE DEF e
  <2>4. GoodWrites(e, H, R, X)
    BY <2>3 DEF GoodWrites
  <2>5. Page \subseteq Reach(e, Len(e))
    BY DEF Reach
  <2>6. nodes[p] \in Node /\ SoundAt(p, nodes[p], Page, H, R, given)
    BY <2>2, SoundDoubled DEF TypeOK
  <2>7. SoundAt(p, nodes[p], Reach(e, Len(e)), H, R, X)
    BY <2>5, <2>6, SoundAgain
  <2> DEFINE node == WithEntry(nodes[p], key, val)
  <2>8. node \in Node /\ node.leaf /\ SoundAt(p, node, Reach(e, Len(e)), H, R, X)
    BY <2>1, <2>6, <2>7, WithEntrySound
  <2>9. node.next = nodes[p].next
    BY <2>6 DEF WithEntry, Node
  <2>10. node.leaf /\ node.next # NoPage => node.next \in Page /\ r[node.next] < r[p]
    <3>1. SoundAt(p, nodes[p], Page, h, r, given)
      BY DEF Measures
    <3> QED
      BY <2>1, <2>9, <3>1 DEF SoundAt
  <2>11. AtLeaf(key, val) = Saved(e, p, node)
    BY <1>1, <1>2, <2>1 DEF AtLeaf, e
  <2> HIDE DEF node
  <2>12. Risen(Saved(e, p, node), p, h, r, X)
    BY <2>2, <2>4, <2>8, <2>10, SavedRises
  <2>13. Saved(e, p, node) \in Climbs
    BY <2>12 DEF Risen
  <2>14. n + 1 \in 1..(n + 1)
    OBVIOUS
  <2> QED
    BY <2>1, <2>11, <2>12, <2>13, <2>14
<1>5. ASSUME NEW i \in 1..n, NEW s \in Q[i + 1] PROVE Back(key, front[i], s) \in Q[i]
  <2>1. i \in 1..(n + 1) /\ i + 1 \in 1..(n + 1)
    OBVIOUS
  <2>2. PICK p \in Page : /\ p = path[i] /\ front[i] = p /\ ~nodes[p].leaf
                          /\ path[i + 1] = ChildFor(nodes[p], key)
    BY <1>1, <1>2, <1>3
  <2>3. Risen(s, ChildFor(nodes[p], key), h, r, X)
    BY <2>1, <2>2
  <2>4. Risen(Back(key, p, s), p, h, r, X)
    BY <2>2, <2>3, BackRises
  <2>5. Back(key, p, s) \in Climbs
    BY <2>4 DEF Risen
  <2> QED
    BY <2>1, <2>2, <2>4, <2>5
<1>6. 1 \in 1..(n + 1) /\ path[1] = root
  BY <1>1, <1>2
<1> HIDE DEF Q
<1>7. InsertRec(key, val) \in Q[1]
  BY <1>1, <1>3, <1>4, <1>5, ClimbKeeps
<1> QED
  BY <1>6, <1>7 DEF Q

------------------------------------------------------------------------------
(* The whole of an insertion, and any first part of it.                    *)

(* Two elements at the end are two appended one by one.                    *)
LEMMA TwoMore ==
    ASSUME NEW S, NEW s \in Seq(S), NEW a \in S, NEW b \in S
    PROVE  s \o <<a, b>> = Append(Append(s, a), b)
<1> DEFINE t == <<a, b>>
           x == Append(s, a)
           y == Append(x, b)
           l == s \o t
           N == Len(s)
<1>0. N \in Nat
  BY LenProperties
<1>1. t \in Seq(S) /\ Len(t) = 2 /\ t[1] = a /\ t[2] = b
  OBVIOUS
<1> HIDE DEF t
<1>2. l \in Seq(S) /\ Len(l) = N + 2 /\ \A i \in 1..(N + 2) : l[i] = IF i <= N THEN s[i] ELSE t[i - N]
  <2>1. /\ s \o t \in Seq(S) /\ Len(s \o t) = Len(s) + Len(t)
        /\ \A i \in 1..(Len(s) + Len(t)) : (s \o t)[i] = IF i <= Len(s) THEN s[i] ELSE t[i - Len(s)]
    BY <1>1, ConcatProperties
  <2> QED
    BY <1>1, <2>1
<1> HIDE DEF l
<1>3. x \in Seq(S) /\ Len(x) = N + 1 /\ (\A i \in 1..N : x[i] = s[i]) /\ x[N + 1] = a
  BY AppendProperties
<1> HIDE DEF x
<1>4. /\ y \in Seq(S) /\ Len(y) = N + 2 /\ (\A i \in 1..N : y[i] = s[i])
      /\ y[N + 1] = a /\ y[N + 2] = b
  <2>1. /\ y \in Seq(S) /\ Len(y) = Len(x) + 1 /\ (\A i \in 1..Len(x) : y[i] = x[i])
        /\ y[Len(x) + 1] = b
    BY <1>3, AppendProperties
  <2>2. (N + 1) + 1 = N + 2 /\ N + 1 \in 1..(N + 1) /\ \A i \in 1..N : i \in 1..(N + 1)
    BY <1>0
  <2> HIDE DEF y
  <2> QED
    BY <1>3, <2>1, <2>2
<1> HIDE DEF y
<1>5. ASSUME NEW i \in 1..(N + 2) PROVE l[i] = y[i]
  <2>1. CASE i <= N
    <3>1. i \in 1..N
      BY <1>0, <2>1
    <3> QED
      BY <1>2, <1>4, <2>1, <3>1
  <2>2. CASE i = N + 1
    <3>1. ~(i <= N) /\ i - N = 1
      BY <1>0, <2>2
    <3> QED
      BY <1>1, <1>2, <1>4, <2>2, <3>1
  <2>3. CASE i = N + 2
    <3>1. ~(i <= N) /\ i - N = 2
      BY <1>0, <2>3
    <3> QED
      BY <1>1, <1>2, <1>4, <2>3, <3>1
  <2>4. i <= N \/ i = N + 1 \/ i = N + 2
    BY <1>0
  <2> QED
    BY <2>1, <2>2, <2>3, <2>4
<1>6. l = y
  BY <1>2, <1>4, <1>5, SeqEqual
<1> QED
  BY <1>6 DEF l, t, x, y

(* The writes of an insertion under measures for all pages it leaves.      *)
LEMMA InsertionGood ==
    ASSUME TypeOK, NEW h, NEW r, Measures(h, r), NEW key \in Key, NEW val \in Nat,
           NEW X, given \subseteq X, <<key, val>> \in X
    PROVE  \E H, R : LET ins == Insertion(key, val) IN
             /\ Doubled(H, R, h, r)
             /\ GoodWrites(ins.writes, H, R, X)
             /\ ins.root \in Reach(ins.writes, Len(ins.writes))
<1> DEFINE s   == InsertRec(key, val)
           new == FreshPage(s.writes)
           ins == Insertion(key, val)
<1>1. /\ s \in Climbs
      /\ \E H, R : /\ Doubled(H, R, h, r)
                   /\ GoodWrites(s.writes, H, R, X)
                   /\ \/ s.up = <<>>
                      \/ /\ s.up.key \in Key /\ s.up.page \in Nat
                         /\ s.up.page \in Reach(s.writes, Len(s.writes))
                         /\ H[s.up.page] = 2 * h[root] + 1
  BY InsertRecRises DEF Risen
<1> HIDE DEF s
<1>2. PICK H, R : /\ Doubled(H, R, h, r)
                  /\ GoodWrites(s.writes, H, R, X)
                  /\ \/ s.up = <<>>
                     \/ /\ s.up.key \in Key /\ s.up.page \in Nat
                        /\ s.up.page \in Reach(s.writes, Len(s.writes))
                        /\ H[s.up.page] = 2 * h[root] + 1
  BY <1>1
<1>3. CASE s.up = <<>>
  <2>1. ins.writes = s.writes /\ ins.root = root
    BY <1>3 DEF Insertion, s
  <2>2. root \in Reach(s.writes, Len(s.writes))
    BY DEF Reach, TypeOK
  <2> HIDE DEF ins
  <2>3. ins.root \in Reach(ins.writes, Len(ins.writes)) /\ GoodWrites(ins.writes, H, R, X)
    BY <1>2, <2>1, <2>2
  <2> QED
    BY <1>2, <2>3 DEF ins
<1>4. CASE s.up # <<>>
  <2> DEFINE N == Len(s.writes)
             P == Reach(s.writes, N)
             Q == P \cup {new}
             top == Inner(<<s.up.key>>, <<root, s.up.page>>)
  <2>1. s.writes \in Seq(PageWrite) /\ N \in Nat
    BY LenProperties, <1>2 DEF GoodWrites
  <2>2. /\ P \in SUBSET Nat /\ new \in Nat /\ new \notin P /\ Page \subseteq P
        /\ root \in Page
    BY <2>1, FreshIsNew DEF Reach, TypeOK
  <2>3. s.up.key \in Key /\ s.up.page \in Nat /\ s.up.page \in P
    BY <1>2, <1>4
  <2> HIDE DEF P, new
  <2>4. PICK a \in Nat : a = 2 * h[root]
    <3>1. h[root] \in Nat
      BY <2>2 DEF Measures, TypeOK
    <3> QED
      BY <3>1
  <2>5. H[s.up.page] = a + 1 /\ H[root] = a
    BY <1>2, <1>4, <2>2, <2>4 DEF Doubled
  <2> DEFINE G == [H EXCEPT ![new] = a + 2]
             S == [R EXCEPT ![new] = 0]
  <2>6. /\ G \in [Nat -> Nat] /\ S \in [Nat -> Nat] /\ G[new] = a + 2
        /\ \A x \in Nat \ {new} : G[x] = H[x] /\ S[x] = R[x]
    <3>1. H \in [Nat -> Nat] /\ R \in [Nat -> Nat] /\ new \in Nat
      BY <1>2, <2>2 DEF Doubled
    <3>2. a + 2 \in Nat
      OBVIOUS
    <3>3. G \in [Nat -> Nat] /\ G[new] = a + 2 /\ \A x \in Nat \ {new} : G[x] = H[x]
      BY <3>1, <3>2
    <3>4. S \in [Nat -> Nat] /\ \A x \in Nat \ {new} : S[x] = R[x]
      BY <3>1
    <3> QED
      BY <3>3, <3>4
  <2>7. \A x \in P : x \in Nat \ {new} /\ G[x] = H[x] /\ S[x] = R[x]
    BY <2>2, <2>6
  <2> HIDE DEF G, S
  <2>8. Doubled(G, S, h, r)
    BY <1>2, <2>2, <2>6, <2>7 DEF Doubled
  <2>9. GoodWrites(s.writes, G, S, X)
    <3>1. ASSUME NEW i \in 1..N
          PROVE  SoundAt(s.writes[i].page, s.writes[i].node, Reach(s.writes, i), G, S, X)
      <4>1. Reach(s.writes, i) \subseteq P /\ s.writes[i].page \in P
        <5>1. \A j \in 1..i : j \in 1..N
          BY <2>1
        <5> QED
          BY <5>1 DEF P, Reach
      <4>2. \A x \in Reach(s.writes, i) \cup {s.writes[i].page} : G[x] = H[x] /\ S[x] = R[x]
        BY <2>7, <4>1
      <4>3. SoundAt(s.writes[i].page, s.writes[i].node, Reach(s.writes, i), H, R, X)
        BY <1>2 DEF GoodWrites
      <4> QED
        BY <4>2, <4>3, SoundAgain
    <3> QED
      BY <2>1, <3>1 DEF GoodWrites
  <2>10. G[0] = 0 /\ G[root] = a /\ G[s.up.page] = a + 1 /\ 0 \in Page
    <3>1. 0 \in P /\ 0 \in Page /\ H[0] = 0
      BY <1>2, <2>2 DEF Doubled, Measures
    <3> QED
      BY <2>2, <2>3, <2>5, <2>7, <3>1
  <2>11. Unsaved \in Node /\ SoundAt(new, Unsaved, Q, G, S, X)
    <3>1. G[new] \in Nat /\ G[new] > 0 /\ 0 \in Q
      BY <2>2, <2>6, <2>10
    <3> HIDE DEF Q
    <3> QED
      BY <2>2, <2>10, <3>1, UnsavedSound
  <2>12. top \in Node /\ SoundAt(new, top, Q, G, S, X)
    <3> DEFINE k == <<s.up.key>>
               c == <<root, s.up.page>>
    <3>1. k \in Seq(Key) /\ Len(k) = 1 /\ Len(c) = 2 /\ c[1] = root /\ c[2] = s.up.page
      BY <2>3
    <3>2. c \in Seq(Nat)
      <4>1. root \in Nat /\ s.up.page \in Nat
        BY <2>2, <2>3 DEF TypeOK
      <4> QED
        BY <4>1
    <3> HIDE DEF k, c
    <3>3. <<>> \in Seq(Nat)
      BY EmptySeq
    <3>4. /\ top \in Node /\ ~top.leaf /\ top.vals = <<>> /\ top.next = NoPage
          /\ top.kids = c /\ top.keys = k
      BY <3>1, <3>2, <3>3 DEF Inner, Node, k, c
    <3> HIDE DEF top
    <3>5. \A i \in 1..Len(top.kids) : top.kids[i] \in Q /\ G[top.kids[i]] < G[new]
      <4> TAKE i \in 1..Len(top.kids)
      <4>1. i = 1 \/ i = 2
        BY <3>1, <3>4
      <4>2. root \in Q /\ s.up.page \in Q
        BY <2>2, <2>3
      <4>3. a < a + 2 /\ a + 1 < a + 2
        OBVIOUS
      <4>4. G[root] < G[new] /\ G[s.up.page] < G[new]
        BY <2>6, <2>10, <4>3
      <4>5. top.kids[i] = root \/ top.kids[i] = s.up.page
        BY <3>1, <3>4, <4>1
      <4> HIDE DEF Q, new
      <4>6. CASE top.kids[i] = root
        BY <4>2, <4>4, <4>6
      <4>7. CASE top.kids[i] = s.up.page
        BY <4>2, <4>4, <4>7
      <4> QED
        BY <4>5, <4>6, <4>7
    <3>6. Len(top.kids) = Len(top.keys) + 1
      <4>1. Len(top.kids) = 2
        BY <3>1, <3>4
      <4>2. Len(top.keys) = 1
        BY <3>1, <3>4
      <4> QED
        BY <4>1, <4>2
    <3> HIDE DEF Q
    <3> QED
      BY <3>4, <3>5, <3>6 DEF SoundAt
  <2> HIDE DEF top
  <2> DEFINE w1 == Append(s.writes, Write(new, Unsaved))
             w2 == Append(w1, Write(new, top))
  <2>13. GoodWrites(w1, G, S, X) /\ Len(w1) = N + 1 /\ Reach(w1, N + 1) = Q
    <3>1. SoundAt(new, Unsaved, Reach(s.writes, Len(s.writes)) \cup {new}, G, S, X)
      BY <2>11 DEF P
    <3>2. \A q \in Nat : \A n \in Node :
            SoundAt(q, n, Reach(s.writes, Len(s.writes)) \cup {q}, G, S, X) =>
              /\ GoodWrites(Append(s.writes, Write(q, n)), G, S, X)
              /\ Len(Append(s.writes, Write(q, n))) = Len(s.writes) + 1
              /\ Reach(Append(s.writes, Write(q, n)), Len(s.writes) + 1) =
                   Reach(s.writes, Len(s.writes)) \cup {q}
      BY <2>9, GoodAppend
    <3> QED
      BY <2>2, <2>11, <3>1, <3>2 DEF P
  <2> HIDE DEF w1
  <2>14. GoodWrites(w2, G, S, X) /\ Len(w2) = N + 2 /\ Reach(w2, N + 2) = Q
    <3>1. Q \cup {new} = Q /\ (N + 1) + 1 = N + 2
      BY <2>1
    <3> HIDE DEF Q
    <3>2. SoundAt(new, top, Reach(w1, Len(w1)) \cup {new}, G, S, X)
      BY <2>12, <2>13, <3>1
    <3>3. \A q \in Nat : \A n \in Node :
            SoundAt(q, n, Reach(w1, Len(w1)) \cup {q}, G, S, X) =>
              /\ GoodWrites(Append(w1, Write(q, n)), G, S, X)
              /\ Len(Append(w1, Write(q, n))) = Len(w1) + 1
              /\ Reach(Append(w1, Write(q, n)), Len(w1) + 1) = Reach(w1, Len(w1)) \cup {q}
      <4>1. GoodWrites(w1, G, S, X)
        BY <2>13
      <4> QED
        BY <4>1, GoodAppend
    <3>4. /\ GoodWrites(w2, G, S, X) /\ Len(w2) = Len(w1) + 1
          /\ Reach(w2, Len(w1) + 1) = Reach(w1, Len(w1)) \cup {new}
      BY <2>2, <2>12, <3>2, <3>3
    <3> HIDE DEF w2
    <3> QED
      BY <2>13, <3>1, <3>4
  <2>15. ins.writes = w2 /\ ins.root = new
    <3>1. Write(new, Unsaved) \in PageWrite /\ Write(new, top) \in PageWrite
      BY <2>2, <2>11, <2>12 DEF Write, PageWrite
    <3>2. /\ ins.writes = s.writes \o <<Write(new, Unsaved), Write(new, top)>>
          /\ ins.root = new
      BY <1>4 DEF Insertion, s, new, top
    <3> QED
      BY <2>1, <3>1, <3>2, TwoMore DEF w1
  <2> HIDE DEF w2, ins
  <2>16. ins.root \in Reach(ins.writes, Len(ins.writes)) /\ GoodWrites(ins.writes, G, S, X)
    BY <2>14, <2>15
  <2> QED
    BY <2>8, <2>16 DEF ins
<1> QED
  BY <1>3, <1>4

(* The pages after good writes are sound.                                  *)
LEMMA AfterGood ==
    ASSUME TypeOK, NEW h, NEW r, Measures(h, r), NEW H, NEW R, Doubled(H, R, h, r),
           NEW X, given \subseteq X, NEW w, GoodWrites(w, H, R, X)
    PROVE  /\ DOMAIN AfterWrites(w) = Reach(w, Len(w))
           /\ AfterWrites(w) \in [Reach(w, Len(w)) -> Node]
           /\ \A p \in Reach(w, Len(w)) :
                SoundAt(p, AfterWrites(w)[p], Reach(w, Len(w)), H, R, X)
<1> DEFINE N == Len(w)
           P == Reach(w, N)
           On(p) == {i \in 1..N : w[i].page = p}
           A == AfterWrites(w)
<1>0. w \in Seq(PageWrite) /\ N \in Nat
  BY LenProperties DEF GoodWrites
<1>1. A = [p \in P |-> IF On(p) = {} THEN nodes[p] ELSE w[Max(On(p))].node]
  BY DEF AfterWrites, Reach
<1>2. \A i \in 1..N : w[i].node \in Node /\ w[i].page \in Nat
  <2>1. \A i \in 1..N : w[i] \in PageWrite
    BY <1>0, ElementOfSeq
  <2> QED
    BY <2>1 DEF PageWrite
<1> HIDE DEF A
<1>3. ASSUME NEW p \in P PROVE A[p] \in Node /\ SoundAt(p, A[p], P, H, R, X)
  <2>1. CASE On(p) = {}
    <3>1. p \in Page
      BY <2>1 DEF Reach
    <3>2. A[p] = nodes[p]
      BY <1>1, <2>1
    <3>3. SoundAt(p, nodes[p], Page, H, R, given)
      BY <3>1, SoundDoubled
    <3>4. Page \subseteq P
      BY DEF Reach
    <3> HIDE DEF P
    <3>5. SoundAt(p, nodes[p], P, H, R, X)
      BY <3>3, <3>4, SoundAgain
    <3> QED
      BY <3>1, <3>2, <3>5 DEF TypeOK
  <2>2. CASE On(p) # {}
    <3>1. On(p) \in SUBSET Nat /\ IsFiniteSet(On(p))
      <4>1. On(p) \in SUBSET (1..N) /\ 1..N \in SUBSET Nat
        BY <1>0
      <4>2. IsFiniteSet(1..N)
        BY <1>0, FS_Interval
      <4> HIDE DEF On
      <4> QED
        BY <4>1, <4>2, FS_Subset
    <3>2. PICK i \in On(p) : i = Max(On(p))
      <4> HIDE DEF On
      <4> QED
        BY <2>2, <3>1, MaxIsGreatest
    <3>3. i \in 1..N /\ w[i].page = p /\ A[p] = w[i].node
      BY <1>1, <2>2, <3>2
    <3>4. SoundAt(p, A[p], Reach(w, i), H, R, X)
      BY <3>3 DEF GoodWrites
    <3>5. Reach(w, i) \subseteq P
      <4>1. \A j \in 1..i : j \in 1..N
        BY <1>0, <3>3
      <4> QED
        BY <4>1 DEF Reach
    <3> HIDE DEF P
    <3>6. SoundAt(p, A[p], P, H, R, X)
      BY <3>4, <3>5, SoundAgain
    <3> QED
      BY <1>2, <3>3, <3>6
  <2> QED
    BY <2>1, <2>2
<1>4. DOMAIN A = P
  BY <1>1
<1>5. A \in [P -> Node]
  <2>1. A = [p \in P |-> A[p]]
    BY <1>1
  <2> QED
    BY <1>3, <2>1
<1> QED
  BY <1>3, <1>4, <1>5 DEF A

(* The first writes of good ones are good.                                 *)
LEMMA GoodPrefix ==
    ASSUME NEW H, NEW R, NEW X, NEW w, GoodWrites(w, H, R, X), NEW n \in 0..Len(w)
    PROVE  GoodWrites(SubSeq(w, 1, n), H, R, X)
<1> DEFINE s == SubSeq(w, 1, n)
<1>0. w \in Seq(PageWrite) /\ Len(w) \in Nat /\ n \in Nat /\ n <= Len(w)
  BY LenProperties DEF GoodWrites
<1>1. s \in Seq(PageWrite) /\ Len(s) = n /\ \A i \in 1..n : s[i] = w[i]
  <2>1. \A i \in 1..n : i \in 1..Len(w)
    BY <1>0
  <2>2. \A i \in 1..n : w[i] \in PageWrite
    BY <1>0, <2>1, ElementOfSeq
  <2>3. n \in Int /\ 1 \in Int
    BY <1>0
  <2>4. /\ SubSeq(w, 1, n) \in Seq(PageWrite)
        /\ Len(SubSeq(w, 1, n)) = IF 1 <= n THEN n - 1 + 1 ELSE 0
        /\ \A i \in 1..(n - 1 + 1) : SubSeq(w, 1, n)[i] = w[1 + i - 1]
    BY <2>2, <2>3, SubSeqProperties
  <2>5. n - 1 + 1 = n /\ (~(1 <= n) => n = 0) /\ \A i \in 1..n : 1 + i - 1 = i
    BY <1>0
  <2> QED
    BY <2>4, <2>5
<1> HIDE DEF s
<1>2. ASSUME NEW i \in 1..n PROVE SoundAt(s[i].page, s[i].node, Reach(s, i), H, R, X)
  <2>1. i \in 1..Len(w) /\ \A j \in 1..i : j \in 1..n
    BY <1>0
  <2>2. Reach(s, i) = Reach(w, i)
    <3>1. {s[j].page : j \in 1..i} = {w[j].page : j \in 1..i}
      BY <1>1, <2>1
    <3> QED
      BY <3>1 DEF Reach
  <2>3. SoundAt(w[i].page, w[i].node, Reach(w, i), H, R, X)
    BY <2>1 DEF GoodWrites
  <2> QED
    BY <1>1, <2>2, <2>3
<1>3. GoodWrites(s, H, R, X)
  BY <1>1, <1>2 DEF GoodWrites
<1> QED
  BY <1>3 DEF s

------------------------------------------------------------------------------
(* The invariant holds of every state.                                     *)

LEMMA InitInv == Init => IInv
<1> SUFFICES ASSUME Init PROVE IInv
  OBVIOUS
<1> DEFINE node == Leaf(<<>>, <<>>, NoPage)
<1>1. <<>> \in Seq(Nat) /\ <<>> \in Seq(Key) /\ Len(<<>>) = 0
  BY EmptySeq
<1>2. /\ node \in Node /\ node.leaf /\ node.keys = <<>> /\ node.vals = <<>>
      /\ node.next = NoPage
  BY <1>1 DEF Leaf, Node
<1>3. nodes = [p \in {0} |-> node] /\ root = 0 /\ given = {} /\ breaks = 0
  BY DEF Init
<1> HIDE DEF node
<1>4. Page = {0} /\ nodes \in [Page -> Node]
  BY <1>2, <1>3 DEF Page
<1>5. TypeOK
  <2>1. IsFiniteSet({0}) /\ IsFiniteSet({})
    BY FS_Singleton, FS_EmptySet
  <2> QED
    BY <1>3, <1>4, <2>1 DEF TypeOK
<1>6. PICK H \in [Nat -> Nat] : H[0] = 0
  <2> DEFINE H == [x \in Nat |-> 0]
  <2>1. H \in [Nat -> Nat] /\ H[0] = 0
    OBVIOUS
  <2> QED
    BY <2>1
<1>7. \A p \in Page : SoundAt(p, nodes[p], Page, H, H, given)
  <2> TAKE p \in Page
  <2>1. nodes[p] = node
    BY <1>3, <1>4
  <2>2. \A i \in 1..Len(node.keys) : FALSE
    BY <1>1, <1>2
  <2> QED
    BY <1>2, <2>1, <2>2 DEF SoundAt
<1>8. Measures(H, H)
  BY <1>4, <1>6, <1>7 DEF Measures
<1> QED
  BY <1>5, <1>8 DEF IInv

(* Every part of an insertion leaves a sound tree file.                    *)
LEMMA WritesKeepInv ==
    ASSUME IInv, NEW key \in Key, NEW n \in Nat, NEW w, NEW top,
           n <= Len(Insertion(key, NewVal).writes),
           w = SubSeq(Insertion(key, NewVal).writes, 1, n),
           \/ top = root
           \/ n = Len(Insertion(key, NewVal).writes) /\ top = Insertion(key, NewVal).root,
           nodes' = AfterWrites(w), root' = top,
           given' = given \cup {<<key, NewVal>>}, breaks' \in Nat
    PROVE  IInv'
<1> DEFINE ins == Insertion(key, NewVal)
<1>0. TypeOK
  BY DEF IInv
<1>1. PICK h, r : Measures(h, r)
  BY DEF IInv
<1>2. PICK val \in Nat : val = NewVal
  <2>1. NewVal \in Nat
    BY <1>0, FS_CardinalityType DEF NewVal, TypeOK
  <2> QED
    BY <2>1
<1>3. PICK X : X = given \cup {<<key, val>>}
  OBVIOUS
<1>4. given \subseteq X /\ <<key, val>> \in X
  BY <1>3
<1>5. PICK H, R : /\ Doubled(H, R, h, r)
                  /\ GoodWrites(ins.writes, H, R, X)
                  /\ ins.root \in Reach(ins.writes, Len(ins.writes))
  BY <1>0, <1>1, <1>2, <1>4, InsertionGood
<1>6. PICK all : all = ins.writes
  OBVIOUS
<1>7. GoodWrites(all, H, R, X) /\ all \in Seq(PageWrite) /\ Len(all) \in Nat
  BY <1>5, <1>6, LenProperties DEF GoodWrites
<1>8. n \in 0..Len(all) /\ w = SubSeq(all, 1, n)
  BY <1>6, <1>7
<1>9. GoodWrites(w, H, R, X)
  BY <1>7, <1>8, GoodPrefix
<1>10. PICK P : P = Reach(w, Len(w))
  OBVIOUS
<1>11. /\ DOMAIN AfterWrites(w) = P /\ AfterWrites(w) \in [P -> Node]
       /\ \A p \in P : SoundAt(p, AfterWrites(w)[p], P, H, R, X)
  BY <1>0, <1>1, <1>4, <1>5, <1>9, <1>10, AfterGood
<1>12. P \in SUBSET Nat /\ IsFiniteSet(P) /\ Page \subseteq P
  <2>1. w \in Seq(PageWrite)
    BY <1>9 DEF GoodWrites
  <2>2. Page \subseteq P
    BY <1>10 DEF Reach
  <2> QED
    BY <1>0, <1>10, <2>1, <2>2, FreshIsNew
<1>13. top \in P
  <2>1. CASE top = root
    BY <1>0, <1>12, <2>1 DEF TypeOK
  <2>2. CASE n = Len(ins.writes) /\ top = ins.root
    <3>1. n = Len(all) /\ top \in Reach(all, Len(all))
      BY <1>5, <1>6, <2>2
    <3>2. SubSeq(all, 1, Len(all)) = all
      BY <1>7, SubSeqFull
    <3> QED
      BY <1>8, <1>10, <3>1, <3>2
  <2> QED
    BY <2>1, <2>2
<1>14. Page' = P /\ given' = X
  BY <1>2, <1>3, <1>11 DEF Page
<1>15. X \in SUBSET (Key \X Nat) /\ IsFiniteSet(X)
  <2>1. <<key, val>> \in Key \X Nat
    OBVIOUS
  <2>2. IsFiniteSet(given \cup {<<key, val>>})
    BY <1>0, FS_AddElement DEF TypeOK
  <2> QED
    BY <1>0, <1>3, <2>1, <2>2 DEF TypeOK
<1>16. TypeOK'
  <2>1. nodes' \in [Page' -> Node]
    BY <1>11, <1>14
  <2>2. root' \in Page' /\ Page' \in SUBSET Nat /\ IsFiniteSet(Page')
    BY <1>12, <1>13, <1>14
  <2>3. given' \in SUBSET (Key \X Nat) /\ IsFiniteSet(given') /\ breaks' \in Nat
    BY <1>14, <1>15
  <2> QED
    BY <2>1, <2>2, <2>3 DEF TypeOK
<1>17. Measures(H, R)'
  <2>1. H \in [Nat -> Nat] /\ R \in [Nat -> Nat] /\ 0 \in P /\ H[0] = 0
    <3>1. 0 \in Page /\ h[0] = 0
      BY <1>1 DEF Measures
    <3>2. H \in [Nat -> Nat] /\ R \in [Nat -> Nat] /\ \A x \in Page : H[x] = 2 * h[x]
      BY <1>5 DEF Doubled
    <3>3. 0 \in P /\ H[0] = 2 * h[0]
      BY <1>12, <3>1, <3>2
    <3>4. 2 * 0 = 0
      OBVIOUS
    <3>5. H[0] = 0
      BY <3>1, <3>3, <3>4
    <3> QED
      BY <3>2, <3>3, <3>5
  <2>2. \A p \in P : SoundAt(p, nodes'[p], P, H, R, X)
    BY <1>11
  <2> QED
    BY <1>14, <2>1, <2>2 DEF Measures
<1> QED
  BY <1>16, <1>17 DEF IInv

LEMMA NextInv == IInv /\ [Next]_vars => IInv'
<1> SUFFICES ASSUME IInv, [Next]_vars PROVE IInv'
  OBVIOUS
<1>0. breaks \in Nat
  BY DEF IInv, TypeOK
<1>1. ASSUME NEW key \in Key, Insert(key) PROVE IInv'
  <2> DEFINE ins == Insertion(key, NewVal)
  <2>1. nodes' = AfterWrites(ins.writes) /\ root' = ins.root
        /\ given' = given \cup {<<key, NewVal>>} /\ breaks' = breaks
    BY <1>1 DEF Insert
  <2>2. ins.writes \in Seq(PageWrite) /\ Len(ins.writes) \in Nat
    <3>1. PICK h, r : Measures(h, r)
      BY DEF IInv
    <3>2. PICK val \in Nat : val = NewVal
      <4>1. NewVal \in Nat
        BY FS_CardinalityType DEF NewVal, TypeOK, IInv
      <4> QED
        BY <4>1
    <3>3. PICK X : X = given \cup {<<key, val>>}
      OBVIOUS
    <3>4. \E H, R : GoodWrites(ins.writes, H, R, X)
      BY <3>1, <3>2, <3>3, InsertionGood DEF IInv
    <3> QED
      BY <3>4, LenProperties DEF GoodWrites
  <2>3. SubSeq(ins.writes, 1, Len(ins.writes)) = ins.writes
    BY <2>2, SubSeqFull
  <2>4. PICK n \in Nat : n = Len(ins.writes)
    BY <2>2
  <2>5. n <= Len(ins.writes)
    BY <2>4
  <2>6. breaks' \in Nat
    BY <1>0, <2>1
  <2> QED
    BY <2>1, <2>3, <2>4, <2>5, <2>6, WritesKeepInv
<1>2. ASSUME NEW key \in Key, NEW n \in 1..Len(Insertion(key, NewVal).writes),
             InsertBreaks(key, n)
      PROVE  IInv'
  <2> DEFINE ins == Insertion(key, NewVal)
  <2>1. /\ nodes' = AfterWrites(SubSeq(ins.writes, 1, n)) /\ root' = root
        /\ given' = given \cup {<<key, NewVal>>} /\ breaks' = breaks + 1
    BY <1>2 DEF InsertBreaks
  <2>2. n \in Nat /\ n <= Len(ins.writes) /\ breaks' \in Nat
    BY <1>0, <2>1
  <2> QED
    BY <2>1, <2>2, WritesKeepInv
<1>3. CASE UNCHANGED vars
  <2>1. /\ nodes' = nodes /\ root' = root /\ given' = given /\ breaks' = breaks
        /\ Page' = Page
    BY <1>3 DEF vars, Page
  <2>2. TypeOK'
    BY <2>1 DEF IInv, TypeOK
  <2>3. PICK H, R : Measures(H, R)
    BY DEF IInv
  <2>4. Measures(H, R)'
    BY <2>1, <2>3 DEF Measures
  <2> QED
    BY <2>2, <2>4 DEF IInv
<1>4. CASE Throws
  BY <1>3, <1>4 DEF Throws
<1> QED
  BY <1>1, <1>2, <1>3, <1>4 DEF Next

(* Every reachable tree file is sound.                                     *)
LEMMA InvHolds == Spec => []IInv
  BY InitInv, NextInv, PTL DEF Spec

------------------------------------------------------------------------------
(* The list of the leaves.                                                 *)

(* A sound page leads to one of a lower rank, or ends the list.            *)
LEMMA NextBelow ==
    ASSUME TypeOK, NEW H, NEW R, Measures(H, R), NEW p \in Page, nodes[p].next # NoPage
    PROVE  nodes[p].next \in Page /\ R[nodes[p].next] < R[p]
<1>1. nodes[p] \in Node /\ SoundAt(p, nodes[p], Page, H, R, given)
  BY DEF TypeOK, Measures
<1> QED
  BY <1>1 DEF SoundAt, Node

(* The entries of a sound page were inserted, and an inner page has none.  *)
LEMMA EntriesGiven ==
    ASSUME TypeOK, NEW H, NEW R, Measures(H, R), NEW p \in Page
    PROVE  Entries(p) \in Seq(given)
<1>1. nodes[p] \in Node /\ SoundAt(p, nodes[p], Page, H, R, given)
  BY DEF TypeOK, Measures
<1>2. Len(nodes[p].vals) \in Nat
  BY <1>1, LenProperties DEF Node
<1>3. \A i \in 1..Len(nodes[p].vals) : <<nodes[p].keys[i], nodes[p].vals[i]>> \in given
  <2>1. CASE nodes[p].leaf
    BY <1>1, <2>1 DEF SoundAt
  <2>2. CASE ~nodes[p].leaf
    <3>1. nodes[p].vals = <<>> /\ Len(<<>>) = 0
      BY <1>1, <2>2, EmptySeq DEF SoundAt
    <3>2. \A i \in 1..0 : FALSE
      OBVIOUS
    <3> QED
      BY <3>1, <3>2
  <2> QED
    BY <2>1, <2>2
<1>4. PICK n \in Nat : n = Len(nodes[p].vals)
  BY <1>2
<1>5. Entries(p) = [i \in 1..n |-> <<nodes[p].keys[i], nodes[p].vals[i]>>]
  BY <1>4 DEF Entries
<1>6. Entries(p) \in [1..n -> given]
  BY <1>3, <1>4, <1>5
<1> QED
  BY <1>6, SeqDef

(* The table of all walks along the list: the recursive function of        *)
(* EntriesFrom.                                                            *)
walkTable(f) ==
    f = [q \in Page |->
           Entries(q) \o IF nodes[q].next = NoPage THEN <<>> ELSE f[nodes[q].next]]

LEMMA WalkIsTable ==
    ASSUME NEW p
    PROVE  EntriesFrom(p) = (CHOOSE f : walkTable(f))[p]
  BY DEF EntriesFrom, walkTable

(* It exists, because ranks fall along the list.                           *)
LEMMA WalkExists ==
    ASSUME TypeOK, NEW H, NEW R, Measures(H, R)
    PROVE  \E f : walkTable(f)
<1> DEFINE Step(f, p) ==
             Entries(p) \o IF nodes[p].next = NoPage THEN <<>> ELSE f[nodes[p].next]
           Upto(f, n) == \A p \in Page : R[p] < n => f[p] = Step(f, p)
           A == {n \in Nat : \E f : Upto(f, n)}
<1>0. R \in [Nat -> Nat] /\ \A p \in Page : R[p] \in Nat
  BY DEF Measures, TypeOK
<1>1. 0 \in A
  <2>1. \A p \in Page : ~(R[p] < 0)
    BY <1>0
  <2>2. Upto(<<>>, 0)
    BY <2>1
  <2> QED
    BY <2>2
<1>2. ASSUME NEW n \in Nat, n \in A PROVE n + 1 \in A
  <2>1. PICK f : Upto(f, n)
    BY <1>2
  <2> DEFINE g == [p \in Page |-> IF R[p] < n THEN f[p] ELSE Step(f, p)]
  <2>2. ASSUME NEW p \in Page, R[p] < n + 1 PROVE g[p] = Step(g, p)
    <3>1. g[p] = Step(f, p)
      BY <2>1
    <3>2. CASE nodes[p].next = NoPage
      BY <3>1, <3>2
    <3>3. CASE nodes[p].next # NoPage
      <4>1. PICK c \in Page : c = nodes[p].next /\ R[c] < R[p]
        BY <3>3, NextBelow
      <4>2. R[c] < n
        BY <1>0, <2>2, <4>1
      <4>3. g[c] = f[c]
        BY <4>2
      <4> QED
        BY <3>1, <3>3, <4>1, <4>3
    <3> QED
      BY <3>2, <3>3
  <2>3. \E h : Upto(h, n + 1)
    <3> HIDE DEF g
    <3>1. Upto(g, n + 1)
      BY <2>2
    <3> HIDE DEF Upto
    <3> QED
      BY <3>1
  <2> QED
    BY <2>3
<1>3. \A n \in Nat : n \in A
  <2> HIDE DEF A
  <2> QED
    BY <1>1, <1>2, SetInduction
<1>4. PICK b \in Nat : \A p \in Page : R[p] <= b
  BY <1>0, LevelsBounded
<1>5. b + 1 \in Nat /\ \A p \in Page : R[p] < b + 1
  BY <1>0, <1>4
<1>6. PICK f : Upto(f, b + 1)
  BY <1>3, <1>5
<1> DEFINE g == [p \in Page |-> f[p]]
<1>7. \A p \in Page : f[p] = Step(f, p)
  BY <1>5, <1>6
<1>8. \A p \in Page : nodes[p].next # NoPage => g[nodes[p].next] = f[nodes[p].next]
  BY NextBelow
<1>9. walkTable(g)
  BY <1>7, <1>8 DEF walkTable
<1> QED
  BY <1>9

(* All that a walk along the list meets was inserted.                      *)
LEMMA WalkGiven ==
    ASSUME TypeOK, NEW H, NEW R, Measures(H, R), NEW q \in Page
    PROVE  EntriesFrom(q) \in Seq(given)
<1> DEFINE f == CHOOSE g : walkTable(g)
           A == {n \in Nat : \A p \in Page : R[p] < n => f[p] \in Seq(given)}
<1>0. R \in [Nat -> Nat] /\ \A p \in Page : R[p] \in Nat
  BY DEF Measures, TypeOK
<1>1. walkTable(f)
  BY WalkExists
<1> HIDE DEF f
<1>2. \A p \in Page :
        f[p] = Entries(p) \o IF nodes[p].next = NoPage THEN <<>> ELSE f[nodes[p].next]
  BY <1>1 DEF walkTable
<1>3. 0 \in A
  <2>1. \A p \in Page : ~(R[p] < 0)
    BY <1>0
  <2> QED
    BY <2>1
<1>4. ASSUME NEW n \in Nat, n \in A PROVE n + 1 \in A
  <2>1. ASSUME NEW p \in Page, R[p] < n + 1 PROVE f[p] \in Seq(given)
    <3>1. PICK rest : rest = IF nodes[p].next = NoPage THEN <<>> ELSE f[nodes[p].next]
      OBVIOUS
    <3>2. rest \in Seq(given)
      <4>1. CASE nodes[p].next = NoPage
        BY <3>1, <4>1, EmptySeq
      <4>2. CASE nodes[p].next # NoPage
        <5>1. PICK c \in Page : c = nodes[p].next /\ R[c] < R[p]
          BY <4>2, NextBelow
        <5>2. R[c] < n
          BY <1>0, <2>1, <5>1
        <5> QED
          BY <1>4, <3>1, <4>2, <5>1, <5>2
      <4> QED
        BY <4>1, <4>2
    <3>3. f[p] = Entries(p) \o rest
      BY <1>2, <3>1
    <3>4. Entries(p) \in Seq(given)
      BY EntriesGiven
    <3> QED
      BY <3>2, <3>3, <3>4, ConcatProperties
  <2> QED
    BY <2>1
<1>5. \A n \in Nat : n \in A
  <2> HIDE DEF A
  <2> QED
    BY <1>3, <1>4, SetInduction
<1>6. R[q] + 1 \in Nat /\ R[q] < R[q] + 1
  BY <1>0
<1>7. f[q] \in Seq(given)
  BY <1>5, <1>6
<1> QED
  BY <1>7, WalkIsTable DEF f

------------------------------------------------------------------------------
(* What search and rangeScan return.                                       *)

(* search returns a value stored under the very key it looks for.          *)
LEMMA SearchSound ==
    ASSUME IInv, NEW key \in Key, Search(key) # None
    PROVE  <<key, Search(key)>> \in given
<1>1. PICK H, R : Measures(H, R)
  BY DEF IInv
<1>2. PICK p \in Page : p = FindLeaf(key) /\ nodes[p].leaf
  <2>1. \E n \in Nat : /\ Last(Path(key)) = Path(key)[n + 1]
                       /\ Path(key)[n + 1] \in Page /\ nodes[Path(key)[n + 1]].leaf
    BY <1>1, PathParts DEF IInv
  <2> QED
    BY <2>1 DEF FindLeaf
<1>3. nodes[p] \in Node /\ SoundAt(p, nodes[p], Page, H, R, given)
  BY <1>1 DEF IInv, TypeOK, Measures
<1> DEFINE Hits == {i \in 1..Len(nodes[p].keys) : nodes[p].keys[i] = key}
<1>4. Search(key) = IF Hits = {} THEN None ELSE nodes[p].vals[Min(Hits)]
  BY <1>2 DEF Search
<1>5. Hits \in SUBSET Nat /\ Hits # {}
  BY <1>4
<1>6. Min(Hits) \in Hits
  <2> HIDE DEF Hits
  <2> QED
    BY <1>5, MinIsLeast
<1>7. PICK i \in Hits : i = Min(Hits)
  BY <1>6
<1>8. Search(key) = nodes[p].vals[i]
  BY <1>4, <1>5, <1>7
<1>9. i \in 1..Len(nodes[p].keys) /\ nodes[p].keys[i] = key
  BY <1>7
<1>10. <<nodes[p].keys[i], nodes[p].vals[i]>> \in given
  BY <1>2, <1>3, <1>9 DEF SoundAt
<1> QED
  BY <1>8, <1>9, <1>10

(* rangeScan returns entries of the range only.                            *)
LEMMA RangeSound ==
    ASSUME IInv, NEW from \in Key, NEW to \in Key
    PROVE  ToSet(RangeScan(from, to)) \subseteq InRange(from, to)
<1>1. PICK H, R : Measures(H, R)
  BY DEF IInv
<1>2. PICK p \in Page : p = FindLeaf(from)
  <2>1. \E n \in Nat : /\ Last(Path(from)) = Path(from)[n + 1]
                       /\ Path(from)[n + 1] \in Page
    BY <1>1, PathParts DEF IInv
  <2> QED
    BY <2>1 DEF FindLeaf
<1>3. PICK met : met = EntriesFrom(p)
  OBVIOUS
<1>4. met \in Seq(given) /\ Len(met) \in Nat
  BY <1>1, <1>3, WalkGiven, LenProperties DEF IInv
<1>5. \A i \in 1..Len(met) : met[i] \in given /\ met[i][1] \in Nat
  <2>1. \A i \in 1..Len(met) : met[i] \in given
    BY <1>4, ElementOfSeq
  <2>2. \A e \in given : e[1] \in Nat
    BY BTreeAssumption DEF IInv, TypeOK
  <2> QED
    BY <2>1, <2>2
<1>6. from \in Nat /\ to \in Nat
  BY BTreeAssumption
<1> DEFINE Past == {i \in 1..Len(met) : met[i][1] > to} \cup {Len(met) + 1}
<1>7. PICK stop \in Past : stop = Min(Past) /\ \A y \in Past : stop <= y
  <2>1. Past \in SUBSET Nat /\ Past # {}
    BY <1>4
  <2> HIDE DEF Past
  <2> QED
    BY <2>1, MinIsLeast
<1>8. stop \in 1..(Len(met) + 1)
  BY <1>4
<1> DEFINE I == {i \in 1..(stop - 1) : met[i][1] >= from}
<1>9. RangeScan(from, to) = Picked(met, I)
  BY <1>2, <1>3, <1>7 DEF RangeScan
<1>10. \A i \in I : i \in 1..Len(met) /\ met[i] \in InRange(from, to)
  <2> TAKE i \in I
  <2>1. i \in 1..Len(met) /\ ~(stop <= i) /\ met[i][1] >= from
    BY <1>4, <1>8
  <2>2. i \notin Past
    BY <1>7, <2>1
  <2>3. ~(met[i][1] > to)
    BY <2>1, <2>2
  <2>4. from <= met[i][1] /\ met[i][1] <= to
    BY <1>5, <1>6, <2>1, <2>3
  <2> QED
    BY <1>5, <2>1, <2>4 DEF InRange
<1>11. I \in SUBSET (1..Len(met))
  BY <1>10
<1> HIDE DEF I
<1>12. /\ Len(Picked(met, I)) = Cardinality(I) /\ Cardinality(I) \in Nat
       /\ Picked(met, I) \in Seq(given)
       /\ \A n \in 1..Cardinality(I) : NthOf(I, n) \in I /\ Picked(met, I)[n] = met[NthOf(I, n)]
  BY <1>4, <1>11, PickedSeq
<1>13. \A n \in 1..Cardinality(I) : Picked(met, I)[n] \in InRange(from, to)
  BY <1>10, <1>12
<1>14. DOMAIN Picked(met, I) = 1..Cardinality(I)
  BY <1>12, LenProperties
<1> QED
  BY <1>9, <1>13, <1>14 DEF ToSet

(* With any number of keys to a node, repeated keys, and insertions that   *)
(* broke off between two page writes: search never returns a value that    *)
(* was not inserted under the very key, and rangeScan no entry outside its *)
(* range (btree.cpp: search, rangeScan, insertRec, splitNode).             *)
THEOREM AnswersWereInserted == Spec => []NothingInvented
<1>1. IInv => NothingInvented
  BY SearchSound, RangeSound DEF NothingInvented
<1> QED
  BY <1>1, InvHolds, PTL
==============================================================================
