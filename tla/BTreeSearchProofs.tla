-------------------------- MODULE BTreeSearchProofs --------------------------
(***************************************************************************)
(* As long as no insertion broke off, search finds every key that was      *)
(* inserted: for every number of keys per node and of insertions, and keys *)
(* repeated in any way.                                                    *)
(*                                                                         *)
(* Two functions that no variable holds carry the proof: K, the keys below *)
(* each page, and A, the page each page is a child of.                     *)
(***************************************************************************)
EXTENDS BTreeProofs

------------------------------------------------------------------------------
(* Keys in place.                                                          *)

(* The keys in a leaf, or below the children of an inner node.             *)
KeysBelow(node, K) ==
    {k \in Key : IF node.leaf THEN \E i \in 1..Len(node.keys) : node.keys[i] = k
                 ELSE \E i \in 1..Len(node.kids) : k \in K[node.kids[i]]}

(* What holds of the node of page p: its keys are in order, its children   *)
(* are its own, and each of its separators is a key on its right which has *)
(* no greater key on its left and no lesser on its right.                  *)
Placed(p, node, K, A) ==
    /\ K[p] = KeysBelow(node, K)
    /\ \A i, j \in 1..Len(node.keys) : i < j => node.keys[i] <= node.keys[j]
    /\ ~node.leaf =>
         /\ Len(node.kids) = Len(node.keys) + 1
         /\ \A i \in 1..Len(node.kids) : A[node.kids[i]] = p
         /\ \A i, j \in 1..Len(node.kids) : node.kids[i] = node.kids[j] => i = j
         /\ \A i \in 1..Len(node.keys) :
              /\ node.keys[i] \in K[node.kids[i + 1]]
              /\ \A k \in K[node.kids[i]] : k <= node.keys[i]
              /\ \A k \in K[node.kids[i + 1]] : node.keys[i] <= k

Under   == [Nat -> SUBSET Key]
Parents == {A \in [Nat -> Nat \cup {NoPage}] : \A x \in Nat : A[x] # x}

(* All pages are in place, and the root is nobody's child.                 *)
Ordered(K, A) ==
    /\ K \in Under /\ A \in Parents
    /\ \A p \in Page : Placed(p, nodes[p], K, A)
    /\ \A x \in Nat \ Page : A[x] = NoPage
    /\ A[root] = NoPage
    /\ K[root] = {e[1] : e \in given}

(* A node stays in place when nothing changes for its children.            *)
LEMMA PlacedAgain ==
    ASSUME NEW p, NEW node, NEW K, NEW A, Placed(p, node, K, A),
           NEW L, NEW B, L[p] = K[p],
           ~node.leaf => \A i \in 1..Len(node.kids) :
                           L[node.kids[i]] = K[node.kids[i]] /\ B[node.kids[i]] = p,
           Len(node.keys) \in Nat
    PROVE  Placed(p, node, L, B)
<1>1. KeysBelow(node, L) = KeysBelow(node, K)
  BY DEF KeysBelow
<1>2. ASSUME ~node.leaf, NEW i \in 1..Len(node.keys)
      PROVE  /\ node.keys[i] \in L[node.kids[i + 1]]
             /\ \A k \in L[node.kids[i]] : k <= node.keys[i]
             /\ \A k \in L[node.kids[i + 1]] : node.keys[i] <= k
  <2>1. i \in 1..Len(node.kids) /\ i + 1 \in 1..Len(node.kids)
    BY <1>2 DEF Placed
  <2> QED
    BY <1>2, <2>1 DEF Placed
<1> QED
  BY <1>1, <1>2 DEF Placed

(* Which child a search takes: the separators before it are not greater    *)
(* than the keys below it, those behind it not less.                       *)
LEMMA AroundChild ==
    ASSUME NEW p, NEW node \in Node, ~node.leaf, NEW K \in Under, NEW A,
           Placed(p, node, K, A), NEW key \in Key, NEW q, q = ChildFor(node, key),
           q \in Nat, NEW k \in K[q] \cup {key}
    PROVE  /\ \A i \in 1..(ChildIndex(node, key) - 1) : node.keys[i] <= k
           /\ \A i \in ChildIndex(node, key)..Len(node.keys) : k <= node.keys[i]
<1> DEFINE N == Len(node.keys)
<1>1. PICK c : c = ChildIndex(node, key)
  OBVIOUS
<1>2. /\ node.keys \in Seq(Key) /\ N \in Nat
      /\ \A i \in 1..N : node.keys[i] \in Nat
  BY LenProperties, ElementOfSeq, BTreeAssumption DEF Node
<1>3. /\ c \in 1..(N + 1) /\ \A i \in 1..(c - 1) : node.keys[i] <= key
      /\ c <= N => key < node.keys[c]
  BY <1>1, <1>2, ChildIndexFacts
<1>4. q = node.kids[c]
  BY <1>1 DEF ChildFor
<1>5. k \in Nat /\ key \in Nat
  BY BTreeAssumption DEF Under
<1>6. /\ \A i, j \in 1..N : i < j => node.keys[i] <= node.keys[j]
      /\ c > 1 => \A x \in K[q] : node.keys[c - 1] <= x
      /\ c <= N => \A x \in K[q] : x <= node.keys[c]
  <2>1. c > 1 => c - 1 \in 1..N /\ (c - 1) + 1 = c
    BY <1>2, <1>3
  <2>2. c <= N => c \in 1..N
    BY <1>2, <1>3
  <2> QED
    BY <1>4, <2>1, <2>2 DEF Placed
<1>7. ASSUME NEW i \in 1..(c - 1) PROVE node.keys[i] <= k
  <2>1. i \in 1..N /\ c - 1 \in 1..N /\ c > 1 /\ (i = c - 1 \/ i < c - 1)
    BY <1>2, <1>3
  <2>2. node.keys[i] \in Nat /\ node.keys[c - 1] \in Nat
    BY <1>2, <2>1
  <2>3. node.keys[i] <= node.keys[c - 1]
    BY <1>6, <2>1, <2>2
  <2>4. CASE k = key
    BY <1>3, <2>4
  <2>5. CASE k \in K[q]
    BY <1>5, <1>6, <2>1, <2>2, <2>3, <2>5
  <2> QED
    BY <2>4, <2>5
<1>8. ASSUME NEW i \in c..N PROVE k <= node.keys[i]
  <2>1. i \in 1..N /\ c \in 1..N /\ (i = c \/ c < i) /\ c <= N
    BY <1>2, <1>3
  <2>2. node.keys[i] \in Nat /\ node.keys[c] \in Nat
    BY <1>2, <2>1
  <2>3. node.keys[c] <= node.keys[i]
    BY <1>6, <2>1, <2>2
  <2>4. k <= node.keys[c]
    BY <1>3, <1>5, <1>6, <2>1, <2>2
  <2> QED
    BY <1>5, <2>2, <2>3, <2>4
<1> QED
  BY <1>1, <1>7, <1>8

------------------------------------------------------------------------------
(* A new entry among old ones.                                             *)

(* A leaf with one more entry is in place, with one more key below it.     *)
LEMMA EntryPlaced ==
    ASSUME NEW p, NEW node \in Node, node.leaf, NEW K, NEW A, Placed(p, node, K, A),
           NEW key \in Key, NEW val \in Nat, Len(node.vals) = Len(node.keys),
           NEW L, L[p] = K[p] \cup {key}
    PROVE  /\ WithEntry(node, key, val) \in Node
           /\ WithEntry(node, key, val).leaf
           /\ Len(WithEntry(node, key, val).vals) = Len(WithEntry(node, key, val).keys)
           /\ Placed(p, WithEntry(node, key, val), L, A)
<1> DEFINE N  == Len(node.keys)
           i  == Place(node, key) + 1
           ks == InsertAt(node.keys, i, key)
           vs == InsertAt(node.vals, i, val)
           new == [node EXCEPT !.keys = ks, !.vals = vs]
<1>0. /\ node.keys \in Seq(Key) /\ node.vals \in Seq(Nat) /\ N \in Nat
      /\ \A j \in 1..N : node.keys[j] \in Key /\ node.keys[j] \in Nat
      /\ key \in Nat
  BY LenProperties, ElementOfSeq, BTreeAssumption DEF Node
<1>1. /\ i \in 1..(N + 1)
      /\ i > 1 => node.keys[i - 1] <= key
      /\ \A j \in i..N : key < node.keys[j]
  BY <1>0, PlaceFacts
<1>2. \A j, k \in 1..N : j < k => node.keys[j] <= node.keys[k]
  BY DEF Placed
<1> HIDE DEF i
<1>3. /\ ks \in Seq(Key) /\ Len(ks) = N + 1
      /\ \A j \in 1..(N + 1) :
           ks[j] = IF j < i THEN node.keys[j] ELSE IF j = i THEN key ELSE node.keys[j - 1]
  <2>1. PICK s \in Seq(Key) : s = node.keys /\ Len(s) = N
    BY <1>0
  <2>2. i \in 1..(Len(s) + 1)
    BY <1>1, <2>1
  <2>3. /\ InsertAt(s, i, key) \in Seq(Key) /\ Len(InsertAt(s, i, key)) = Len(s) + 1
        /\ \A j \in 1..(Len(s) + 1) :
             InsertAt(s, i, key)[j] = IF j < i THEN s[j] ELSE IF j = i THEN key ELSE s[j - 1]
    <3>1. PICK T : T = Key
      OBVIOUS
    <3>2. s \in Seq(T) /\ key \in T
      BY <3>1
    <3>3. InsertAt(s, i, key) \in Seq(T) /\ Len(InsertAt(s, i, key)) = Len(s) + 1
          /\ \A j \in 1..(Len(s) + 1) :
               InsertAt(s, i, key)[j] = IF j < i THEN s[j] ELSE IF j = i THEN key ELSE s[j - 1]
      BY <2>2, <3>2, InsertAtFacts
    <3> QED
      BY <3>1, <3>3
  <2> QED
    BY <2>1, <2>3
<1>4. vs \in Seq(Nat) /\ Len(vs) = N + 1
  <2>1. PICK T : T = Nat
    OBVIOUS
  <2>2. PICK s \in Seq(T) : s = node.vals /\ Len(s) = N
    BY <1>0, <2>1
  <2>3. i \in 1..(Len(s) + 1) /\ val \in T
    BY <1>1, <2>1, <2>2
  <2>4. InsertAt(s, i, val) \in Seq(T) /\ Len(InsertAt(s, i, val)) = Len(s) + 1
    BY <2>3, InsertAtFacts
  <2> QED
    BY <2>1, <2>2, <2>4
<1>5. WithEntry(node, key, val) = new
  BY DEF WithEntry, Place, i
<1> HIDE DEF ks, vs
<1>6. new \in Node /\ new.leaf /\ new.keys = ks /\ new.vals = vs
  <2>1. ks \in Seq(Key) /\ vs \in Seq(Nat)
    BY <1>3, <1>4
  <2>2. new \in Node
    BY <2>1 DEF Node
  <2>3. new.leaf /\ new.keys = ks /\ new.vals = vs
    BY DEF Node
  <2> QED
    BY <2>2, <2>3
<1> HIDE DEF new
<1>7. ASSUME NEW x \in 1..(N + 1), NEW y \in 1..(N + 1), x < y PROVE ks[x] <= ks[y]
  <2>1. CASE y < i
    <3>1. x \in 1..N /\ y \in 1..N /\ x < i
      BY <1>0, <1>1, <1>7, <2>1
    <3>2. ks[x] = node.keys[x] /\ ks[y] = node.keys[y]
      BY <1>3, <2>1, <3>1
    <3> QED
      BY <1>2, <1>7, <3>1, <3>2
  <2>2. CASE y = i
    <3>1. x < i /\ x \in 1..N /\ i - 1 \in 1..N /\ i > 1 /\ (x = i - 1 \/ x < i - 1)
      BY <1>0, <1>1, <1>7, <2>2
    <3>2. node.keys[x] \in Nat /\ node.keys[i - 1] \in Nat
      BY <1>0, <3>1
    <3>3. node.keys[x] <= node.keys[i - 1]
      BY <1>2, <3>1, <3>2
    <3>4. ks[x] = node.keys[x] /\ ks[y] = key
      BY <1>3, <2>2, <3>1
    <3> QED
      BY <1>0, <1>1, <3>1, <3>2, <3>3, <3>4
  <2>3. CASE y > i
    <3>1. y - 1 \in i..N /\ y - 1 \in 1..N /\ ~(y < i) /\ y # i
      BY <1>0, <1>1, <2>3
    <3>2. ks[y] = node.keys[y - 1] /\ node.keys[y - 1] \in Nat
      BY <1>0, <1>3, <3>1
    <3>3. CASE x < i
      <4>1. x \in 1..N /\ x < y - 1 /\ ks[x] = node.keys[x]
        BY <1>0, <1>1, <1>3, <2>3, <3>3
      <4> QED
        BY <1>2, <3>1, <3>2, <4>1
    <3>4. CASE x = i
      <4>1. ks[x] = key /\ key < node.keys[y - 1]
        BY <1>1, <1>3, <3>1, <3>4
      <4> QED
        BY <1>0, <3>2, <4>1
    <3>5. CASE x > i
      <4>1. x - 1 \in 1..N /\ x - 1 < y - 1 /\ ~(x < i) /\ x # i
        BY <1>0, <1>1, <1>7, <3>5
      <4>2. ks[x] = node.keys[x - 1]
        BY <1>3, <4>1
      <4> QED
        BY <1>2, <3>1, <3>2, <4>1, <4>2
    <3> QED
      BY <1>1, <3>3, <3>4, <3>5
  <2> QED
    BY <1>1, <2>1, <2>2, <2>3
<1>8. KeysBelow(new, L) = KeysBelow(node, K) \cup {key}
  <2>1. ASSUME NEW j \in 1..(N + 1) PROVE ks[j] = key \/ \E x \in 1..N : node.keys[x] = ks[j]
    <3>1. CASE j < i
      <4>1. j \in 1..N
        BY <1>0, <1>1, <3>1
      <4> QED
        BY <1>3, <3>1, <4>1
    <3>2. CASE j = i
      BY <1>3, <3>2
    <3>3. CASE j > i
      <4>1. j - 1 \in 1..N /\ ~(j < i) /\ j # i
        BY <1>0, <1>1, <3>3
      <4> QED
        BY <1>3, <4>1
    <3> QED
      BY <1>1, <3>1, <3>2, <3>3
  <2>2. ks[i] = key /\ i \in 1..(N + 1)
    BY <1>1, <1>3
  <2>3. ASSUME NEW x \in 1..N PROVE \E j \in 1..(N + 1) : ks[j] = node.keys[x]
    <3>1. CASE x < i
      <4>1. x \in 1..(N + 1)
        BY <1>0
      <4> QED
        BY <1>3, <3>1, <4>1
    <3>2. CASE ~(x < i)
      <4>1. x + 1 \in 1..(N + 1) /\ ~(x + 1 < i) /\ x + 1 # i /\ (x + 1) - 1 = x
        BY <1>0, <1>1, <3>2
      <4> QED
        BY <1>3, <4>1
    <3> QED
      BY <3>1, <3>2
  <2>4. ASSUME NEW k \in Key
        PROVE  (\E j \in 1..(N + 1) : ks[j] = k) <=> k = key \/ \E x \in 1..N : node.keys[x] = k
    <3>1. ASSUME NEW j \in 1..(N + 1), ks[j] = k
          PROVE  k = key \/ \E x \in 1..N : node.keys[x] = k
      BY <2>1, <3>1
    <3>2. ASSUME NEW x \in 1..N, node.keys[x] = k
          PROVE  \E j \in 1..(N + 1) : ks[j] = k
      BY <2>3, <3>2
    <3> QED
      BY <2>2, <3>1, <3>2
  <2>5. KeysBelow(new, L) = {k \in Key : \E j \in 1..(N + 1) : ks[j] = k}
    BY <1>3, <1>6 DEF KeysBelow
  <2>6. KeysBelow(node, K) = {k \in Key : \E x \in 1..N : node.keys[x] = k}
    BY DEF KeysBelow
  <2> QED
    BY <2>4, <2>5, <2>6
<1>9. L[p] = KeysBelow(new, L)
  BY <1>8 DEF Placed
<1>10. Placed(p, new, L, A)
  BY <1>3, <1>6, <1>7, <1>9 DEF Placed
<1> QED
  BY <1>3, <1>4, <1>5, <1>6, <1>10

(* An inner node p in place whose child q for a key has changed.           *)
OneChild(p, node, key, q, K, A, L, B) ==
    /\ node \in Node /\ ~node.leaf /\ K \in Under /\ Placed(p, node, K, A)
    /\ key \in Key /\ q = ChildFor(node, key)
    /\ L[p] = K[p] \cup {key}
    /\ \A i \in 1..Len(node.kids) : node.kids[i] # q => L[node.kids[i]] = K[node.kids[i]]
    /\ \A i \in 1..Len(node.kids) : B[node.kids[i]] = p

(* A node stays in place when its child for a key gets this key below it.  *)
LEMMA ChildGrows ==
    ASSUME NEW p, NEW node, NEW key, NEW q, NEW K, NEW A, NEW L, NEW B,
           OneChild(p, node, key, q, K, A, L, B), L[q] = K[q] \cup {key}
    PROVE  Placed(p, node, L, B)
<1>0. /\ node \in Node /\ ~node.leaf /\ K \in Under /\ Placed(p, node, K, A)
      /\ key \in Key /\ q = ChildFor(node, key)
      /\ L[p] = K[p] \cup {key}
      /\ \A i \in 1..Len(node.kids) : node.kids[i] # q => L[node.kids[i]] = K[node.kids[i]]
      /\ \A i \in 1..Len(node.kids) : B[node.kids[i]] = p
  BY DEF OneChild
<1> USE <1>0
<1> DEFINE N == Len(node.keys)
<1>1. PICK c : c = ChildIndex(node, key)
  OBVIOUS
<1>2. /\ node.keys \in Seq(Key) /\ N \in Nat /\ node.kids \in Seq(Nat)
      /\ Len(node.kids) = N + 1
      /\ \A i \in 1..(N + 1) : node.kids[i] \in Nat
  BY LenProperties, ElementOfSeq DEF Node, Placed
<1>3. c \in 1..(N + 1) /\ q = node.kids[c] /\ q \in Nat
  BY <1>1, <1>2, ChildIndexFacts DEF ChildFor
<1>4. \A i \in 1..(N + 1) : L[node.kids[i]] = K[node.kids[i]] \cup (IF i = c THEN {key} ELSE {})
  BY <1>2, <1>3 DEF Placed
<1>5. KeysBelow(node, L) = KeysBelow(node, K) \cup {key}
  BY <1>2, <1>3, <1>4 DEF KeysBelow
<1>6. ASSUME NEW i \in 1..N
      PROVE  /\ node.keys[i] \in L[node.kids[i + 1]]
             /\ \A k \in L[node.kids[i]] : k <= node.keys[i]
             /\ \A k \in L[node.kids[i + 1]] : node.keys[i] <= k
  <2>1. i \in 1..(N + 1) /\ i + 1 \in 1..(N + 1)
    BY <1>2
  <2>2. /\ node.keys[i] \in K[node.kids[i + 1]]
        /\ \A k \in K[node.kids[i]] : k <= node.keys[i]
        /\ \A k \in K[node.kids[i + 1]] : node.keys[i] <= k
    BY DEF Placed
  <2>3. i = c => key <= node.keys[i]
    <3>1. i = c => i \in c..N
      BY <1>2
    <3> QED
      BY <1>1, <1>3, <3>1, AroundChild
  <2>4. i + 1 = c => node.keys[i] <= key
    <3>1. i + 1 = c => i \in 1..(c - 1)
      BY <1>2
    <3> QED
      BY <1>1, <1>3, <3>1, AroundChild
  <2>5. /\ L[node.kids[i]] = K[node.kids[i]] \cup (IF i = c THEN {key} ELSE {})
        /\ L[node.kids[i + 1]] = K[node.kids[i + 1]] \cup (IF i + 1 = c THEN {key} ELSE {})
    BY <1>4, <2>1
  <2>6. node.keys[i] \in L[node.kids[i + 1]]
    BY <2>2, <2>5
  <2>7. \A k \in L[node.kids[i]] : k <= node.keys[i]
    BY <2>2, <2>3, <2>5
  <2>8. \A k \in L[node.kids[i + 1]] : node.keys[i] <= k
    BY <2>2, <2>4, <2>5
  <2> QED
    BY <2>6, <2>7, <2>8
<1>7. L[p] = KeysBelow(node, L)
  BY <1>5 DEF Placed
<1> QED
  BY <1>2, <1>6, <1>7 DEF Placed

(* A node stays in place when it takes in the new half of its child: every *)
(* key below the child goes to one of the halves.                          *)
LEMMA ChildSplits ==
    ASSUME NEW p, NEW node, NEW key, NEW q, NEW K, NEW A, NEW L, NEW B,
           OneChild(p, node, key, q, K, A, L, B), L \in Under,
           NEW up, NEW sep \in Key, sep = up.key, NEW m \in Nat, m = up.page,
           L[q] \cup L[m] = K[q] \cup {key}, L[q] # {}, sep \in L[m],
           \A k \in L[q] : k <= sep, \A k \in L[m] : sep <= k,
           B[m] = p, \A i \in 1..Len(node.kids) : node.kids[i] # m
    PROVE  /\ WithChild(node, key, up) \in Node
           /\ Len(WithChild(node, key, up).keys) = Len(node.keys) + 1
           /\ ~WithChild(node, key, up).leaf
           /\ Placed(p, WithChild(node, key, up), L, B)
<1>a. /\ node \in Node /\ ~node.leaf /\ K \in Under /\ Placed(p, node, K, A)
      /\ key \in Key /\ q = ChildFor(node, key)
      /\ L[p] = K[p] \cup {key}
      /\ \A i \in 1..Len(node.kids) : node.kids[i] # q => L[node.kids[i]] = K[node.kids[i]]
      /\ \A i \in 1..Len(node.kids) : B[node.kids[i]] = p
  BY DEF OneChild
<1> USE <1>a
<1> DEFINE N  == Len(node.keys)
           c  == ChildIndex(node, key)
           ks == InsertAt(node.keys, c, sep)
           cs == InsertAt(node.kids, c + 1, m)
           new == [node EXCEPT !.keys = ks, !.kids = cs]
<1>0. /\ node.keys \in Seq(Key) /\ N \in Nat /\ node.kids \in Seq(Nat)
      /\ Len(node.kids) = N + 1
      /\ \A j \in 1..N : node.keys[j] \in Key /\ node.keys[j] \in Nat
      /\ \A j \in 1..(N + 1) : node.kids[j] \in Nat
  BY LenProperties, ElementOfSeq, BTreeAssumption DEF Node, Placed
<1>1. /\ c \in 1..(N + 1) /\ q = node.kids[c] /\ q \in Nat
  BY <1>0, ChildIndexFacts DEF ChildFor
<1>2. \A k \in L[q] \cup L[m] :
        /\ k \in Nat
        /\ \A i \in 1..(c - 1) : node.keys[i] <= k
        /\ \A i \in c..N : k <= node.keys[i]
  <2>1. \A k \in L[q] \cup L[m] : k \in K[q] \cup {key} /\ k \in Nat
    BY <1>1, BTreeAssumption DEF Under
  <2>2. \A k \in K[q] \cup {key} : /\ \A i \in 1..(c - 1) : node.keys[i] <= k
                                   /\ \A i \in c..N : k <= node.keys[i]
    BY <1>1, AroundChild
  <2> QED
    BY <2>1, <2>2
<1>3. sep \in Nat /\ sep \in L[q] \cup L[m]
  BY BTreeAssumption
<1>4. /\ \A j, k \in 1..N : j < k => node.keys[j] <= node.keys[k]
      /\ \A i, j \in 1..(N + 1) : node.kids[i] = node.kids[j] => i = j
      /\ \A i \in 1..N : /\ node.keys[i] \in K[node.kids[i + 1]]
                         /\ \A k \in K[node.kids[i]] : k <= node.keys[i]
                         /\ \A k \in K[node.kids[i + 1]] : node.keys[i] <= k
  BY <1>0 DEF Placed
<1>5. WithChild(node, key, up) = new
  BY DEF WithChild
<1> HIDE DEF c
<1>6. /\ ks \in Seq(Key) /\ Len(ks) = N + 1
      /\ \A j \in 1..(N + 1) :
           ks[j] = IF j < c THEN node.keys[j] ELSE IF j = c THEN sep ELSE node.keys[j - 1]
  <2>1. PICK T : T = Key
    OBVIOUS
  <2>2. PICK s \in Seq(T) : s = node.keys /\ Len(s) = N
    BY <1>0, <2>1
  <2>3. c \in 1..(Len(s) + 1) /\ sep \in T
    BY <1>1, <2>1, <2>2
  <2>4. /\ InsertAt(s, c, sep) \in Seq(T) /\ Len(InsertAt(s, c, sep)) = Len(s) + 1
        /\ \A j \in 1..(Len(s) + 1) :
             InsertAt(s, c, sep)[j] = IF j < c THEN s[j] ELSE IF j = c THEN sep ELSE s[j - 1]
    BY <2>3, InsertAtFacts
  <2> QED
    BY <2>1, <2>2, <2>4
<1>7. /\ cs \in Seq(Nat) /\ Len(cs) = N + 2
      /\ \A j \in 1..(N + 2) :
           cs[j] = IF j < c + 1 THEN node.kids[j] ELSE IF j = c + 1 THEN m ELSE node.kids[j - 1]
  <2>1. PICK T : T = Nat
    OBVIOUS
  <2>2. PICK s \in Seq(T) : s = node.kids /\ Len(s) = N + 1
    BY <1>0, <2>1
  <2>3. PICK i : i = c + 1
    OBVIOUS
  <2>4. i \in 1..(Len(s) + 1) /\ m \in T /\ Len(s) + 1 = N + 2
    BY <1>0, <1>1, <2>1, <2>2, <2>3
  <2>5. /\ InsertAt(s, i, m) \in Seq(T) /\ Len(InsertAt(s, i, m)) = Len(s) + 1
        /\ \A j \in 1..(Len(s) + 1) :
             InsertAt(s, i, m)[j] = IF j < i THEN s[j] ELSE IF j = i THEN m ELSE s[j - 1]
    BY <2>4, InsertAtFacts
  <2> QED
    BY <2>1, <2>2, <2>3, <2>4, <2>5
<1> HIDE DEF ks, cs
<1>8. new \in Node /\ ~new.leaf /\ new.keys = ks /\ new.kids = cs
  BY <1>6, <1>7 DEF Node
<1> HIDE DEF new
(* The places of the new node, seen from those of the old one.             *)
<1>9. /\ \A j \in 1..(c - 1) : j \in 1..N /\ ks[j] = node.keys[j]
      /\ ks[c] = sep
      /\ \A j \in c..N : j \in 1..N /\ ks[j + 1] = node.keys[j]
      /\ \A j \in 1..c : j \in 1..(N + 1) /\ cs[j] = node.kids[j]
      /\ cs[c + 1] = m
      /\ \A j \in (c + 1)..(N + 1) : j \in 1..(N + 1) /\ cs[j + 1] = node.kids[j]
  <2>1. ASSUME NEW j \in 1..(c - 1) PROVE j \in 1..N /\ ks[j] = node.keys[j]
    <3>1. j \in 1..(N + 1) /\ j \in 1..N /\ j < c
      BY <1>0, <1>1
    <3> QED
      BY <1>6, <3>1
  <2>2. ASSUME NEW j \in c..N PROVE j \in 1..N /\ ks[j + 1] = node.keys[j]
    <3>1. j + 1 \in 1..(N + 1) /\ j \in 1..N /\ ~(j + 1 < c) /\ j + 1 # c /\ (j + 1) - 1 = j
      BY <1>0, <1>1
    <3> QED
      BY <1>6, <3>1
  <2>3. ASSUME NEW j \in 1..c PROVE j \in 1..(N + 1) /\ cs[j] = node.kids[j]
    <3>1. j \in 1..(N + 2) /\ j \in 1..(N + 1) /\ j < c + 1
      BY <1>0, <1>1
    <3> QED
      BY <1>7, <3>1
  <2>4. ASSUME NEW j \in (c + 1)..(N + 1) PROVE j \in 1..(N + 1) /\ cs[j + 1] = node.kids[j]
    <3>0. j \in Int /\ c \in Int /\ c + 1 <= j /\ j <= N + 1 /\ 1 <= c
      BY <1>0, <1>1
    <3>1. /\ j + 1 \in 1..(N + 2) /\ j \in 1..(N + 1) /\ ~(j + 1 < c + 1) /\ j + 1 # c + 1
          /\ (j + 1) - 1 = j
      BY <1>0, <3>0
    <3>2. PICK x \in 1..(N + 2) : x = j + 1 /\ ~(x < c + 1) /\ x # c + 1 /\ x - 1 = j
      BY <3>1
    <3>3. cs[x] = node.kids[x - 1]
      BY <1>7, <3>2
    <3> QED
      BY <3>1, <3>2, <3>3
  <2>5. ks[c] = sep /\ cs[c + 1] = m
    <3>1. c \in 1..(N + 1) /\ ~(c < c)
      BY <1>0, <1>1
    <3>2. PICK d \in 1..(N + 2) : d = c + 1 /\ ~(d < d)
      BY <1>0, <1>1
    <3>3. ks[c] = sep
      BY <1>6, <3>1
    <3>4. cs[d] = m
      BY <1>7, <3>2
    <3> QED
      BY <3>2, <3>3, <3>4
  <2> QED
    BY <2>1, <2>2, <2>3, <2>4, <2>5
<1>10. ASSUME NEW x \in 1..(N + 1), NEW y \in 1..(N + 1), x < y PROVE ks[x] <= ks[y]
  <2>0. \A i \in 1..N : \A j \in 1..N : i <= j => node.keys[i] <= node.keys[j]
    <3> TAKE i \in 1..N
    <3> TAKE j \in 1..N
    <3>1. i = j \/ i < j \/ ~(i <= j)
      OBVIOUS
    <3>2. node.keys[i] \in Nat /\ node.keys[j] \in Nat
      BY <1>0
    <3> QED
      BY <1>4, <3>1, <3>2
  <2>1. CASE y < c
    <3>1. x \in 1..(c - 1) /\ y \in 1..(c - 1) /\ x <= y
      BY <1>1, <1>10, <2>1
    <3> QED
      BY <1>9, <2>0, <3>1
  <2>2. CASE y = c
    <3>1. x \in 1..(c - 1)
      BY <1>1, <1>10, <2>2
    <3> QED
      BY <1>2, <1>3, <1>9, <2>2, <3>1
  <2>3. CASE y > c
    <3>1. PICK z \in c..N : y = z + 1
      <4>1. y - 1 \in c..N /\ y = (y - 1) + 1
        BY <1>0, <1>1, <2>3
      <4> QED
        BY <4>1
    <3>2. CASE x < c
      <4>1. x \in 1..(c - 1) /\ x <= z
        BY <1>1, <3>1, <3>2
      <4> QED
        BY <1>9, <2>0, <3>1, <4>1
    <3>3. CASE x = c
      BY <1>2, <1>3, <1>9, <3>1, <3>3
    <3>4. CASE x > c
      <4>1. PICK v \in c..N : x = v + 1 /\ v <= z
        <5>1. x - 1 \in c..N /\ x = (x - 1) + 1 /\ x - 1 <= z
          BY <1>0, <1>1, <1>10, <3>1, <3>4
        <5> QED
          BY <5>1
      <4> QED
        BY <1>9, <2>0, <3>1, <4>1
    <3> QED
      BY <1>1, <3>2, <3>3, <3>4
  <2> QED
    BY <1>1, <2>1, <2>2, <2>3
(* Each place among the children is old, or that of the new page.          *)
<1>11. ASSUME NEW x \in 1..(N + 2)
       PROVE  \/ x = c + 1 /\ cs[x] = m
              \/ x \in 1..c /\ x \in 1..(N + 1) /\ cs[x] = node.kids[x]
              \/ x - 1 \in (c + 1)..(N + 1) /\ x - 1 \in 1..(N + 1) /\ cs[x] = node.kids[x - 1]
  <2>1. CASE x < c + 1
    <3>1. x \in 1..c
      BY <1>0, <1>1, <2>1
    <3> QED
      BY <1>9, <3>1
  <2>2. CASE x = c + 1
    BY <1>9, <2>2
  <2>3. CASE x > c + 1
    <3>1. PICK z \in (c + 1)..(N + 1) : z = x - 1 /\ x = z + 1
      <4>1. x - 1 \in (c + 1)..(N + 1) /\ x = (x - 1) + 1
        BY <1>0, <1>1, <2>3
      <4> QED
        BY <4>1
    <3> QED
      BY <1>9, <3>1
  <2> QED
    BY <1>1, <2>1, <2>2, <2>3
<1>12. ASSUME NEW x \in 1..(N + 2), NEW y \in 1..(N + 2), cs[x] = cs[y] PROVE x = y
  <2>1. PICK i : i = x - 1 /\ x = i + 1
    BY <1>0
  <2>2. PICK j : j = y - 1 /\ y = j + 1
    BY <1>0
  <2>3. \/ x = c + 1 /\ cs[x] = m
        \/ x \in 1..c /\ x \in 1..(N + 1) /\ cs[x] = node.kids[x]
        \/ i \in (c + 1)..(N + 1) /\ i \in 1..(N + 1) /\ cs[x] = node.kids[i]
    BY <1>11, <2>1
  <2>4. \/ y = c + 1 /\ cs[y] = m
        \/ y \in 1..c /\ y \in 1..(N + 1) /\ cs[y] = node.kids[y]
        \/ j \in (c + 1)..(N + 1) /\ j \in 1..(N + 1) /\ cs[y] = node.kids[j]
    BY <1>11, <2>2
  <2>5. \A z \in 1..(N + 1) : node.kids[z] # m
    BY <1>0
  <2>6. \A v \in 1..c : \A z \in (c + 1)..(N + 1) : v # z
    BY <1>0, <1>1
  <2> QED
    BY <1>4, <1>12, <2>1, <2>2, <2>3, <2>4, <2>5, <2>6
<1>13. KeysBelow(new, L) = K[p] \cup {key}
  <2>1. ASSUME NEW k \in Key, NEW x \in 1..(N + 2), k \in L[cs[x]]
        PROVE  k = key \/ \E i \in 1..(N + 1) : k \in K[node.kids[i]]
    <3>1. CASE cs[x] = m \/ cs[x] = q
      BY <1>1, <2>1, <3>1
    <3>2. CASE cs[x] # m /\ cs[x] # q
      <4>1. PICK i \in 1..(N + 1) : cs[x] = node.kids[i]
        BY <1>11, <3>2
      <4>2. L[node.kids[i]] = K[node.kids[i]]
        BY <1>0, <3>2, <4>1
      <4> QED
        BY <2>1, <4>1, <4>2
    <3> QED
      BY <3>1, <3>2
  <2>2. c \in 1..(N + 2) /\ c + 1 \in 1..(N + 2) /\ c \in 1..c
    BY <1>0, <1>1
  <2>3. cs[c] = q /\ cs[c + 1] = m
    BY <1>1, <1>9, <2>2
  <2>4. ASSUME NEW k \in Key, k \in K[q] \/ k = key
        PROVE  \E x \in 1..(N + 2) : k \in L[cs[x]]
    BY <2>2, <2>3, <2>4
  <2>5. ASSUME NEW k \in Key, NEW i \in 1..(N + 1), k \in K[node.kids[i]]
        PROVE  \E x \in 1..(N + 2) : k \in L[cs[x]]
    <3>1. CASE node.kids[i] = q
      BY <2>4, <2>5, <3>1
    <3>2. CASE node.kids[i] # q
      <4>1. k \in L[node.kids[i]]
        BY <1>0, <2>5, <3>2
      <4>2. PICK x \in 1..(N + 2) : cs[x] = node.kids[i]
        <5>1. i \in 1..c \/ i \in (c + 1)..(N + 1)
          BY <1>0, <1>1
        <5>2. i \in 1..(N + 2) /\ i + 1 \in 1..(N + 2)
          BY <1>0
        <5> QED
          BY <1>9, <5>1, <5>2
      <4> QED
        BY <4>1, <4>2
    <3> QED
      BY <3>1, <3>2
  <2>6. KeysBelow(new, L) = {k \in Key : \E x \in 1..(N + 2) : k \in L[cs[x]]}
    BY <1>7, <1>8 DEF KeysBelow
  <2>7. KeysBelow(node, K) = {k \in Key : \E i \in 1..(N + 1) : k \in K[node.kids[i]]}
    BY <1>0 DEF KeysBelow
  <2>8. K[p] = KeysBelow(node, K)
    BY DEF Placed
  <2>9. ASSUME NEW k \in Key
        PROVE  (\E x \in 1..(N + 2) : k \in L[cs[x]])
               <=> k = key \/ \E i \in 1..(N + 1) : k \in K[node.kids[i]]
    <3>1. ASSUME NEW x \in 1..(N + 2), k \in L[cs[x]]
          PROVE  k = key \/ \E i \in 1..(N + 1) : k \in K[node.kids[i]]
      BY <2>1, <3>1
    <3>2. ASSUME NEW i \in 1..(N + 1), k \in K[node.kids[i]]
          PROVE  \E x \in 1..(N + 2) : k \in L[cs[x]]
      BY <2>5, <3>2
    <3>3. k = key => \E x \in 1..(N + 2) : k \in L[cs[x]]
      BY <2>4
    <3> QED
      BY <3>1, <3>2, <3>3
  <2>10. KeysBelow(new, L) = {k \in Key : \E i \in 1..(N + 1) : k \in K[node.kids[i]]} \cup {key}
    BY <2>6, <2>9
  <2> QED
    BY <2>7, <2>8, <2>10
(* The separators: the old ones left of the child, the one that is its     *)
(* left neighbour, the new one, and those on its right.                    *)
<1>14. ASSUME NEW x \in 1..(N + 1)
       PROVE  /\ ks[x] \in L[cs[x + 1]]
              /\ \A k \in L[cs[x]] : k <= ks[x]
              /\ \A k \in L[cs[x + 1]] : ks[x] <= k
  <2>0. ASSUME NEW i \in 1..(N + 1), i # c PROVE L[node.kids[i]] = K[node.kids[i]]
    <3>1. node.kids[i] # q
      BY <1>1, <1>4, <2>0
    <3> QED
      BY <1>0, <3>1
  <2>1. CASE x + 1 < c
    <3>1. PICK y : y = x + 1 /\ y \in 1..c /\ y \in 1..(N + 1) /\ y # c
      BY <1>1, <2>1
    <3>2. x \in 1..(c - 1) /\ x \in 1..c /\ x \in 1..N /\ x # c
      BY <1>1, <2>1
    <3>3. ks[x] = node.keys[x] /\ cs[x] = node.kids[x] /\ cs[y] = node.kids[y]
      BY <1>9, <3>1, <3>2
    <3>4. L[cs[x]] = K[node.kids[x]] /\ L[cs[y]] = K[node.kids[y]]
      BY <2>0, <3>1, <3>2, <3>3
    <3> QED
      BY <1>4, <3>1, <3>2, <3>3, <3>4
  <2>2. CASE x + 1 = c
    <3>1. x \in 1..(c - 1) /\ x \in 1..c /\ x \in 1..N /\ x # c /\ c \in 1..c
      BY <1>1, <2>2
    <3>2. ks[x] = node.keys[x] /\ cs[x] = node.kids[x] /\ cs[c] = q
      BY <1>1, <1>9, <3>1
    <3>3. L[cs[x]] = K[node.kids[x]]
      BY <2>0, <3>1, <3>2
    <3>4. /\ node.keys[x] \in K[q] /\ node.keys[x] \in Nat
          /\ \A k \in K[node.kids[x]] : k <= node.keys[x]
      BY <1>0, <1>1, <1>4, <2>2, <3>1
    <3>5. \A k \in L[q] : node.keys[x] <= k
      BY <1>2, <3>1
    <3>6. node.keys[x] \in L[q]
      <4>1. PICK k : k \in L[q] /\ k \in Nat /\ node.keys[x] <= k /\ k <= sep
        BY <1>2, <3>5
      <4>2. CASE node.keys[x] \in L[m]
        <5>1. sep <= node.keys[x]
          BY <4>2
        <5>2. node.keys[x] = k
          BY <1>3, <3>4, <4>1, <5>1
        <5> QED
          BY <4>1, <5>2
      <4> QED
        BY <3>4, <4>2
    <3> QED
      BY <2>2, <3>2, <3>3, <3>4, <3>5, <3>6
  <2>3. CASE x = c
    <3>1. c \in 1..c
      BY <1>1
    <3>2. ks[x] = sep /\ cs[x] = q /\ cs[x + 1] = m
      BY <1>1, <1>9, <2>3, <3>1
    <3> QED
      BY <3>2
  <2>4. CASE x = c + 1
    <3>1. c \in c..N /\ c \in 1..N
      BY <1>0, <1>1, <2>4
    <3>2. PICK y : y = c + 1 /\ y \in (c + 1)..(N + 1) /\ y \in 1..(N + 1) /\ y # c
      BY <1>0, <1>1, <2>4
    <3>3. cs[y + 1] = node.kids[y]
      BY <1>9, <3>2
    <3>4. ks[x] = node.keys[c] /\ cs[x] = m
      BY <1>9, <2>4, <3>1
    <3>5. L[cs[y + 1]] = K[node.kids[y]]
      BY <2>0, <3>2, <3>3
    <3>6. node.keys[c] \in K[node.kids[y]] /\ \A k \in K[node.kids[y]] : node.keys[c] <= k
      BY <1>4, <3>1, <3>2
    <3>7. \A k \in L[m] : k <= node.keys[c]
      BY <1>2, <3>1
    <3>8. x = y
      BY <2>4, <3>2
    <3>9. cs[x] = m /\ L[cs[x + 1]] = K[node.kids[y]]
      BY <3>4, <3>5, <3>8
    <3> QED
      BY <3>4, <3>6, <3>7, <3>9
  <2>5. CASE x > c + 1
    <3>1. PICK z \in c..N : /\ x = z + 1 /\ z \in (c + 1)..(N + 1) /\ z \in 1..N
                            /\ z \in 1..(N + 1) /\ z # c
      <4>1. /\ x - 1 \in c..N /\ x = (x - 1) + 1 /\ x - 1 \in (c + 1)..(N + 1)
            /\ x - 1 \in 1..N /\ x - 1 \in 1..(N + 1) /\ x - 1 # c
        BY <1>0, <1>1, <2>5
      <4> QED
        BY <4>1
    <3>2. PICK y : y = z + 1 /\ y \in (c + 1)..(N + 1) /\ y \in 1..(N + 1) /\ y # c
      BY <1>0, <1>1, <3>1
    <3>3. ks[x] = node.keys[z] /\ cs[x] = node.kids[z] /\ cs[y + 1] = node.kids[y]
      <4>1. \A i \in c..N : ks[i + 1] = node.keys[i]
        BY <1>9
      <4>2. \A i \in (c + 1)..(N + 1) : cs[i + 1] = node.kids[i]
        BY <1>9
      <4> HIDE DEF ks, cs
      <4> QED
        BY <3>1, <3>2, <4>1, <4>2
    <3>4. L[cs[x]] = K[node.kids[z]] /\ L[cs[y + 1]] = K[node.kids[y]]
      BY <2>0, <3>1, <3>2, <3>3
    <3>5. x = y
      BY <3>1, <3>2
    <3>6. L[cs[x + 1]] = K[node.kids[z + 1]]
      BY <3>2, <3>4, <3>5
    <3> QED
      BY <1>4, <3>1, <3>3, <3>4, <3>6
  <2> QED
    BY <1>1, <2>1, <2>2, <2>3, <2>4, <2>5
<1>15. \A x \in 1..(N + 2) : B[cs[x]] = p
  <2> TAKE x \in 1..(N + 2)
  <2>1. cs[x] = m \/ \E i \in 1..(N + 1) : cs[x] = node.kids[i]
    BY <1>11
  <2> QED
    BY <1>0, <2>1
<1>16. Len(cs) = Len(ks) + 1
  BY <1>0, <1>6, <1>7
<1>17. L[p] = KeysBelow(new, L)
  BY <1>13
<1>18. Placed(p, new, L, B)
  BY <1>6, <1>7, <1>8, <1>10, <1>12, <1>14, <1>15, <1>16, <1>17 DEF Placed
<1> QED
  BY <1>5, <1>6, <1>8, <1>18

------------------------------------------------------------------------------
(* A node cut in two.                                                      *)

(* Both halves are in place, every key of S is below one of them, and the  *)
(* key that goes up separates them.                                        *)
Halved(half, p, new, S, L, B) ==
    /\ half.left \in Node /\ half.right \in Node /\ half.key \in Key
    /\ Placed(p, half.left, L, B) /\ Placed(new, half.right, L, B)
    /\ L[p] \cup L[new] = S /\ L[p] # {} /\ half.key \in L[new]
    /\ \A k \in L[p] : k <= half.key
    /\ \A k \in L[new] : half.key <= k

(* splitNode on a leaf: the key that goes up stays in the right half.      *)
LEMMA LeafHalvesPlaced ==
    ASSUME NEW p, NEW node \in Node, node.leaf, ~(Len(node.keys) <= ORDER),
           Len(node.vals) = Len(node.keys), NEW K, NEW A, Placed(p, node, K, A),
           NEW new \in Nat, NEW L, NEW B,
           L[p] = KeysBelow(LeafHalves(node, new).left, L),
           L[new] = KeysBelow(LeafHalves(node, new).right, L)
    PROVE  Halved(LeafHalves(node, new), p, new, K[p], L, B)
<1> DEFINE N == Len(node.keys)
           M == Middle(node)
           a == First(node.keys, M)
           b == From(node.keys, M + 1)
           l == Leaf(a, First(node.vals, M), new)
           r == Leaf(b, From(node.vals, M + 1), node.next)
           sep == node.keys[M + 1]
<1>0. /\ node.keys \in Seq(Key) /\ node.vals \in Seq(Nat) /\ N \in Nat
      /\ node.next \in Nat \cup {NoPage}
      /\ \A j \in 1..N : node.keys[j] \in Key /\ node.keys[j] \in Nat
  BY LenProperties, ElementOfSeq, BTreeAssumption DEF Node
<1>1. M \in Nat /\ 1 <= M /\ M + 1 <= N
  BY <1>0, MiddleInside
<1> HIDE DEF M
<1>2. /\ a \in Seq(Key) /\ Len(a) = M /\ \A j \in 1..M : a[j] = node.keys[j]
      /\ b \in Seq(Key) /\ Len(b) = N - M /\ \A j \in 1..(N - M) : b[j] = node.keys[M + j]
  <2>1. PICK T : T = Key
    OBVIOUS
  <2>2. PICK s \in Seq(T) : s = node.keys /\ Len(s) = N
    BY <1>0, <2>1
  <2>3. M \in 0..Len(s)
    BY <1>1, <2>2
  <2>4. /\ First(s, M) \in Seq(T) /\ Len(First(s, M)) = M
        /\ \A j \in 1..M : First(s, M)[j] = s[j]
        /\ From(s, M + 1) \in Seq(T) /\ Len(From(s, M + 1)) = Len(s) - M
        /\ \A j \in 1..(Len(s) - M) : From(s, M + 1)[j] = s[M + j]
    BY <2>3, PartFacts
  <2> QED
    BY <2>1, <2>2, <2>4
<1>3. First(node.vals, M) \in Seq(Nat) /\ From(node.vals, M + 1) \in Seq(Nat)
  <2>1. PICK T : T = Nat
    OBVIOUS
  <2>2. PICK s \in Seq(T) : s = node.vals /\ Len(s) = N
    BY <1>0, <2>1
  <2>3. M \in 0..Len(s)
    BY <1>1, <2>2
  <2>4. First(s, M) \in Seq(T) /\ From(s, M + 1) \in Seq(T)
    BY <2>3, PartFacts
  <2> QED
    BY <2>1, <2>2, <2>4
<1> HIDE DEF a, b
<1>4. /\ l \in Node /\ l.leaf /\ l.keys = a
      /\ r \in Node /\ r.leaf /\ r.keys = b
  BY <1>0, <1>2, <1>3 DEF Leaf, Node
<1>5. /\ LeafHalves(node, new).left = l /\ LeafHalves(node, new).right = r
      /\ LeafHalves(node, new).key = sep
  BY DEF LeafHalves, M, a, b
<1> HIDE DEF l, r
<1>6. /\ \A i, j \in 1..N : i < j => node.keys[i] <= node.keys[j]
      /\ K[p] = {k \in Key : \E i \in 1..N : node.keys[i] = k}
  BY DEF Placed, KeysBelow
<1>7. /\ L[p] = {k \in Key : \E i \in 1..M : node.keys[i] = k}
      /\ L[new] = {k \in Key : \E i \in 1..(N - M) : node.keys[M + i] = k}
  <2>1. KeysBelow(l, L) = {k \in Key : \E i \in 1..M : a[i] = k}
    BY <1>2, <1>4 DEF KeysBelow
  <2>2. KeysBelow(r, L) = {k \in Key : \E i \in 1..(N - M) : b[i] = k}
    BY <1>2, <1>4 DEF KeysBelow
  <2>3. \A k : (\E i \in 1..M : a[i] = k) <=> (\E i \in 1..M : node.keys[i] = k)
    BY <1>2
  <2>4. \A k : (\E i \in 1..(N - M) : b[i] = k)
               <=> (\E i \in 1..(N - M) : node.keys[M + i] = k)
    BY <1>2
  <2>5. L[p] = KeysBelow(l, L) /\ L[new] = KeysBelow(r, L)
    BY <1>5
  <2>6. L[p] = {k \in Key : \E i \in 1..M : node.keys[i] = k}
    BY <2>1, <2>3, <2>5
  <2>7. L[new] = {k \in Key : \E i \in 1..(N - M) : node.keys[M + i] = k}
    BY <2>2, <2>4, <2>5
  <2> QED
    BY <2>6, <2>7
<1>8. /\ \A i \in 1..M : i \in 1..N
      /\ \A i \in 1..(N - M) : M + i \in 1..N
      /\ \A i \in 1..N : i \in 1..M \/ (i - M \in 1..(N - M) /\ M + (i - M) = i)
      /\ M + 1 \in 1..N /\ 1 \in 1..(N - M)
  BY <1>0, <1>1
<1>9. L[p] \cup L[new] = K[p]
  BY <1>6, <1>7, <1>8
<1>10. node.keys[1] \in L[p] /\ sep \in L[new] /\ sep \in Key
  <2>1. 1 \in 1..M
    BY <1>1
  <2>2. node.keys[1] \in Key /\ node.keys[M + 1] \in Key
    BY <1>0, <1>1
  <2> QED
    BY <1>7, <1>8, <2>1, <2>2
<1>11. \A k \in L[p] : k <= sep
  <2> SUFFICES ASSUME NEW i \in 1..M PROVE node.keys[i] <= node.keys[M + 1]
    BY <1>7
  <2>1. i < M + 1
    BY <1>1
  <2> QED
    BY <1>6, <1>8, <2>1
<1>12. \A k \in L[new] : sep <= k
  <2> SUFFICES ASSUME NEW i \in 1..(N - M) PROVE node.keys[M + 1] <= node.keys[M + i]
    BY <1>7
  <2>1. M + 1 < M + i \/ i = 1
    BY <1>0, <1>1
  <2>2. node.keys[M + 1] \in Nat
    BY <1>0, <1>1
  <2> QED
    BY <1>6, <1>8, <2>1, <2>2
<1>13. Placed(p, l, L, B)
  <2>1. \A i, j \in 1..M : i < j => a[i] <= a[j]
    BY <1>2, <1>6, <1>8
  <2> QED
    BY <1>2, <1>4, <1>5, <2>1 DEF Placed
<1>14. Placed(new, r, L, B)
  <2>1. ASSUME NEW i \in 1..(N - M), NEW j \in 1..(N - M), i < j PROVE b[i] <= b[j]
    <3>1. M + i < M + j
      BY <1>1, <2>1
    <3>2. PICK x \in 1..N : x = M + i
      BY <1>8
    <3>3. PICK y \in 1..N : y = M + j
      BY <1>8
    <3>4. x < y /\ b[i] = node.keys[x] /\ b[j] = node.keys[y]
      BY <1>2, <3>1, <3>2, <3>3
    <3> QED
      BY <1>6, <3>4
  <2> QED
    BY <1>2, <1>4, <1>5, <2>1 DEF Placed
<1> QED
  BY <1>4, <1>5, <1>9, <1>10, <1>11, <1>12, <1>13, <1>14 DEF Halved

(* splitNode on an inner node: the key that goes up is below the first     *)
(* child of the right half.                                                *)
LEMMA InnerHalvesPlaced ==
    ASSUME NEW p, NEW node \in Node, ~node.leaf, ~(Len(node.keys) <= ORDER),
           NEW K \in Under, NEW A, Placed(p, node, K, A), NEW new \in Nat,
           NEW L, NEW B,
           L[p] = KeysBelow(InnerHalves(node).left, L),
           L[new] = KeysBelow(InnerHalves(node).right, L),
           \A i \in 1..Len(node.kids) : L[node.kids[i]] = K[node.kids[i]],
           \A i \in 1..Len(node.kids) :
             B[node.kids[i]] = IF i <= Middle(node) + 1 THEN p ELSE new
    PROVE  Halved(InnerHalves(node), p, new, K[p], L, B)
<1> DEFINE N == Len(node.keys)
           M == Middle(node)
           a == First(node.keys, M)
           b == First(node.kids, M + 1)
           c == From(node.keys, M + 2)
           d == From(node.kids, M + 2)
           l == Inner(a, b)
           r == Inner(c, d)
           sep == node.keys[M + 1]
<1>0. /\ node.keys \in Seq(Key) /\ node.kids \in Seq(Nat) /\ N \in Nat
      /\ Len(node.kids) = N + 1
      /\ \A j \in 1..N : node.keys[j] \in Key /\ node.keys[j] \in Nat
      /\ \A j \in 1..(N + 1) : node.kids[j] \in Nat
  BY LenProperties, ElementOfSeq, BTreeAssumption DEF Node, Placed
<1>1. M \in Nat /\ 1 <= M /\ M + 1 <= N
  BY <1>0, MiddleInside
<1>2. \A i \in 1..(N + 1) : B[node.kids[i]] = IF i <= M + 1 THEN p ELSE new
  BY <1>0
<1> HIDE DEF M
<1>3. /\ a \in Seq(Key) /\ Len(a) = M /\ \A j \in 1..M : a[j] = node.keys[j]
      /\ c \in Seq(Key) /\ Len(c) = N - M - 1
      /\ \A j \in 1..(N - M - 1) : c[j] = node.keys[M + 1 + j]
  <2>1. PICK T : T = Key
    OBVIOUS
  <2>2. PICK s \in Seq(T) : s = node.keys /\ Len(s) = N
    BY <1>0, <2>1
  <2>3. PICK m : m = M + 1
    OBVIOUS
  <2>4. M \in 0..Len(s) /\ m \in 0..Len(s) /\ m + 1 = M + 2 /\ N - m = N - M - 1
    BY <1>0, <1>1, <2>2, <2>3
  <2>5. /\ First(s, M) \in Seq(T) /\ Len(First(s, M)) = M
        /\ \A j \in 1..M : First(s, M)[j] = s[j]
    BY <2>4, PartFacts
  <2>6. /\ From(s, m + 1) \in Seq(T) /\ Len(From(s, m + 1)) = Len(s) - m
        /\ \A j \in 1..(Len(s) - m) : From(s, m + 1)[j] = s[m + j]
    BY <2>4, PartFacts
  <2> QED
    BY <2>1, <2>2, <2>3, <2>4, <2>5, <2>6
<1>4. /\ b \in Seq(Nat) /\ Len(b) = M + 1 /\ \A j \in 1..(M + 1) : b[j] = node.kids[j]
      /\ d \in Seq(Nat) /\ Len(d) = N - M
      /\ \A j \in 1..(N - M) : d[j] = node.kids[M + 1 + j]
  <2>1. PICK T : T = Nat
    OBVIOUS
  <2>2. PICK s \in Seq(T) : s = node.kids /\ Len(s) = N + 1
    BY <1>0, <2>1
  <2>3. PICK m : m = M + 1
    OBVIOUS
  <2>4. m \in 0..Len(s) /\ m + 1 = M + 2 /\ Len(s) - m = N - M
    BY <1>0, <1>1, <2>2, <2>3
  <2>5. /\ First(s, m) \in Seq(T) /\ Len(First(s, m)) = m
        /\ \A j \in 1..m : First(s, m)[j] = s[j]
        /\ From(s, m + 1) \in Seq(T) /\ Len(From(s, m + 1)) = Len(s) - m
        /\ \A j \in 1..(Len(s) - m) : From(s, m + 1)[j] = s[m + j]
    BY <2>4, PartFacts
  <2> QED
    BY <2>1, <2>2, <2>3, <2>4, <2>5
<1> HIDE DEF a, b, c, d
<1>5. /\ l \in Node /\ ~l.leaf /\ l.keys = a /\ l.kids = b
      /\ r \in Node /\ ~r.leaf /\ r.keys = c /\ r.kids = d
  <2>1. <<>> \in Seq(Nat)
    BY EmptySeq
  <2> QED
    BY <1>3, <1>4, <2>1 DEF Inner, Node
<1>6. /\ InnerHalves(node).left = l /\ InnerHalves(node).right = r
      /\ InnerHalves(node).key = sep
  BY DEF InnerHalves, M, a, b, c, d
<1> HIDE DEF l, r
<1>7. /\ \A i, j \in 1..N : i < j => node.keys[i] <= node.keys[j]
      /\ \A i, j \in 1..(N + 1) : node.kids[i] = node.kids[j] => i = j
      /\ \A i \in 1..N : /\ node.keys[i] \in K[node.kids[i + 1]]
                         /\ \A k \in K[node.kids[i]] : k <= node.keys[i]
                         /\ \A k \in K[node.kids[i + 1]] : node.keys[i] <= k
      /\ K[p] = {k \in Key : \E i \in 1..(N + 1) : k \in K[node.kids[i]]}
  BY <1>0 DEF Placed, KeysBelow
<1>8. /\ \A i \in 1..(M + 1) : i \in 1..(N + 1) /\ L[b[i]] = K[node.kids[i]]
      /\ \A i \in 1..(N - M) : M + 1 + i \in 1..(N + 1) /\ L[d[i]] = K[node.kids[M + 1 + i]]
      /\ \A i \in 1..M : i \in 1..N /\ i \in 1..(M + 1) /\ i + 1 \in 1..(M + 1)
      /\ \A i \in 1..(N - M - 1) : /\ M + 1 + i \in 1..N
                                   /\ i \in 1..(N - M) /\ i + 1 \in 1..(N - M)
                                   /\ (M + 1 + i) + 1 = M + 1 + (i + 1)
      /\ 1 \in 1..(N - M) /\ M + 1 \in 1..N
  <2>1. /\ \A i \in 1..(M + 1) : i \in 1..(N + 1)
        /\ \A i \in 1..(N - M) : M + 1 + i \in 1..(N + 1)
        /\ 1 \in 1..(N - M) /\ M + 1 \in 1..N
    BY <1>0, <1>1
  <2>2. \A i \in 1..M : i \in 1..N /\ i \in 1..(M + 1) /\ i + 1 \in 1..(M + 1)
    BY <1>0, <1>1
  <2>3. \A i \in 1..(N - M - 1) : /\ M + 1 + i \in 1..N
                                  /\ i \in 1..(N - M) /\ i + 1 \in 1..(N - M)
                                  /\ (M + 1 + i) + 1 = M + 1 + (i + 1)
    BY <1>0, <1>1
  <2> QED
    BY <1>0, <1>4, <2>1, <2>2, <2>3
<1>9. /\ L[p] = {k \in Key : \E i \in 1..(M + 1) : k \in K[node.kids[i]]}
      /\ L[new] = {k \in Key : \E i \in 1..(N - M) : k \in K[node.kids[M + 1 + i]]}
  <2>1. KeysBelow(l, L) = {k \in Key : \E i \in 1..(M + 1) : k \in L[b[i]]}
    BY <1>4, <1>5 DEF KeysBelow
  <2>2. KeysBelow(r, L) = {k \in Key : \E i \in 1..(N - M) : k \in L[d[i]]}
    BY <1>4, <1>5 DEF KeysBelow
  <2>3. \A k : (\E i \in 1..(M + 1) : k \in L[b[i]])
               <=> (\E i \in 1..(M + 1) : k \in K[node.kids[i]])
    BY <1>8
  <2>4. \A k : (\E i \in 1..(N - M) : k \in L[d[i]])
               <=> (\E i \in 1..(N - M) : k \in K[node.kids[M + 1 + i]])
    BY <1>8
  <2>5. L[p] = KeysBelow(l, L) /\ L[new] = KeysBelow(r, L)
    BY <1>6
  <2>6. L[p] = {k \in Key : \E i \in 1..(M + 1) : k \in K[node.kids[i]]}
    BY <2>1, <2>3, <2>5
  <2>7. L[new] = {k \in Key : \E i \in 1..(N - M) : k \in K[node.kids[M + 1 + i]]}
    BY <2>2, <2>4, <2>5
  <2> QED
    BY <2>6, <2>7
<1>10. L[p] \cup L[new] = K[p]
  <2>1. ASSUME NEW k \in Key, NEW i \in 1..(N + 1), k \in K[node.kids[i]]
        PROVE  k \in L[p] \/ k \in L[new]
    <3>1. CASE i <= M + 1
      <4>1. i \in 1..(M + 1)
        BY <1>1, <3>1
      <4> QED
        BY <1>9, <2>1, <4>1
    <3>2. CASE ~(i <= M + 1)
      <4>1. i - M - 1 \in 1..(N - M) /\ M + 1 + (i - M - 1) = i
        BY <1>0, <1>1, <3>2
      <4>2. PICK j \in 1..(N - M) : M + 1 + j = i
        BY <4>1
      <4> QED
        BY <1>9, <2>1, <4>2
    <3> QED
      BY <3>1, <3>2
  <2>2. L[p] \subseteq K[p]
    BY <1>7, <1>8, <1>9
  <2>3. L[new] \subseteq K[p]
    <3> SUFFICES ASSUME NEW k \in Key, NEW i \in 1..(N - M), k \in K[node.kids[M + 1 + i]]
                 PROVE  k \in K[p]
      BY <1>9
    <3>1. PICK j \in 1..(N + 1) : j = M + 1 + i
      BY <1>8
    <3> QED
      BY <1>7, <3>1
  <2>4. K[p] \subseteq L[p] \cup L[new]
    BY <1>7, <2>1
  <2> QED
    BY <2>2, <2>3, <2>4
<1>11. sep \in Key /\ sep \in Nat /\ sep \in L[new] /\ L[p] # {}
  <2>1. sep \in Key /\ sep \in Nat
    BY <1>0, <1>8
  <2>2. sep \in K[node.kids[M + 1 + 1]]
    <3>1. (M + 1) + 1 = M + 1 + 1
      OBVIOUS
    <3> QED
      BY <1>7, <1>8, <3>1
  <2>3. sep \in L[new]
    BY <1>8, <1>9, <2>1, <2>2
  <2>4. /\ 1 \in 1..N /\ 1 \in 1..M /\ 1 + 1 \in 1..(M + 1)
    BY <1>0, <1>1
  <2>5. node.keys[1] \in K[node.kids[1 + 1]] /\ node.keys[1] \in Key
    BY <1>0, <1>7, <2>4
  <2>6. PICK j \in 1..(M + 1) : node.keys[1] \in K[node.kids[j]]
    BY <2>4, <2>5
  <2>7. node.keys[1] \in L[p]
    BY <1>9, <2>5, <2>6
  <2> QED
    BY <2>1, <2>3, <2>7
<1>12. \A k \in L[p] : k <= sep
  <2> SUFFICES ASSUME NEW k \in Key, NEW i \in 1..(M + 1), k \in K[node.kids[i]]
               PROVE  k <= node.keys[M + 1]
    BY <1>9
  <2>1. i \in 1..N /\ M + 1 \in 1..N /\ (i < M + 1 \/ i = M + 1)
    BY <1>1, <1>8
  <2>2. k \in Nat /\ node.keys[i] \in Nat /\ node.keys[M + 1] \in Nat
    BY <1>0, <2>1, BTreeAssumption
  <2>3. k <= node.keys[i]
    BY <1>7, <2>1
  <2>4. i < M + 1 => node.keys[i] <= node.keys[M + 1]
    BY <1>7, <2>1
  <2> QED
    BY <2>1, <2>2, <2>3, <2>4
<1>13. \A k \in L[new] : sep <= k
  <2> SUFFICES ASSUME NEW k \in Key, NEW i \in 1..(N - M), k \in K[node.kids[M + 1 + i]]
               PROVE  node.keys[M + 1] <= k
    BY <1>9
  <2>1. PICK j \in 1..N : j = M + i /\ j + 1 = M + 1 + i /\ (M + 1 < j \/ M + 1 = j)
    <3>1. M + i \in 1..N /\ (M + i) + 1 = M + 1 + i /\ (M + 1 < M + i \/ M + 1 = M + i)
      BY <1>0, <1>1
    <3> QED
      BY <3>1
  <2>2. k \in Nat /\ node.keys[j] \in Nat /\ node.keys[M + 1] \in Nat /\ M + 1 \in 1..N
    BY <1>0, <1>8, BTreeAssumption
  <2>3. node.keys[j] <= k
    BY <1>7, <2>1
  <2>4. M + 1 < j => node.keys[M + 1] <= node.keys[j]
    BY <1>7, <2>1, <2>2
  <2> QED
    BY <2>1, <2>2, <2>3, <2>4
<1>14. Placed(p, l, L, B)
  <2>1. \A i, j \in 1..M : i < j => a[i] <= a[j]
    BY <1>3, <1>7, <1>8
  <2>2. \A i \in 1..(M + 1) : B[b[i]] = p
    <3> TAKE i \in 1..(M + 1)
    <3>1. i <= M + 1
      BY <1>1
    <3> QED
      BY <1>2, <1>4, <1>8, <3>1
  <2>3. ASSUME NEW i \in 1..(M + 1), NEW j \in 1..(M + 1), b[i] = b[j] PROVE i = j
    <3>1. i \in 1..(N + 1) /\ j \in 1..(N + 1)
      BY <1>8
    <3>2. node.kids[i] = node.kids[j]
      BY <1>4, <2>3
    <3> QED
      BY <1>7, <3>1, <3>2
  <2>4. ASSUME NEW i \in 1..M
        PROVE  /\ a[i] \in L[b[i + 1]]
               /\ \A k \in L[b[i]] : k <= a[i]
               /\ \A k \in L[b[i + 1]] : a[i] <= k
    <3>1. i \in 1..N /\ i \in 1..(M + 1) /\ i + 1 \in 1..(M + 1)
      BY <1>8
    <3>2. /\ a[i] = node.keys[i] /\ L[b[i]] = K[node.kids[i]]
          /\ L[b[i + 1]] = K[node.kids[i + 1]]
      BY <1>3, <1>8, <3>1
    <3> QED
      BY <1>7, <3>1, <3>2
  <2>5. Len(b) = Len(a) + 1 /\ Len(a) = M /\ Len(b) = M + 1
    BY <1>3, <1>4
  <2>6. ~l.leaf /\ l.keys = a /\ l.kids = b /\ L[p] = KeysBelow(l, L)
    BY <1>5, <1>6
  <2> HIDE DEF M
  <2> QED
    BY <2>1, <2>2, <2>3, <2>4, <2>5, <2>6 DEF Placed
<1>15. Placed(new, r, L, B)
  <2>0. \A i \in 1..(N - M - 1) : M + 1 + i \in 1..N
    BY <1>8
  <2>1. ASSUME NEW i \in 1..(N - M - 1), NEW j \in 1..(N - M - 1), i < j PROVE c[i] <= c[j]
    <3>1. M + 1 + i < M + 1 + j
      BY <1>1, <2>1
    <3>2. PICK x \in 1..N : x = M + 1 + i
      BY <2>0
    <3>3. PICK y \in 1..N : y = M + 1 + j
      BY <2>0
    <3>4. x < y /\ c[i] = node.keys[x] /\ c[j] = node.keys[y]
      BY <1>3, <3>1, <3>2, <3>3
    <3> QED
      BY <1>7, <3>4
  <2>2. \A i \in 1..(N - M) : B[d[i]] = new
    <3> TAKE i \in 1..(N - M)
    <3>1. PICK j \in 1..(N + 1) : j = M + 1 + i /\ ~(j <= M + 1)
      <4>1. M + 1 + i \in 1..(N + 1) /\ ~(M + 1 + i <= M + 1)
        BY <1>0, <1>1
      <4> QED
        BY <4>1
    <3> QED
      BY <1>2, <1>4, <3>1
  <2>3. ASSUME NEW i \in 1..(N - M), NEW j \in 1..(N - M), d[i] = d[j] PROVE i = j
    <3>1. PICK x \in 1..(N + 1) : x = M + 1 + i
      BY <1>8
    <3>2. PICK y \in 1..(N + 1) : y = M + 1 + j
      BY <1>8
    <3>3. node.kids[x] = node.kids[y]
      BY <1>4, <2>3, <3>1, <3>2
    <3>4. x = y
      BY <1>7, <3>3
    <3> QED
      BY <1>1, <3>1, <3>2, <3>4
  <2>4. ASSUME NEW i \in 1..(N - M - 1)
        PROVE  /\ c[i] \in L[d[i + 1]]
               /\ \A k \in L[d[i]] : k <= c[i]
               /\ \A k \in L[d[i + 1]] : c[i] <= k
    <3>1. PICK x \in 1..N : x = M + 1 + i /\ x + 1 = M + 1 + (i + 1)
      BY <1>8
    <3>2. i \in 1..(N - M) /\ i + 1 \in 1..(N - M)
      BY <1>8
    <3>3. /\ c[i] = node.keys[x] /\ L[d[i]] = K[node.kids[x]]
          /\ L[d[i + 1]] = K[node.kids[x + 1]]
      BY <1>3, <1>8, <3>1, <3>2
    <3> QED
      BY <1>7, <3>3
  <2>5. (N - M) = (N - M - 1) + 1
    BY <1>0, <1>1
  <2>6. Len(d) = Len(c) + 1 /\ Len(c) = N - M - 1 /\ Len(d) = N - M
    BY <1>3, <1>4, <2>5
  <2>7. ~r.leaf /\ r.keys = c /\ r.kids = d /\ L[new] = KeysBelow(r, L)
    BY <1>5, <1>6
  <2> HIDE DEF N
  <2> QED
    BY <2>1, <2>2, <2>3, <2>4, <2>6, <2>7 DEF Placed
<1> QED
  BY <1>5, <1>6, <1>10, <1>11, <1>12, <1>13, <1>14, <1>15 DEF Halved

------------------------------------------------------------------------------
(* The pages after some writes, write by write.                            *)

(* Without a write all pages are as before.                                *)
LEMMA AfterNone ==
    ASSUME NEW w, w = <<>>
    PROVE  /\ DOMAIN AfterWrites(w) = Page
           /\ \A x \in Page : AfterWrites(w)[x] = nodes[x]
<1>1. Len(w) = 0 /\ 1..0 = {}
  BY EmptySeq
<1> QED
  BY <1>1 DEF AfterWrites

(* r is w and one more write, of node on page p.                           *)
OneMore(r, w, p, node) ==
    /\ r \in Seq(PageWrite)
    /\ DOMAIN AfterWrites(r) = DOMAIN AfterWrites(w) \cup {p}
    /\ AfterWrites(r)[p] = node
    /\ \A x \in DOMAIN AfterWrites(w) : x # p => AfterWrites(r)[x] = AfterWrites(w)[x]

(* A write changes the pages at its own page alone.                        *)
LEMMA AfterAppend ==
    ASSUME NEW w \in Seq(PageWrite), NEW p \in Nat, NEW node \in Node
    PROVE  OneMore(Append(w, Write(p, node)), w, p, node)
<1> PICK r : r = Append(w, Write(p, node))
  OBVIOUS
<1> DEFINE N == Len(w)
           OnW(x) == {i \in 1..N : w[i].page = x}
           OnR(x) == {i \in 1..(N + 1) : r[i].page = x}
           e == Write(p, node)
<1>0. N \in Nat
  BY LenProperties
<1>1. e \in PageWrite /\ e.page = p /\ e.node = node
  BY DEF Write, PageWrite
<1> HIDE DEF e
<1>2. /\ r \in Seq(PageWrite) /\ Len(r) = N + 1 /\ r[N + 1] = e
      /\ \A i \in 1..N : r[i] = w[i]
  <2>1. r = Append(w, e)
    BY DEF e
  <2> QED
    BY <1>1, <2>1, AppendProperties
<1>3. /\ \A i \in 1..N : i \in 1..(N + 1)
      /\ \A i \in 1..(N + 1) : i \in 1..N \/ i = N + 1
      /\ N + 1 \in 1..(N + 1)
  BY <1>0
<1>4. PICK D : D = Page \cup {w[i].page : i \in 1..N}
  OBVIOUS
<1>5. Page \cup {r[i].page : i \in 1..(N + 1)} = D \cup {p}
  <2>1. ASSUME NEW x PROVE x \in {r[i].page : i \in 1..(N + 1)} <=>
                           x \in {w[i].page : i \in 1..N} \/ x = p
    <3>1. ASSUME NEW i \in 1..(N + 1), x = r[i].page
          PROVE  x \in {w[j].page : j \in 1..N} \/ x = p
      BY <1>1, <1>2, <1>3, <3>1
    <3>2. ASSUME NEW i \in 1..N, x = w[i].page
          PROVE  x \in {r[j].page : j \in 1..(N + 1)}
      BY <1>2, <1>3, <3>2
    <3>3. p \in {r[j].page : j \in 1..(N + 1)}
      BY <1>1, <1>2, <1>3
    <3> QED
      BY <3>1, <3>2, <3>3
  <2> QED
    BY <1>4, <2>1
<1>6. AfterWrites(w) = [x \in D |-> IF OnW(x) = {} THEN nodes[x] ELSE w[Max(OnW(x))].node]
  BY <1>4 DEF AfterWrites
<1>7. AfterWrites(r) = [x \in D \cup {p} |->
                          IF OnR(x) = {} THEN nodes[x] ELSE r[Max(OnR(x))].node]
  BY <1>2, <1>5 DEF AfterWrites
<1>8. AfterWrites(r)[p] = node
  <2>1. N + 1 \in OnR(p)
    BY <1>1, <1>2, <1>3
  <2>2. PICK S : S = OnR(p)
    OBVIOUS
  <2>3. S \in SUBSET Nat /\ S # {} /\ S \subseteq 1..(N + 1) /\ N + 1 \in S
    BY <1>0, <2>1, <2>2
  <2>4. IsFiniteSet(S)
    <3>1. IsFiniteSet(1..(N + 1))
      BY <1>0, FS_Interval
    <3> QED
      BY <2>3, <3>1, FS_Subset
  <2>5. Max(S) \in S /\ \A y \in S : Max(S) >= y
    BY <2>3, <2>4, MaxIsGreatest
  <2>6. Max(S) = N + 1
    <3>1. PICK m : m = Max(S)
      OBVIOUS
    <3>2. m \in 1..(N + 1) /\ m >= N + 1
      BY <2>3, <2>5, <3>1
    <3>3. m = N + 1
      BY <1>0, <3>2
    <3> QED
      BY <3>1, <3>3
  <2> HIDE DEF OnR
  <2> QED
    BY <1>1, <1>2, <1>7, <2>2, <2>3, <2>6
<1>9. ASSUME NEW x \in D, x # p PROVE AfterWrites(r)[x] = AfterWrites(w)[x]
  <2>1. OnR(x) = OnW(x)
    BY <1>1, <1>2, <1>3, <1>9
  <2>2. CASE OnW(x) = {}
    BY <1>6, <1>7, <2>1, <2>2
  <2>3. CASE OnW(x) # {}
    <3>1. PICK S : S = OnW(x)
      OBVIOUS
    <3>2. S \in SUBSET Nat /\ S # {} /\ S \subseteq 1..N
      BY <1>0, <2>3, <3>1
    <3>3. IsFiniteSet(S)
      <4>1. IsFiniteSet(1..N)
        BY <1>0, FS_Interval
      <4> QED
        BY <3>2, <4>1, FS_Subset
    <3>4. Max(S) \in 1..N
      <4>1. Max(S) \in S
        BY <3>2, <3>3, MaxIsGreatest
      <4> QED
        BY <3>2, <4>1
    <3>5. r[Max(S)] = w[Max(S)]
      BY <1>2, <3>4
    <3> HIDE DEF OnR, OnW
    <3>6. AfterWrites(r)[x] = r[Max(S)].node
      BY <1>7, <2>1, <3>1, <3>2
    <3>7. AfterWrites(w)[x] = w[Max(S)].node
      BY <1>6, <3>1, <3>2
    <3> QED
      BY <3>5, <3>6, <3>7
  <2> QED
    BY <2>2, <2>3
<1>10. DOMAIN AfterWrites(w) = D /\ DOMAIN AfterWrites(r) = D \cup {p}
  BY <1>4, <1>6, <1>7
<1> QED
  BY <1>2, <1>8, <1>9, <1>10 DEF OneMore

------------------------------------------------------------------------------
(* The way up: K and A are the keys below and the parents before the       *)
(* insertion, h the levels.                                                *)

(* The pages F after the writes made below q, with the keys L below them   *)
(* and the parents B: only those in T, from the leaf up to q, and new ones *)
(* have changed.                                                           *)
Local(F, T, L, B, q, K, A, h) ==
    /\ L \in Under /\ B \in Parents
    /\ T \in SUBSET Page /\ q \in T
    /\ \A x \in T : h[x] <= h[q] /\ (x # q => A[x] \in T)
    /\ \A x \in Page \ T : F[x] = nodes[x] /\ L[x] = K[x]
    /\ \A x \in Page : A[x] \notin T => B[x] = A[x]
    /\ Page \subseteq DOMAIN F
    /\ \A x \in DOMAIN F : x \in Nat /\ F[x] \in Node
    /\ \A x \in Nat \ DOMAIN F : B[x] = NoPage

(* Before insertRec ends at p: node is what p will hold, with the new key  *)
(* below it, and all else is in place but for the parent of p.             *)
Ready(w, p, node, T, L, B, key, K, A, h) ==
    /\ w \in Seq(PageWrite)
    /\ Local(AfterWrites(w), T, L, B, p, K, A, h)
    /\ \A x \in DOMAIN AfterWrites(w) :
         x # p /\ x # A[p] => Placed(x, AfterWrites(w)[x], L, B)
    /\ B[p] = A[p]
    /\ node \in Node /\ Placed(p, node, L, B)
    /\ L[p] = K[p] \cup {key}
    /\ node.leaf => Len(node.vals) = Len(node.keys)

(* What insertRec has done when it returns from the page q: all is in      *)
(* place but for the parent of q, which waits for the new half.            *)
Lifted(s, q, key, K, A, h) ==
    /\ s \in Climbs
    /\ \E T, L, B :
         /\ Local(AfterWrites(s.writes), T, L, B, q, K, A, h)
         /\ \A x \in DOMAIN AfterWrites(s.writes) :
              x # A[q] => Placed(x, AfterWrites(s.writes)[x], L, B)
         /\ s.up = <<>> => L[q] = K[q] \cup {key}
         /\ s.up # <<>> =>
              /\ s.up.key \in Key
              /\ s.up.page \in DOMAIN AfterWrites(s.writes) /\ s.up.page \notin Page
              /\ B[s.up.page] = NoPage
              /\ L[q] \cup L[s.up.page] = K[q] \cup {key}
              /\ L[q] # {} /\ s.up.key \in L[s.up.page]
              /\ \A k \in L[q] : k <= s.up.key
              /\ \A k \in L[s.up.page] : s.up.key <= k

(* A changed node that is saved leaves all in place, and so do its halves. *)
LEMMA SavedFits ==
    ASSUME NEW w, NEW p \in Page, NEW node, NEW T, NEW L, NEW B, NEW key,
           NEW K, NEW A, NEW h, TypeOK, Ready(w, p, node, T, L, B, key, K, A, h),
           Len(node.keys) <= ORDER
    PROVE  Lifted(Saved(w, p, node), p, key, K, A, h)
<1>1. PICK r : r = Append(w, Write(p, node))
  OBVIOUS
<1>2. PICK F : F = AfterWrites(w)
  OBVIOUS
<1>3. PICK G : G = AfterWrites(r)
  OBVIOUS
<1>4. /\ w \in Seq(PageWrite) /\ Local(F, T, L, B, p, K, A, h)
      /\ \A x \in DOMAIN F : x # p /\ x # A[p] => Placed(x, F[x], L, B)
      /\ node \in Node /\ Placed(p, node, L, B) /\ L[p] = K[p] \cup {key}
  BY <1>2 DEF Ready
<1>5. p \in Nat /\ p \in DOMAIN F /\ p \in T
  BY <1>4 DEF TypeOK, Local
<1>6. /\ r \in Seq(PageWrite) /\ DOMAIN G = DOMAIN F /\ G[p] = node
      /\ \A x \in DOMAIN F : x # p => G[x] = F[x]
  <2>1. OneMore(r, w, p, node)
    <3>1. w \in Seq(PageWrite) /\ p \in Nat /\ node \in Node
      BY <1>4, <1>5
    <3> QED
      BY <1>1, <3>1, AfterAppend
  <2> QED
    BY <1>2, <1>3, <1>5, <2>1 DEF OneMore
<1>7. Local(G, T, L, B, p, K, A, h)
  <2>1. \A x \in Page \ T : G[x] = nodes[x]
    BY <1>4, <1>5, <1>6 DEF Local
  <2>2. \A x \in DOMAIN G : x \in Nat /\ G[x] \in Node
    BY <1>4, <1>6 DEF Local
  <2> QED
    BY <1>4, <1>6, <2>1, <2>2 DEF Local
<1>8. \A x \in DOMAIN G : x # A[p] => Placed(x, G[x], L, B)
  BY <1>4, <1>6
<1>9. Saved(w, p, node) = [writes |-> r, up |-> <<>>]
  BY <1>1 DEF Saved
<1>10. Saved(w, p, node) \in Climbs
  BY <1>6, <1>9 DEF Climbs
<1> QED
  BY <1>3, <1>4, <1>6, <1>7, <1>8, <1>9, <1>10 DEF Lifted

(* An overfull node is split: what moves to the new page changes parents.  *)
LEMMA SavedSplits ==
    ASSUME NEW w, NEW p \in Page, NEW node, NEW T, NEW L, NEW B, NEW key,
           NEW K, NEW A, NEW h, TypeOK, Ready(w, p, node, T, L, B, key, K, A, h),
           ~(Len(node.keys) <= ORDER)
    PROVE  Lifted(Saved(w, p, node), p, key, K, A, h)
<1>1. PICK F : F = AfterWrites(w)
  OBVIOUS
<1>2. /\ w \in Seq(PageWrite) /\ Local(F, T, L, B, p, K, A, h)
      /\ \A x \in DOMAIN F : x # p /\ x # A[p] => Placed(x, F[x], L, B)
      /\ B[p] = A[p] /\ node \in Node /\ Placed(p, node, L, B) /\ L[p] = K[p] \cup {key}
      /\ node.leaf => Len(node.vals) = Len(node.keys)
  BY <1>1 DEF Ready
<1>3. /\ L \in Under /\ B \in Parents /\ T \in SUBSET Page /\ p \in T /\ Page \subseteq DOMAIN F
      /\ \A x \in DOMAIN F : x \in Nat /\ F[x] \in Node
      /\ \A x \in Nat \ DOMAIN F : B[x] = NoPage
      /\ \A x \in Page \ T : F[x] = nodes[x] /\ L[x] = K[x]
      /\ \A x \in Page : A[x] \notin T => B[x] = A[x]
      /\ \A x \in T : h[x] <= h[p] /\ (x # p => A[x] \in T)
  BY <1>2 DEF Local
<1>4. p \in Nat /\ p \in DOMAIN F /\ B[p] # p /\ NoPage \notin Nat
  BY <1>3, BTreeAssumption DEF Parents
<1>5. PICK new \in Nat : new = FreshPage(w) /\ new \notin DOMAIN F /\ new \notin Page
  <2>1. DOMAIN F = Reach(w, Len(w))
    BY <1>1 DEF AfterWrites, Reach
  <2>2. FreshPage(w) \in Nat /\ FreshPage(w) \notin Reach(w, Len(w))
    BY <1>2, FreshIsNew
  <2> QED
    BY <1>3, <2>1, <2>2
<1>6. PICK half : half = Halves(node, new)
  OBVIOUS
<1>7. B[new] = NoPage /\ new # p
  BY <1>3, <1>4, <1>5
(* The children of the node, and of any other page in place.               *)
<1>8. ASSUME ~node.leaf, NEW i \in 1..Len(node.kids)
      PROVE  /\ node.kids[i] \in Nat /\ node.kids[i] # p /\ node.kids[i] # new
             /\ B[node.kids[i]] = p
  <2>1. node.kids[i] \in Nat
    BY <1>2, ElementOfSeq DEF Node
  <2>2. B[node.kids[i]] = p
    BY <1>2, <1>8 DEF Placed
  <2> QED
    BY <1>4, <1>7, <2>1, <2>2
<1> DEFINE Goes(z) == ~node.leaf /\ \E i \in (Middle(node) + 2)..Len(node.kids) : z = node.kids[i]
           L2 == [z \in Nat |-> IF z = p THEN KeysBelow(half.left, L)
                                ELSE IF z = new THEN KeysBelow(half.right, L) ELSE L[z]]
           B2 == [z \in Nat |-> IF z = new THEN NoPage ELSE IF Goes(z) THEN new ELSE B[z]]
<1>9. \A z : Goes(z) => z \in Nat /\ B[z] = p /\ z # p /\ z # new
  <2> SUFFICES ASSUME ~node.leaf, NEW i \in (Middle(node) + 2)..Len(node.kids)
               PROVE  /\ node.kids[i] \in Nat /\ B[node.kids[i]] = p
                      /\ node.kids[i] # p /\ node.kids[i] # new
    OBVIOUS
  <2>1. Middle(node) \in Nat /\ Len(node.kids) \in Nat
    BY <1>2, MiddleInside, LenProperties DEF Node
  <2>2. i \in 1..Len(node.kids)
    BY <2>1
  <2> QED
    BY <1>8, <2>2
<1> HIDE DEF Goes
<1>10. L2 \in Under /\ B2 \in Parents
  <2>1. \A node1 : KeysBelow(node1, L) \in SUBSET Key
    BY DEF KeysBelow
  <2>2. L2 \in Under
    BY <1>3, <2>1 DEF Under
  <2>3. \A z \in Nat : B2[z] \in Nat \cup {NoPage} /\ B2[z] # z
    BY <1>3, <1>5, <1>9, BTreeAssumption DEF Parents
  <2> QED
    BY <2>2, <2>3 DEF Parents
<1>11. /\ L2[p] = KeysBelow(half.left, L) /\ L2[new] = KeysBelow(half.right, L)
       /\ \A z \in Nat : z # p /\ z # new => L2[z] = L[z]
       /\ B2[new] = NoPage
       /\ \A z \in Nat : z # new /\ ~Goes(z) => B2[z] = B[z]
       /\ \A z \in Nat : Goes(z) => B2[z] = new
  BY <1>4, <1>5, <1>7, <1>9
<1> HIDE DEF L2, B2
<1>12. Halved(half, p, new, L[p], L2, B2)
  <2>1. CASE node.leaf
    <3>1. half = LeafHalves(node, new)
      BY <1>6, <2>1 DEF Halves
    <3>2. half.left.leaf /\ half.right.leaf
      BY <3>1 DEF LeafHalves, Leaf
    <3>3. L2[p] = KeysBelow(half.left, L2) /\ L2[new] = KeysBelow(half.right, L2)
      BY <1>11, <3>2 DEF KeysBelow
    <3> QED
      BY <1>2, <2>1, <3>1, <3>3, LeafHalvesPlaced
  <2>2. CASE ~node.leaf
    <3>1. half = InnerHalves(node)
      BY <1>6, <2>2 DEF Halves
    <3>2. \A i \in 1..Len(node.kids) : L2[node.kids[i]] = L[node.kids[i]]
      BY <1>8, <1>11, <2>2
    <3>3. /\ Middle(node) \in Nat /\ 1 <= Middle(node) /\ Middle(node) + 1 <= Len(node.keys)
          /\ Len(node.keys) \in Nat /\ Len(node.kids) = Len(node.keys) + 1
          /\ node.kids \in Seq(Nat)
      BY <1>2, <2>2, MiddleInside, LenProperties DEF Node, Placed
    <3>4. ASSUME NEW i \in 1..Len(node.kids)
          PROVE  B2[node.kids[i]] = IF i <= Middle(node) + 1 THEN p ELSE new
      <4>1. CASE i <= Middle(node) + 1
        <5>1. ~Goes(node.kids[i])
          <6> SUFFICES ASSUME NEW j \in (Middle(node) + 2)..Len(node.kids),
                              node.kids[i] = node.kids[j]
                       PROVE  FALSE
            BY DEF Goes
          <6>1. j \in 1..Len(node.kids) /\ i # j
            BY <3>3, <4>1
          <6> QED
            BY <1>2, <2>2, <6>1 DEF Placed
        <5> QED
          BY <1>8, <1>11, <2>2, <4>1, <5>1
      <4>2. CASE ~(i <= Middle(node) + 1)
        <5>1. i \in (Middle(node) + 2)..Len(node.kids)
          BY <3>3, <4>2
        <5>2. Goes(node.kids[i])
          BY <2>2, <5>1 DEF Goes
        <5> QED
          BY <1>8, <1>11, <2>2, <4>2, <5>2
      <4> QED
        BY <4>1, <4>2
    <3>5. \A i \in 1..Len(half.left.kids) : L2[half.left.kids[i]] = L[half.left.kids[i]]
      <4>1. /\ Len(half.left.kids) = Middle(node) + 1
            /\ \A i \in 1..(Middle(node) + 1) : half.left.kids[i] = node.kids[i]
        <5>1. PICK S : S = Nat
          OBVIOUS
        <5>2. PICK s \in Seq(S) : s = node.kids
          BY <3>3, <5>1
        <5>3. PICK m : m = Middle(node) + 1
          OBVIOUS
        <5>4. m \in 0..Len(s)
          BY <3>3, <5>2, <5>3
        <5>5. Len(First(s, m)) = m /\ \A j \in 1..m : First(s, m)[j] = s[j]
          BY <5>4, PartFacts
        <5>6. half.left.kids = First(s, m)
          BY <3>1, <5>2, <5>3 DEF InnerHalves, Inner
        <5> QED
          BY <5>2, <5>3, <5>5, <5>6
      <4> TAKE i \in 1..Len(half.left.kids)
      <4>2. i \in 1..(Middle(node) + 1) /\ i \in 1..Len(node.kids)
        BY <3>3, <4>1
      <4>3. half.left.kids[i] = node.kids[i]
        BY <4>1, <4>2
      <4> QED
        BY <3>2, <4>2, <4>3
    <3>6. \A i \in 1..Len(half.right.kids) : L2[half.right.kids[i]] = L[half.right.kids[i]]
      <4>1. PICK m : m = Middle(node) + 1
        OBVIOUS
      <4>2. m \in Nat /\ m + 1 = Middle(node) + 2 /\ m <= Len(node.kids)
        BY <3>3, <4>1
      <4>3. /\ Len(half.right.kids) = Len(node.kids) - m
            /\ \A i \in 1..(Len(node.kids) - m) : half.right.kids[i] = node.kids[m + i]
        <5>1. PICK S : S = Nat
          OBVIOUS
        <5>2. PICK s \in Seq(S) : s = node.kids
          BY <3>3, <5>1
        <5>3. m \in 0..Len(s)
          BY <3>3, <4>2, <5>2
        <5>4. /\ Len(From(s, m + 1)) = Len(s) - m
              /\ \A j \in 1..(Len(s) - m) : From(s, m + 1)[j] = s[m + j]
          BY <5>3, PartFacts
        <5>5. half.right.kids = From(s, m + 1)
          BY <3>1, <4>2, <5>2 DEF InnerHalves, Inner
        <5> QED
          BY <5>2, <5>4, <5>5
      <4> TAKE i \in 1..Len(half.right.kids)
      <4>4. PICK j \in 1..Len(node.kids) : half.right.kids[i] = node.kids[j]
        <5>1. m + i \in 1..Len(node.kids) /\ i \in 1..(Len(node.kids) - m)
          BY <3>3, <4>2, <4>3
        <5> QED
          BY <4>3, <5>1
      <4> QED
        BY <3>2, <4>4
    <3>7. L2[p] = KeysBelow(InnerHalves(node).left, L2) /\ L2[new] = KeysBelow(InnerHalves(node).right, L2)
      <4>1. ~half.left.leaf /\ ~half.right.leaf
        BY <3>1 DEF InnerHalves, Inner
      <4>2. KeysBelow(half.left, L) = KeysBelow(half.left, L2)
        BY <3>5, <4>1 DEF KeysBelow
      <4>3. KeysBelow(half.right, L) = KeysBelow(half.right, L2)
        BY <3>6, <4>1 DEF KeysBelow
      <4> QED
        BY <1>11, <3>1, <4>2, <4>3
    <3> QED
      BY <1>2, <1>3, <2>2, <3>1, <3>2, <3>4, <3>7, InnerHalvesPlaced
  <2> QED
    BY <2>1, <2>2
<1>13. /\ half.left \in Node /\ half.right \in Node /\ half.key \in Key
       /\ Placed(p, half.left, L2, B2) /\ Placed(new, half.right, L2, B2)
       /\ L2[p] \cup L2[new] = K[p] \cup {key} /\ L2[p] # {} /\ half.key \in L2[new]
       /\ \A k \in L2[p] : k <= half.key
       /\ \A k \in L2[new] : half.key <= k
  BY <1>2, <1>12 DEF Halved
(* The three writes, one by one.                                           *)
<1> DEFINE r1 == Append(w, Write(new, Unsaved))
           r2 == Append(r1, Write(p, half.left))
           r3 == Append(r2, Write(new, half.right))
           G  == AfterWrites(r3)
<1>14. Unsaved \in Node
  <2>1. <<>> \in Seq(Key) /\ <<>> \in Seq(Nat) /\ <<0>> \in Seq(Nat)
    BY EmptySeq
  <2> QED
    BY <2>1 DEF Unsaved, Inner, Node
<1>15. /\ r1 \in Seq(PageWrite) /\ DOMAIN AfterWrites(r1) = DOMAIN F \cup {new}
       /\ \A x \in DOMAIN F : x # new => AfterWrites(r1)[x] = F[x]
  <2>1. OneMore(r1, w, new, Unsaved)
    BY <1>2, <1>5, <1>14, AfterAppend
  <2> HIDE DEF r1
  <2> QED
    BY <1>1, <2>1 DEF OneMore
<1>16. /\ r2 \in Seq(PageWrite) /\ DOMAIN AfterWrites(r2) = DOMAIN AfterWrites(r1) \cup {p}
       /\ AfterWrites(r2)[p] = half.left
       /\ \A x \in DOMAIN AfterWrites(r1) : x # p => AfterWrites(r2)[x] = AfterWrites(r1)[x]
  <2> HIDE DEF r1
  <2>1. OneMore(r2, r1, p, half.left)
    BY <1>4, <1>13, <1>15, AfterAppend
  <2> HIDE DEF r2
  <2> QED
    BY <2>1 DEF OneMore
<1>17. /\ r3 \in Seq(PageWrite) /\ DOMAIN G = DOMAIN AfterWrites(r2) \cup {new}
       /\ G[new] = half.right
       /\ \A x \in DOMAIN AfterWrites(r2) : x # new => G[x] = AfterWrites(r2)[x]
  <2> HIDE DEF r2
  <2>1. OneMore(r3, r2, new, half.right)
    BY <1>5, <1>13, <1>16, AfterAppend
  <2> HIDE DEF r3
  <2> QED
    BY <2>1 DEF OneMore
<1>18. Saved(w, p, node) = [writes |-> r3, up |-> [key |-> half.key, page |-> new]]
  <2> DEFINE a == Write(new, Unsaved)
             b == Write(p, half.left)
             c == Write(new, half.right)
  <2>1. a \in PageWrite /\ b \in PageWrite /\ c \in PageWrite
    BY <1>4, <1>13, <1>14 DEF Write, PageWrite
  <2>2. Saved(w, p, node) = [writes |-> w \o <<a, b, c>>, up |-> [key |-> half.key, page |-> new]]
    BY <1>5, <1>6 DEF Saved
  <2>3. r3 = Append(Append(Append(w, a), b), c)
    OBVIOUS
  <2> HIDE DEF a, b, c, r3
  <2>4. w \o <<a, b, c>> = Append(Append(Append(w, a), b), c)
    BY <1>2, <2>1, ThreeMore
  <2> QED
    BY <2>2, <2>3, <2>4
<1> HIDE DEF r1, r2, r3, G
<1>19. /\ DOMAIN G = DOMAIN F \cup {new}
       /\ G[p] = half.left /\ G[new] = half.right
       /\ \A x \in DOMAIN F : x # p => G[x] = F[x]
  <2>1. DOMAIN G = DOMAIN F \cup {new}
    BY <1>4, <1>15, <1>16, <1>17
  <2>2. G[p] = half.left
    BY <1>4, <1>7, <1>15, <1>16, <1>17
  <2>3. \A x \in DOMAIN F : x # p => G[x] = F[x]
    BY <1>5, <1>15, <1>16, <1>17
  <2> QED
    BY <1>17, <2>1, <2>2, <2>3
<1>20. Local(G, T, L2, B2, p, K, A, h)
  <2>1. ASSUME NEW x \in Page \ T PROVE G[x] = nodes[x] /\ L2[x] = K[x]
    <3>1. x \in DOMAIN F /\ x \in Nat /\ x # p /\ x # new
      BY <1>3, <1>5
    <3> QED
      BY <1>3, <1>11, <1>19, <3>1
  <2>2. ASSUME NEW x \in Page, A[x] \notin T PROVE B2[x] = A[x]
    <3>1. x \in Nat /\ x # new /\ B[x] = A[x]
      BY <1>3, <1>5, <2>2
    <3>2. ~Goes(x)
      BY <1>3, <1>9, <2>2, <3>1
    <3> QED
      BY <1>11, <3>1, <3>2
  <2>3. ASSUME NEW x \in DOMAIN G PROVE x \in Nat /\ G[x] \in Node
    <3>1. x = new \/ x = p \/ (x \in DOMAIN F /\ x # p)
      BY <1>19
    <3> QED
      BY <1>3, <1>4, <1>13, <1>19, <3>1
  <2>4. ASSUME NEW x \in Nat \ DOMAIN G PROVE B2[x] = NoPage
    <3>1. x # new /\ B[x] = NoPage
      BY <1>3, <1>19
    <3>2. ~Goes(x)
      BY <1>4, <1>9, <3>1
    <3> QED
      BY <1>11, <3>1, <3>2
  <2>5. Page \subseteq DOMAIN G
    BY <1>3, <1>19
  <2> QED
    BY <1>3, <1>10, <2>1, <2>2, <2>3, <2>4, <2>5 DEF Local
(* The pages that were not written keep their children.                    *)
<1>21. ASSUME NEW x \in DOMAIN G, x # A[p] PROVE Placed(x, G[x], L2, B2)
  <2>1. CASE x = p \/ x = new
    BY <1>13, <1>19, <2>1
  <2>2. CASE x # p /\ x # new
    <3>1. x \in DOMAIN F /\ x \in Nat /\ F[x] \in Node /\ G[x] = F[x]
      BY <1>3, <1>19, <2>2
    <3>2. Placed(x, F[x], L, B)
      BY <1>2, <1>21, <2>2, <3>1
    <3>3. L2[x] = L[x]
      BY <1>11, <2>2, <3>1
    <3>4. ASSUME ~F[x].leaf, NEW i \in 1..Len(F[x].kids)
          PROVE  L2[F[x].kids[i]] = L[F[x].kids[i]] /\ B2[F[x].kids[i]] = x
      <4>1. F[x].kids[i] \in Nat
        BY <3>1, ElementOfSeq DEF Node
      <4>2. B[F[x].kids[i]] = x
        BY <3>2, <3>4 DEF Placed
      <4>3. F[x].kids[i] # p /\ F[x].kids[i] # new
        BY <1>2, <1>4, <1>7, <1>21, <3>1, <4>2
      <4>4. ~Goes(F[x].kids[i])
        BY <1>9, <2>2, <4>2
      <4> QED
        BY <1>11, <4>1, <4>2, <4>3, <4>4
    <3>5. Len(F[x].keys) \in Nat
      BY <3>1, LenProperties DEF Node
    <3> QED
      BY <3>1, <3>2, <3>3, <3>4, <3>5, PlacedAgain
  <2> QED
    BY <2>1, <2>2
<1>22. PICK s : s = Saved(w, p, node)
  OBVIOUS
<1>23. /\ s.writes = r3 /\ s.up.key = half.key /\ s.up.page = new
       /\ s.up # <<>>
  <2>1. s.up = [key |-> half.key, page |-> new]
    BY <1>18, <1>22
  <2>2. DOMAIN [key |-> half.key, page |-> new] # DOMAIN <<>>
    OBVIOUS
  <2> QED
    BY <1>18, <1>22, <2>1, <2>2
<1>24. s.up.page \in DOMAIN G
  BY <1>19, <1>23
<1>25. s \in Climbs
  BY <1>5, <1>13, <1>17, <1>18, <1>22 DEF Climbs
<1> QED
  BY <1>5, <1>11, <1>13, <1>17, <1>20, <1>21, <1>22, <1>23, <1>24, <1>25 DEF Lifted, G

(* Levels fall from a page to its children, and nothing else is a parent.  *)
LEMMA KidFacts ==
    ASSUME TypeOK, NEW K, NEW A, Ordered(K, A), NEW p \in Page, ~nodes[p].leaf,
           NEW i \in 1..Len(nodes[p].kids)
    PROVE  /\ nodes[p].kids[i] \in Nat /\ nodes[p].kids[i] \in Page
           /\ A[nodes[p].kids[i]] = p
<1>1. nodes[p] \in Node /\ p \in Nat /\ NoPage \notin Nat
  BY BTreeAssumption DEF TypeOK
<1>2. nodes[p].kids[i] \in Nat
  BY <1>1, ElementOfSeq DEF Node
<1>3. A[nodes[p].kids[i]] = p
  BY DEF Ordered, Placed
<1>4. nodes[p].kids[i] \in Page
  BY <1>1, <1>2, <1>3 DEF Ordered
<1> QED
  BY <1>2, <1>3, <1>4

(* At the leaf.                                                            *)
LEMMA LeafLifts ==
    ASSUME TypeOK, NEW K, NEW A, Ordered(K, A), NEW h \in [Nat -> Nat],
           NEW key \in Key, NEW val \in Nat, NEW p \in Page, nodes[p].leaf,
           Len(nodes[p].vals) = Len(nodes[p].keys),
           NEW w, w = <<>>
    PROVE  Lifted(Saved(w, p, WithEntry(nodes[p], key, val)), p, key, K, A, h)
<1> DEFINE node == WithEntry(nodes[p], key, val)
           L == [z \in Nat |-> IF z = p THEN K[p] \cup {key} ELSE K[z]]
           T == {p}
<1>1. PICK F : F = AfterWrites(w)
  OBVIOUS
<1>2. w \in Seq(PageWrite) /\ DOMAIN F = Page /\ \A x \in Page : F[x] = nodes[x]
  BY <1>1, AfterNone, EmptySeq
<1>3. /\ Page \subseteq Nat /\ p \in Nat /\ \A x \in Page : nodes[x] \in Node
      /\ NoPage \notin Nat
  BY BTreeAssumption DEF TypeOK
<1>4. /\ K \in Under /\ A \in Parents /\ \A x \in Page : Placed(x, nodes[x], K, A)
      /\ \A x \in Nat \ Page : A[x] = NoPage
  BY DEF Ordered
<1>5. /\ L \in Under /\ L[p] = K[p] \cup {key} /\ \A z \in Nat : z # p => L[z] = K[z]
  BY <1>3, <1>4 DEF Under
<1> HIDE DEF L
<1>6. /\ node \in Node /\ node.leaf /\ Len(node.vals) = Len(node.keys)
      /\ Placed(p, node, L, A)
  <2>1. PICK nd \in Node : nd = nodes[p]
    BY <1>3
  <2>2. nd.leaf /\ Placed(p, nd, K, A) /\ Len(nd.vals) = Len(nd.keys)
    BY <1>4, <2>1
  <2>3. /\ WithEntry(nd, key, val) \in Node
        /\ WithEntry(nd, key, val).leaf
        /\ Len(WithEntry(nd, key, val).vals) = Len(WithEntry(nd, key, val).keys)
        /\ Placed(p, WithEntry(nd, key, val), L, A)
    BY <1>5, <2>2, EntryPlaced
  <2> QED
    BY <2>1, <2>3
<1> HIDE DEF node
<1>7. Local(F, T, L, A, p, K, A, h)
  <2>1. h[p] \in Nat
    BY <1>3
  <2>2. \A x \in T : h[x] <= h[p] /\ (x # p => A[x] \in T)
    BY <2>1
  <2>3. \A x \in Page \ T : F[x] = nodes[x] /\ L[x] = K[x]
    BY <1>2, <1>3, <1>5
  <2> QED
    BY <1>2, <1>3, <1>4, <1>5, <2>2, <2>3 DEF Local
<1>8. ASSUME NEW x \in DOMAIN F, x # p, x # A[p] PROVE Placed(x, F[x], L, A)
  <2>1. x \in Page /\ F[x] = nodes[x] /\ x \in Nat
    BY <1>2, <1>3
  <2>2. ASSUME ~nodes[x].leaf, NEW i \in 1..Len(nodes[x].kids)
        PROVE  L[nodes[x].kids[i]] = K[nodes[x].kids[i]] /\ A[nodes[x].kids[i]] = x
    <3>1. nodes[x].kids[i] \in Nat /\ A[nodes[x].kids[i]] = x
      <4>1. PICK y \in Page : y = x
        BY <2>1
      <4>2. ~nodes[y].leaf /\ i \in 1..Len(nodes[y].kids)
        BY <2>2, <4>1
      <4>3. nodes[y].kids[i] \in Nat /\ A[nodes[y].kids[i]] = y
        BY <4>2, KidFacts
      <4> QED
        BY <4>1, <4>3
    <3>2. nodes[x].kids[i] # p
      BY <1>8, <3>1
    <3> QED
      BY <1>5, <3>1, <3>2
  <2>3. L[x] = K[x]
    BY <1>5, <1>8, <2>1
  <2>4. Len(nodes[x].keys) \in Nat
    BY <1>3, <2>1, LenProperties DEF Node
  <2> QED
    BY <1>4, <2>1, <2>2, <2>3, <2>4, PlacedAgain
<1>9. Ready(w, p, node, T, L, A, key, K, A, h)
  BY <1>1, <1>2, <1>5, <1>6, <1>7, <1>8 DEF Ready
<1> HIDE DEF T
<1>10. Lifted(Saved(w, p, node), p, key, K, A, h)
  <2>1. CASE Len(node.keys) <= ORDER
    BY <1>9, <2>1, SavedFits
  <2>2. CASE ~(Len(node.keys) <= ORDER)
    BY <1>9, <2>2, SavedSplits
  <2> QED
    BY <2>1, <2>2
<1> QED
  BY <1>10 DEF node

(* What comes of the child lifts to its parent.                            *)
LEMMA BackLifts ==
    ASSUME TypeOK, NEW h, NEW r, Measures(h, r), NEW K, NEW A, Ordered(K, A),
           NEW key \in Key, NEW p \in Page, ~nodes[p].leaf,
           A[p] # NoPage => A[p] \in Page /\ h[p] < h[A[p]],
           NEW s, NEW q, q = ChildFor(nodes[p], key), Lifted(s, q, key, K, A, h)
    PROVE  Lifted(Back(key, p, s), p, key, K, A, h)
<1>1. PICK w : w = s.writes
  OBVIOUS
<1>2. PICK F : F = AfterWrites(w)
  OBVIOUS
<1>3. PICK T, L, B :
        /\ Local(F, T, L, B, q, K, A, h)
        /\ \A x \in DOMAIN F : x # A[q] => Placed(x, F[x], L, B)
        /\ s.up = <<>> => L[q] = K[q] \cup {key}
        /\ s.up # <<>> =>
             /\ s.up.key \in Key
             /\ s.up.page \in DOMAIN F /\ s.up.page \notin Page
             /\ B[s.up.page] = NoPage
             /\ L[q] \cup L[s.up.page] = K[q] \cup {key}
             /\ L[q] # {} /\ s.up.key \in L[s.up.page]
             /\ \A k \in L[q] : k <= s.up.key
             /\ \A k \in L[s.up.page] : s.up.key <= k
  BY <1>1, <1>2 DEF Lifted
<1>4. w \in Seq(PageWrite) /\ s \in Climbs
  BY <1>1 DEF Lifted, Climbs
<1>5. /\ L \in Under /\ B \in Parents /\ T \in SUBSET Page /\ q \in T
      /\ \A x \in T : h[x] <= h[q] /\ (x # q => A[x] \in T)
      /\ \A x \in Page \ T : F[x] = nodes[x] /\ L[x] = K[x]
      /\ \A x \in Page : A[x] \notin T => B[x] = A[x]
      /\ Page \subseteq DOMAIN F
      /\ \A x \in DOMAIN F : x \in Nat /\ F[x] \in Node
      /\ \A x \in Nat \ DOMAIN F : B[x] = NoPage
  BY <1>3 DEF Local
<1>6. PICK pnode \in Node : pnode = nodes[p]
  BY DEF TypeOK
<1>7. /\ K \in Under /\ A \in Parents /\ Placed(p, pnode, K, A) /\ ~pnode.leaf
      /\ q = ChildFor(pnode, key)
  BY <1>6 DEF Ordered
<1>8. p \in Nat /\ NoPage \notin Nat /\ Page \subseteq Nat
  BY BTreeAssumption DEF TypeOK
<1>9. q \in Page /\ q \in Nat /\ h[q] < h[p] /\ h \in [Nat -> Nat]
  <2>1. q \in Page /\ h[q] < h[p]
    BY ChildBelow
  <2> QED
    BY <1>8, <2>1 DEF Measures
<1>10. \A i \in 1..Len(pnode.kids) : pnode.kids[i] \in Nat /\ pnode.kids[i] \in Page
                                     /\ A[pnode.kids[i]] = p
  BY <1>6, KidFacts
<1>11. A[q] = p
  <2>1. pnode.keys \in Seq(Key) /\ Len(pnode.kids) = Len(pnode.keys) + 1
    BY <1>7 DEF Node, Placed
  <2>2. ChildIndex(pnode, key) \in 1..Len(pnode.kids)
    BY <2>1, ChildIndexFacts
  <2> QED
    BY <1>7, <1>10, <2>2 DEF ChildFor
(* Neither p nor its parent has changed yet.                               *)
<1>12. p \notin T /\ A[p] \notin T
  <2>1. \A x \in T : x \in Nat /\ h[x] \in Nat /\ h[x] <= h[q]
    BY <1>5, <1>8, <1>9
  <2>2. h[p] \in Nat /\ h[q] \in Nat
    BY <1>8, <1>9
  <2>3. p \notin T
    BY <1>9, <2>1, <2>2
  <2>4. ASSUME A[p] \in T PROVE FALSE
    <3>1. A[p] # NoPage
      BY <1>8, <2>1, <2>4
    <3>2. h[p] < h[A[p]] /\ h[A[p]] <= h[q] /\ h[A[p]] \in Nat
      BY <2>1, <2>4, <3>1
    <3> QED
      BY <1>9, <2>2, <3>2
  <2> QED
    BY <2>3, <2>4
<1>13. B[p] = A[p] /\ F[p] = pnode /\ L[p] = K[p] /\ p \in DOMAIN F /\ p # q
  BY <1>5, <1>6, <1>12
<1>14. ASSUME NEW i \in 1..Len(pnode.kids)
       PROVE  /\ B[pnode.kids[i]] = p /\ pnode.kids[i] # p
              /\ pnode.kids[i] # q => L[pnode.kids[i]] = K[pnode.kids[i]]
  <2>1. pnode.kids[i] \in Page /\ pnode.kids[i] \in Nat /\ A[pnode.kids[i]] = p
    BY <1>10
  <2>2. pnode.kids[i] # p
    BY <1>7, <2>1 DEF Parents
  <2> QED
    BY <1>5, <1>12, <2>1, <2>2
<1> DEFINE L2 == [z \in Nat |-> IF z = p THEN K[p] \cup {key} ELSE L[z]]
           T2 == T \cup {p}
<1>15. /\ L2 \in Under /\ L2[p] = K[p] \cup {key}
       /\ \A z \in Nat : z # p => L2[z] = L[z]
  <2>1. K[p] \cup {key} \in SUBSET Key
    BY <1>7, <1>8 DEF Under
  <2> QED
    BY <1>5, <1>8, <2>1 DEF Under
<1> HIDE DEF L2
<1>16. /\ T2 \in SUBSET Page /\ p \in T2
       /\ \A x \in T2 : h[x] <= h[p] /\ (x # p => A[x] \in T2)
  <2>1. ASSUME NEW x \in T PROVE h[x] <= h[p] /\ A[x] \in T2
    <3>1. h[x] <= h[q] /\ h[x] \in Nat /\ h[q] \in Nat /\ h[p] \in Nat
      BY <1>5, <1>8, <1>9
    <3>2. h[x] <= h[p]
      BY <1>9, <3>1
    <3>3. x = q \/ A[x] \in T
      BY <1>5
    <3> QED
      BY <1>11, <3>2, <3>3
  <2>2. h[p] <= h[p]
    BY <1>8, <1>9
  <2> QED
    BY <1>5, <2>1, <2>2
<1>17. \A x \in Page \ T2 : F[x] = nodes[x] /\ L2[x] = K[x]
  BY <1>5, <1>8, <1>15
<1>18. \A x \in Page : A[x] \notin T2 => B[x] = A[x]
  BY <1>5
<1> HIDE DEF T2
(* A page that keeps its node and its children stays in place.             *)
<1>19. ASSUME NEW x \in DOMAIN F, x # p, x # A[p], NEW C,
              \A z \in Nat : B[z] = x => C[z] = x
       PROVE  Placed(x, F[x], L2, C)
  <2>1. Placed(x, F[x], L, B)
    BY <1>3, <1>11, <1>19
  <2>2. x \in Nat /\ F[x] \in Node
    BY <1>5
  <2>3. L2[x] = L[x]
    BY <1>15, <1>19, <2>2
  <2>4. ASSUME ~F[x].leaf, NEW i \in 1..Len(F[x].kids)
        PROVE  L2[F[x].kids[i]] = L[F[x].kids[i]] /\ C[F[x].kids[i]] = x
    <3>1. F[x].kids[i] \in Nat
      BY <2>2, ElementOfSeq DEF Node
    <3>2. B[F[x].kids[i]] = x
      BY <2>1, <2>4 DEF Placed
    <3>3. F[x].kids[i] # p
      BY <1>13, <1>19, <3>2
    <3> QED
      BY <1>15, <1>19, <3>1, <3>2, <3>3
  <2>5. Len(F[x].keys) \in Nat
    BY <2>2, LenProperties DEF Node
  <2> QED
    BY <2>1, <2>3, <2>4, <2>5, PlacedAgain
<1>20. CASE s.up = <<>>
  <2>1. Local(F, T2, L2, B, p, K, A, h)
    BY <1>5, <1>15, <1>16, <1>17, <1>18 DEF Local
  <2>2. Placed(p, pnode, L2, B)
    <3>1. L2[q] = K[q] \cup {key}
      BY <1>3, <1>9, <1>13, <1>15, <1>20
    <3>2. ASSUME NEW i \in 1..Len(pnode.kids), pnode.kids[i] # q
          PROVE  L2[pnode.kids[i]] = K[pnode.kids[i]]
      BY <1>10, <1>14, <1>15, <3>2
    <3>3. \A i \in 1..Len(pnode.kids) : pnode.kids[i] # q => L2[pnode.kids[i]] = K[pnode.kids[i]]
      BY <3>2
    <3>4. \A i \in 1..Len(pnode.kids) : B[pnode.kids[i]] = p
      BY <1>14
    <3>5. L2[p] = K[p] \cup {key} /\ K \in Under /\ Placed(p, pnode, K, A) /\ ~pnode.leaf
      BY <1>7, <1>15
    <3>6. OneChild(p, pnode, key, q, K, A, L2, B)
      BY <1>7, <3>3, <3>4, <3>5 DEF OneChild
    <3> QED
      BY <3>1, <3>6, ChildGrows
  <2>3. \A x \in DOMAIN F : x # A[p] => Placed(x, F[x], L2, B)
    <3> SUFFICES ASSUME NEW x \in DOMAIN F, x # A[p] PROVE Placed(x, F[x], L2, B)
      OBVIOUS
    <3>1. CASE x = p
      BY <1>13, <2>2, <3>1
    <3>2. CASE x # p
      BY <1>19, <3>2
    <3> QED
      BY <3>1, <3>2
  <2>4. Back(key, p, s) = s
    BY <1>20 DEF Back
  <2>5. Lifted(s, p, key, K, A, h)
    BY <1>1, <1>2, <1>4, <1>15, <1>20, <2>1, <2>3 DEF Lifted
  <2> QED
    BY <2>4, <2>5
<1>21. CASE s.up # <<>>
  <2>1. PICK sep \in Key : sep = s.up.key
    BY <1>3, <1>21
  <2>2. PICK m \in Nat : /\ m = s.up.page /\ m \in DOMAIN F /\ m \notin Page
                         /\ B[m] = NoPage /\ m # p /\ m # q
    <3>1. s.up.page \in DOMAIN F /\ s.up.page \notin Page /\ B[s.up.page] = NoPage
      BY <1>3, <1>21
    <3> QED
      BY <1>5, <1>9, <3>1
  <2> DEFINE C == [B EXCEPT ![m] = p]
             node == WithChild(pnode, key, s.up)
  <2>3. C \in Parents /\ C[m] = p /\ \A z \in Nat : z # m => C[z] = B[z]
    BY <1>5, <1>8, <2>2 DEF Parents
  <2> HIDE DEF C
  <2>4. /\ L2[q] \cup L2[m] = K[q] \cup {key} /\ L2[q] # {} /\ sep \in L2[m]
        /\ \A k \in L2[q] : k <= sep
        /\ \A k \in L2[m] : sep <= k
    <3>1. L2[q] = L[q] /\ L2[m] = L[m]
      BY <1>9, <1>13, <1>15, <2>2
    <3> QED
      BY <1>3, <1>21, <2>1, <2>2, <3>1
  <2>5. ASSUME NEW i \in 1..Len(pnode.kids)
        PROVE  /\ pnode.kids[i] # q => L2[pnode.kids[i]] = K[pnode.kids[i]]
               /\ C[pnode.kids[i]] = p /\ pnode.kids[i] # m
    BY <1>10, <1>14, <1>15, <2>2, <2>3
  <2>6. /\ node \in Node /\ ~node.leaf /\ Placed(p, node, L2, C)
    <3>1. PICK up : up = s.up
      OBVIOUS
    <3>2. sep = up.key /\ m = up.page
      BY <2>1, <2>2, <3>1
    <3>3. \A i \in 1..Len(pnode.kids) : pnode.kids[i] # q => L2[pnode.kids[i]] = K[pnode.kids[i]]
      BY <2>5
    <3>4. /\ \A i \in 1..Len(pnode.kids) : C[pnode.kids[i]] = p
          /\ \A i \in 1..Len(pnode.kids) : pnode.kids[i] # m
      BY <2>5
    <3>5. /\ L2[p] = K[p] \cup {key} /\ K \in Under /\ Placed(p, pnode, K, A) /\ ~pnode.leaf
          /\ L2 \in Under /\ C[m] = p
      BY <1>7, <1>15, <2>3
    <3>6. OneChild(p, pnode, key, q, K, A, L2, C)
      BY <1>7, <3>3, <3>4, <3>5 DEF OneChild
    <3>7. /\ WithChild(pnode, key, up) \in Node
          /\ ~WithChild(pnode, key, up).leaf
          /\ Placed(p, WithChild(pnode, key, up), L2, C)
      BY <2>4, <3>2, <3>4, <3>5, <3>6, ChildSplits
    <3> QED
      BY <3>1, <3>7
  <2> HIDE DEF node
  <2>7. Local(F, T2, L2, C, p, K, A, h)
    <3>1. \A x \in Page : A[x] \notin T2 => C[x] = A[x]
      BY <1>8, <1>18, <2>2, <2>3
    <3>2. \A x \in Nat \ DOMAIN F : C[x] = NoPage
      BY <1>5, <2>2, <2>3
    <3> QED
      BY <1>5, <1>15, <1>16, <1>17, <2>3, <3>1, <3>2 DEF Local
  <2>8. ASSUME NEW x \in DOMAIN F, x # p, x # A[p] PROVE Placed(x, F[x], L2, C)
    <3>1. \A z \in Nat : B[z] = x => C[z] = x
      BY <1>5, <1>8, <2>2, <2>3
    <3> QED
      BY <1>19, <2>8, <3>1
  <2>9. C[p] = A[p]
    BY <1>8, <1>13, <2>2, <2>3
  <2>10. Ready(w, p, node, T2, L2, C, key, K, A, h)
    BY <1>2, <1>4, <1>15, <2>6, <2>7, <2>8, <2>9 DEF Ready
  <2>11. Back(key, p, s) = Saved(w, p, node)
    BY <1>1, <1>6, <1>21 DEF Back, node
  <2>12. CASE Len(node.keys) <= ORDER
    BY <2>10, <2>11, <2>12, SavedFits
  <2>13. CASE ~(Len(node.keys) <= ORDER)
    BY <2>10, <2>11, <2>13, SavedSplits
  <2> QED
    BY <2>12, <2>13
<1> QED
  BY <1>20, <1>21

(* The parents along a path are the pages before.                          *)
LEMMA ParentAbove ==
    ASSUME TypeOK, NEW h, NEW r, Measures(h, r), NEW K, NEW A, Ordered(K, A),
           NEW key \in Key, NEW u \in Page, ~nodes[u].leaf,
           NEW p, p = ChildFor(nodes[u], key)
    PROVE  A[p] = u /\ A[p] \in Page /\ h[p] < h[A[p]]
<1>1. h[p] < h[u]
  BY ChildBelow
<1>2. PICK node \in Node : node = nodes[u]
  BY DEF TypeOK
<1>3. Len(node.kids) = Len(node.keys) + 1 /\ node.keys \in Seq(Key)
  BY <1>2 DEF Node, Ordered, Placed
<1>4. PICK c : c = ChildIndex(node, key)
  OBVIOUS
<1>5. c \in 1..Len(node.kids) /\ p = node.kids[c]
  BY <1>2, <1>3, <1>4, ChildIndexFacts DEF ChildFor
<1>6. c \in 1..Len(nodes[u].kids) => A[nodes[u].kids[c]] = u
  BY KidFacts
<1> QED
  BY <1>1, <1>2, <1>5, <1>6

(* Up to the root.                                                         *)
LEMMA InsertRecLifts ==
    ASSUME TypeOK, NEW h, NEW r, Measures(h, r), NEW K, NEW A, Ordered(K, A),
           NEW key \in Key, NEW val \in Nat
    PROVE  Lifted(InsertRec(key, val), root, key, K, A, h)
<1>1. PICK n \in Nat :
        /\ Path(key)[1] = root
        /\ Last(Path(key)) = Path(key)[n + 1]
        /\ Path(key)[n + 1] \in Page /\ nodes[Path(key)[n + 1]].leaf
        /\ DOMAIN Front(Path(key)) = 1..n
        /\ \A i \in 1..n : /\ Front(Path(key))[i] = Path(key)[i]
                           /\ Path(key)[i] \in Page /\ ~nodes[Path(key)[i]].leaf
                           /\ Path(key)[i + 1] = ChildFor(nodes[Path(key)[i]], key)
  BY PathParts
<1>2. PICK path : path = Path(key)
  OBVIOUS
<1>3. PICK front : front = Front(Path(key))
  OBVIOUS
<1> DEFINE Q == [i \in 1..(n + 1) |-> {s \in Climbs : Lifted(s, path[i], key, K, A, h)}]
<1>4. AtLeaf(key, val) \in Q[n + 1]
  <2>1. PICK p \in Page : p = path[n + 1] /\ nodes[p].leaf
    BY <1>1, <1>2
  <2>2. Len(nodes[p].vals) = Len(nodes[p].keys) /\ h \in [Nat -> Nat]
    BY <2>1 DEF Measures, SoundAt
  <2> DEFINE e == <<>>
  <2>3. AtLeaf(key, val) = Saved(e, p, WithEntry(nodes[p], key, val))
    BY <1>1, <1>2, <2>1 DEF AtLeaf
  <2>4. e = <<>>
    OBVIOUS
  <2> HIDE DEF e
  <2>5. Lifted(Saved(e, p, WithEntry(nodes[p], key, val)), p, key, K, A, h)
    BY <2>1, <2>2, <2>4, LeafLifts
  <2>6. Saved(e, p, WithEntry(nodes[p], key, val)) \in Climbs
    BY <2>5 DEF Lifted
  <2>7. n + 1 \in 1..(n + 1)
    OBVIOUS
  <2> QED
    BY <2>1, <2>3, <2>5, <2>6, <2>7
<1>5. ASSUME NEW i \in 1..n, NEW s \in Q[i + 1] PROVE Back(key, front[i], s) \in Q[i]
  <2>1. i \in 1..(n + 1) /\ i + 1 \in 1..(n + 1)
    OBVIOUS
  <2>2. PICK p \in Page : /\ p = path[i] /\ front[i] = p /\ ~nodes[p].leaf
                          /\ path[i + 1] = ChildFor(nodes[p], key)
    BY <1>1, <1>2, <1>3
  <2>3. PICK q : q = ChildFor(nodes[p], key)
    OBVIOUS
  <2>4. Lifted(s, q, key, K, A, h)
    BY <2>1, <2>2, <2>3
  <2>5. A[p] # NoPage => A[p] \in Page /\ h[p] < h[A[p]]
    <3>1. CASE i = 1
      <4>1. p = root
        BY <1>1, <1>2, <2>2, <3>1
      <4> QED
        BY <4>1 DEF Ordered
    <3>2. CASE i # 1
      <4>1. PICK j \in 1..n : i = j + 1
        <5>1. i - 1 \in 1..n /\ i = (i - 1) + 1
          BY <3>2
        <5> QED
          BY <5>1
      <4>2. PICK u \in Page : u = path[j] /\ ~nodes[u].leaf /\ p = ChildFor(nodes[u], key)
        BY <1>1, <1>2, <2>2, <4>1
      <4> QED
        BY <4>2, ParentAbove
    <3> QED
      BY <3>1, <3>2
  <2>6. Lifted(Back(key, p, s), p, key, K, A, h)
    BY <2>2, <2>3, <2>4, <2>5, BackLifts
  <2>7. Back(key, p, s) \in Climbs
    BY <2>6 DEF Lifted
  <2> QED
    BY <2>1, <2>2, <2>6, <2>7
<1>6. 1 \in 1..(n + 1) /\ path[1] = root
  BY <1>1, <1>2
<1> HIDE DEF Q
<1>7. InsertRec(key, val) \in Q[1]
  BY <1>1, <1>3, <1>4, <1>5, ClimbKeeps
<1> QED
  BY <1>6, <1>7 DEF Q

------------------------------------------------------------------------------
(* The whole insertion.                                                    *)

(* The pages G with the root top are in place and hold the keys X.         *)
InPlace(G, top, X, K, A) ==
    /\ K \in Under /\ A \in Parents
    /\ \A x \in DOMAIN G : Placed(x, G[x], K, A)
    /\ \A x \in Nat \ DOMAIN G : A[x] = NoPage
    /\ A[top] = NoPage
    /\ K[top] = X

(* A new root above two pages nobody is a parent of.                       *)
LEMMA RootPlaced ==
    ASSUME NEW K \in Under, NEW A, NEW p, NEW q \in Nat, NEW m \in Nat, q # m,
           NEW sep \in Key, A[q] = p, A[m] = p, K[p] = K[q] \cup K[m],
           sep \in K[m], \A k \in K[q] : k <= sep, \A k \in K[m] : sep <= k
    PROVE  /\ Inner(<<sep>>, <<q, m>>) \in Node
           /\ Placed(p, Inner(<<sep>>, <<q, m>>), K, A)
<1> DEFINE ks == <<sep>>
           cs == <<q, m>>
           top == Inner(ks, cs)
<1>1. /\ ks \in Seq(Key) /\ Len(ks) = 1 /\ ks[1] = sep
      /\ cs \in Seq(Nat) /\ Len(cs) = 2 /\ cs[1] = q /\ cs[2] = m /\ <<>> \in Seq(Nat)
  BY EmptySeq
<1> HIDE DEF ks, cs
<1>2. top \in Node /\ ~top.leaf /\ top.keys = ks /\ top.kids = cs
  BY <1>1 DEF Inner, Node
<1> HIDE DEF top
<1>3. \A i \in 1..1 : i = 1
  OBVIOUS
<1>4. \A i \in 1..2 : i = 1 \/ i = 2
  OBVIOUS
<1>5. 1 \in 1..2 /\ 2 \in 1..2 /\ 1 + 1 = 2 /\ Len(cs) = Len(ks) + 1
  BY <1>1
<1>6. K[q] \in SUBSET Key /\ K[m] \in SUBSET Key
  BY DEF Under
<1>7. K[p] = KeysBelow(top, K)
  <2>1. \A k \in Key : k \in K[p] <=> \E i \in 1..2 : k \in K[cs[i]]
    BY <1>1, <1>4, <1>5
  <2>2. KeysBelow(top, K) = {k \in Key : \E i \in 1..2 : k \in K[cs[i]]}
    BY <1>1, <1>2 DEF KeysBelow
  <2> QED
    BY <1>6, <2>1, <2>2
<1>8. \A i \in 1..2 : A[cs[i]] = p
  BY <1>1, <1>4
<1>9. \A i, j \in 1..2 : cs[i] = cs[j] => i = j
  BY <1>1, <1>4
<1>10. \A i \in 1..1 : /\ ks[i] \in K[cs[i + 1]]
                       /\ \A k \in K[cs[i]] : k <= ks[i]
                       /\ \A k \in K[cs[i + 1]] : ks[i] <= k
  BY <1>1, <1>3, <1>5
<1>11. \A i, j \in 1..1 : i < j => ks[i] <= ks[j]
  OBVIOUS
<1>12. Placed(p, top, K, A)
  BY <1>1, <1>2, <1>5, <1>7, <1>8, <1>9, <1>10, <1>11 DEF Placed
<1> QED
  BY <1>2, <1>12 DEF top, ks, cs

(* All is in place after the last write, with a new root or without.       *)
LEMMA InsertionOrdered ==
    ASSUME TypeOK, NEW h, NEW r, Measures(h, r), NEW K, NEW A, Ordered(K, A),
           NEW key \in Key, NEW val \in Nat
    PROVE  \E L, B : InPlace(AfterWrites(Insertion(key, val).writes),
                             Insertion(key, val).root, K[root] \cup {key}, L, B)
<1>1. PICK s : s = InsertRec(key, val)
  OBVIOUS
<1>2. PICK w \in Seq(PageWrite) : w = s.writes
  BY <1>1, InsertRecLifts DEF Lifted, Climbs
<1>3. PICK F : F = AfterWrites(w)
  OBVIOUS
<1>4. PICK T, L, B :
        /\ Local(F, T, L, B, root, K, A, h)
        /\ \A x \in DOMAIN F : x # A[root] => Placed(x, F[x], L, B)
        /\ s.up = <<>> => L[root] = K[root] \cup {key}
        /\ s.up # <<>> =>
             /\ s.up.key \in Key
             /\ s.up.page \in DOMAIN F /\ s.up.page \notin Page
             /\ B[s.up.page] = NoPage
             /\ L[root] \cup L[s.up.page] = K[root] \cup {key}
             /\ L[root] # {} /\ s.up.key \in L[s.up.page]
             /\ \A k \in L[root] : k <= s.up.key
             /\ \A k \in L[s.up.page] : s.up.key <= k
  <2>1. Lifted(s, root, key, K, A, h)
    BY <1>1, InsertRecLifts
  <2> QED
    BY <1>2, <1>3, <2>1 DEF Lifted
<1>5. /\ L \in Under /\ B \in Parents /\ T \in SUBSET Page
      /\ \A x \in Page : A[x] \notin T => B[x] = A[x]
      /\ Page \subseteq DOMAIN F
      /\ \A x \in DOMAIN F : x \in Nat /\ F[x] \in Node
      /\ \A x \in Nat \ DOMAIN F : B[x] = NoPage
  BY <1>4 DEF Local
<1>6. root \in Page /\ root \in Nat /\ Page \subseteq Nat /\ NoPage \notin Nat
  BY BTreeAssumption DEF TypeOK
<1>7. A[root] = NoPage
  BY DEF Ordered
<1>8. B[root] = NoPage
  BY <1>5, <1>6, <1>7
<1>9. \A x \in DOMAIN F : Placed(x, F[x], L, B)
  BY <1>4, <1>5, <1>6, <1>7
<1>10. CASE s.up = <<>>
  <2>1. Insertion(key, val).writes = w /\ Insertion(key, val).root = root
    BY <1>1, <1>2, <1>10 DEF Insertion
  <2>2. InPlace(F, root, K[root] \cup {key}, L, B)
    BY <1>4, <1>5, <1>8, <1>9, <1>10 DEF InPlace
  <2> QED
    BY <1>3, <2>1, <2>2
<1>11. CASE s.up # <<>>
  <2>1. PICK sep \in Key : sep = s.up.key
    BY <1>4, <1>11
  <2>2. PICK m \in Nat : /\ m = s.up.page /\ m \in DOMAIN F /\ m # root /\ B[m] = NoPage
    <3>1. s.up.page \in DOMAIN F /\ s.up.page \notin Page /\ B[s.up.page] = NoPage
      BY <1>4, <1>11
    <3> QED
      BY <1>5, <1>6, <3>1
  <2>3. /\ L[root] \cup L[m] = K[root] \cup {key} /\ sep \in L[m]
        /\ \A k \in L[root] : k <= sep
        /\ \A k \in L[m] : sep <= k
    BY <1>4, <1>11, <2>1, <2>2
  <2>4. PICK new : new = FreshPage(w)
    OBVIOUS
  <2>5. DOMAIN F = Reach(w, Len(w))
    BY <1>3 DEF AfterWrites, Reach
  <2>6. new \in Nat /\ new \notin DOMAIN F /\ new # root /\ new # m /\ B[new] = NoPage
    <3>1. new \in Nat /\ new \notin DOMAIN F
      BY <2>4, <2>5, FreshIsNew
    <3> QED
      BY <1>5, <1>6, <2>2, <3>1
  <2> DEFINE L2 == [z \in Nat |-> IF z = new THEN K[root] \cup {key} ELSE L[z]]
             B2 == [z \in Nat |-> IF z = root \/ z = m THEN new ELSE B[z]]
             top == Inner(<<sep>>, <<root, m>>)
  <2>7. /\ L2 \in Under /\ L2[new] = K[root] \cup {key}
        /\ \A z \in Nat : z # new => L2[z] = L[z]
    <3>1. K[root] \cup {key} \in SUBSET Key
      BY <1>6 DEF Ordered, Under
    <3> QED
      BY <1>5, <2>6, <3>1 DEF Under
  <2>8. /\ B2 \in Parents /\ B2[root] = new /\ B2[m] = new /\ B2[new] = NoPage
        /\ \A z \in Nat : z # root /\ z # m => B2[z] = B[z]
    <3>1. \A z \in Nat : B2[z] \in Nat \cup {NoPage} /\ B2[z] # z
      BY <1>5, <1>6, <2>6 DEF Parents
    <3> QED
      BY <1>6, <2>2, <2>6, <3>1 DEF Parents
  <2> HIDE DEF L2, B2
  <2>9. top \in Node /\ Placed(new, top, L2, B2)
    <3>1. L2[root] = L[root] /\ L2[m] = L[m]
      BY <1>6, <2>2, <2>6, <2>7
    <3>2. L2[new] = L2[root] \cup L2[m]
      BY <2>3, <2>7, <3>1
    <3>3. sep \in L2[m] /\ (\A k \in L2[root] : k <= sep) /\ \A k \in L2[m] : sep <= k
      BY <2>3, <3>1
    <3>4. PICK q \in Nat : q = root
      BY <1>6
    <3>5. Inner(<<sep>>, <<q, m>>) \in Node /\ Placed(new, Inner(<<sep>>, <<q, m>>), L2, B2)
      <4>1. /\ q # m /\ B2[q] = new /\ B2[m] = new /\ L2[new] = L2[q] \cup L2[m]
            /\ \A k \in L2[q] : k <= sep
        BY <2>2, <2>8, <3>2, <3>3, <3>4
      <4> QED
        BY <2>7, <3>3, <4>1, RootPlaced
    <3> QED
      BY <3>4, <3>5
  <2> HIDE DEF top
  <2> DEFINE r1 == Append(w, Write(new, Unsaved))
             r2 == Append(r1, Write(new, top))
             G  == AfterWrites(r2)
  <2>10. Unsaved \in Node
    <3>1. <<>> \in Seq(Key) /\ <<>> \in Seq(Nat) /\ <<0>> \in Seq(Nat)
      BY EmptySeq
    <3> QED
      BY <3>1 DEF Unsaved, Inner, Node
  <2>11. /\ r1 \in Seq(PageWrite) /\ DOMAIN AfterWrites(r1) = DOMAIN F \cup {new}
         /\ \A x \in DOMAIN F : x # new => AfterWrites(r1)[x] = F[x]
    <3>1. OneMore(r1, w, new, Unsaved)
      BY <2>6, <2>10, AfterAppend
    <3> HIDE DEF r1
    <3> QED
      BY <1>3, <3>1 DEF OneMore
  <2>12. /\ DOMAIN G = DOMAIN AfterWrites(r1) \cup {new} /\ G[new] = top
         /\ \A x \in DOMAIN AfterWrites(r1) : x # new => G[x] = AfterWrites(r1)[x]
    <3> HIDE DEF r1
    <3>1. OneMore(r2, r1, new, top)
      BY <2>6, <2>9, <2>11, AfterAppend
    <3> HIDE DEF r2
    <3> QED
      BY <3>1 DEF OneMore
  <2>13. Insertion(key, val).writes = r2 /\ Insertion(key, val).root = new
    <3> DEFINE a == Write(new, Unsaved)
               b == Write(new, top)
    <3>1. a \in PageWrite /\ b \in PageWrite
      BY <2>6, <2>9, <2>10 DEF Write, PageWrite
    <3>2. /\ Insertion(key, val).writes = w \o <<a, b>>
          /\ Insertion(key, val).root = new
      BY <1>1, <1>2, <1>11, <2>1, <2>2, <2>4 DEF Insertion, top
    <3>3. r2 = Append(Append(w, a), b)
      OBVIOUS
    <3> HIDE DEF a, b, r2
    <3>4. w \o <<a, b>> = Append(Append(w, a), b)
      BY <3>1, TwoMore
    <3> QED
      BY <3>2, <3>3, <3>4
  <2> HIDE DEF r1, r2
  <2>14. DOMAIN G = DOMAIN F \cup {new} /\ \A x \in DOMAIN F : G[x] = F[x]
    <3> HIDE DEF G
    <3>1. DOMAIN G = DOMAIN F \cup {new}
      BY <2>11, <2>12
    <3>2. \A x \in DOMAIN F : G[x] = F[x]
      BY <2>6, <2>11, <2>12
    <3> QED
      BY <3>1, <3>2
  <2> HIDE DEF G
  <2>15. ASSUME NEW x \in DOMAIN G PROVE Placed(x, G[x], L2, B2)
    <3>1. CASE x = new
      BY <2>9, <2>12, <3>1
    <3>2. CASE x # new
      <4>1. x \in DOMAIN F /\ x \in Nat /\ F[x] \in Node /\ G[x] = F[x] /\ L2[x] = L[x]
        BY <1>5, <2>7, <2>14, <3>2
      <4>2. Placed(x, F[x], L, B)
        BY <1>9, <4>1
      <4>3. ASSUME ~F[x].leaf, NEW i \in 1..Len(F[x].kids)
            PROVE  L2[F[x].kids[i]] = L[F[x].kids[i]] /\ B2[F[x].kids[i]] = x
        <5>1. F[x].kids[i] \in Nat
          BY <4>1, ElementOfSeq DEF Node
        <5>2. B[F[x].kids[i]] = x
          BY <4>2, <4>3 DEF Placed
        <5>3. F[x].kids[i] # new /\ F[x].kids[i] # root /\ F[x].kids[i] # m
          BY <1>6, <1>8, <2>2, <2>6, <4>1, <5>2
        <5> QED
          BY <2>7, <2>8, <5>1, <5>2, <5>3
      <4>4. Len(F[x].keys) \in Nat
        BY <4>1, LenProperties DEF Node
      <4> QED
        BY <4>1, <4>2, <4>3, <4>4, PlacedAgain
    <3> QED
      BY <3>1, <3>2
  <2>16. \A x \in Nat \ DOMAIN G : B2[x] = NoPage
    BY <1>5, <1>6, <2>2, <2>8, <2>14
  <2>17. InPlace(G, new, K[root] \cup {key}, L2, B2)
    BY <2>7, <2>8, <2>15, <2>16 DEF InPlace
  <2> QED
    BY <2>13, <2>17 DEF G
<1> QED
  BY <1>10, <1>11

------------------------------------------------------------------------------
(* The invariant, and the search down to the leaf.                         *)

InOrder == breaks = 0 => \E K, A : Ordered(K, A)

(* The empty leaf of the constructor is in place.                          *)
LEMMA InitInOrder == Init => InOrder
<1> SUFFICES ASSUME Init PROVE \E K, A : Ordered(K, A)
  BY DEF InOrder
<1> DEFINE node == Leaf(<<>>, <<>>, NoPage)
           K == [x \in Nat |-> {k \in Key : FALSE}]
           A == [x \in Nat |-> NoPage]
<1>1. /\ nodes = [p \in {0} |-> node] /\ root = 0 /\ given = {} /\ Page = {0}
      /\ NoPage \notin Nat
  BY BTreeAssumption DEF Init, Page
<1>2. node.leaf /\ node.keys = <<>> /\ Len(node.keys) = 0
  BY EmptySeq DEF Leaf
<1> HIDE DEF node
<1>3. \A i \in 1..0 : FALSE
  OBVIOUS
<1>4. \A x \in Nat : K[x] = {}
  OBVIOUS
<1>5. K \in Under
  BY DEF Under
<1>6. A \in Parents /\ \A x \in Nat : A[x] = NoPage
  BY <1>1 DEF Parents
<1> HIDE DEF K, A
<1>7. KeysBelow(node, K) = {}
  BY <1>2, <1>3 DEF KeysBelow
<1>8. Placed(0, node, K, A)
  BY <1>2, <1>3, <1>4, <1>7 DEF Placed
<1>9. \A p \in Page : Placed(p, nodes[p], K, A)
  BY <1>1, <1>8
<1>10. K[root] = {e[1] : e \in given}
  BY <1>1, <1>4
<1>11. A[root] = NoPage
  BY <1>1, <1>6
<1>12. Ordered(K, A)
  BY <1>5, <1>6, <1>9, <1>10, <1>11 DEF Ordered
<1> QED
  BY <1>12

(* An insertion that is finished leaves all keys in order; one that broke  *)
(* off is counted.                                                         *)
LEMMA NextInOrder == IInv /\ InOrder /\ [Next]_vars => InOrder'
<1> SUFFICES ASSUME IInv, InOrder, [Next]_vars PROVE InOrder'
  OBVIOUS
<1>1. ASSUME NEW key \in Key, Insert(key) PROVE InOrder'
  <2> SUFFICES ASSUME breaks = 0 PROVE \E L, B : Ordered(L, B)'
    BY <1>1 DEF InOrder, Insert
  <2>1. PICK K, A : Ordered(K, A)
    BY DEF InOrder
  <2>2. PICK h, r : TypeOK /\ Measures(h, r)
    BY DEF IInv
  <2>3. PICK val \in Nat : val = NewVal
    <3>1. NewVal \in Nat
      BY <2>2, FS_CardinalityType DEF NewVal, TypeOK
    <3> QED
      BY <3>1
  <2>4. /\ nodes' = AfterWrites(Insertion(key, val).writes)
        /\ root' = Insertion(key, val).root
        /\ given' = given \cup {<<key, val>>}
    BY <1>1, <2>3 DEF Insert
  <2>5. PICK L, B : InPlace(nodes', root', K[root] \cup {key}, L, B)
    <3>1. \E L, B : InPlace(AfterWrites(Insertion(key, val).writes),
                            Insertion(key, val).root, K[root] \cup {key}, L, B)
      BY <2>1, <2>2, InsertionOrdered
    <3> QED
      BY <2>4, <3>1
  <2>6. K[root] \cup {key} = {e[1] : e \in given'}
    <3>1. K[root] = {e[1] : e \in given}
      BY <2>1 DEF Ordered
    <3>2. <<key, val>>[1] = key
      OBVIOUS
    <3> QED
      BY <2>4, <3>1, <3>2
  <2>7. Ordered(L, B)'
    BY <2>5, <2>6 DEF Ordered, InPlace, Page
  <2> QED
    BY <2>7
<1>2. ASSUME NEW key \in Key, NEW n \in 1..Len(Insertion(key, NewVal).writes),
             InsertBreaks(key, n)
      PROVE  InOrder'
  <2>1. breaks' = breaks + 1 /\ breaks \in Nat
    BY <1>2 DEF InsertBreaks, IInv, TypeOK
  <2>2. breaks' # 0
    BY <2>1
  <2> QED
    BY <2>2 DEF InOrder
<1>3. CASE UNCHANGED vars
  <2>1. nodes' = nodes /\ root' = root /\ given' = given /\ breaks' = breaks /\ Page' = Page
    BY <1>3 DEF vars, Page
  <2>2. \A K, A : Ordered(K, A) => Ordered(K, A)'
    BY <2>1 DEF Ordered
  <2> QED
    BY <2>1, <2>2 DEF InOrder
<1>4. CASE Throws
  BY <1>3, <1>4 DEF Throws
<1> QED
  BY <1>1, <1>2, <1>3, <1>4 DEF Next

(* The child a search goes on to has the key below it, if any has.         *)
LEMMA ChildHasKey ==
    ASSUME NEW p, NEW node \in Node, ~node.leaf, NEW K \in Under, NEW A,
           Placed(p, node, K, A), NEW key \in Key, key \in K[p]
    PROVE  key \in K[ChildFor(node, key)]
<1> DEFINE N == Len(node.keys)
<1>1. /\ node.keys \in Seq(Key) /\ N \in Nat /\ Len(node.kids) = N + 1
      /\ \A i \in 1..N : node.keys[i] \in Nat
      /\ key \in Nat
  BY LenProperties, ElementOfSeq, BTreeAssumption DEF Node, Placed
<1>2. PICK c : c = ChildIndex(node, key)
  OBVIOUS
<1>3. /\ c \in 1..(N + 1) /\ \A j \in 1..(c - 1) : node.keys[j] <= key
      /\ c <= N => key < node.keys[c]
  BY <1>1, <1>2, ChildIndexFacts
<1>4. PICK i \in 1..(N + 1) : key \in K[node.kids[i]]
  BY <1>1 DEF Placed, KeysBelow
<1>5. /\ \A x, y \in 1..N : x < y => node.keys[x] <= node.keys[y]
      /\ \A x \in 1..N : /\ node.keys[x] \in K[node.kids[x + 1]]
                         /\ \A k \in K[node.kids[x]] : k <= node.keys[x]
                         /\ \A k \in K[node.kids[x + 1]] : node.keys[x] <= k
  BY DEF Placed
<1>6. CASE i = c
  BY <1>2, <1>4, <1>6 DEF ChildFor
<1>7. CASE i < c
  <2>1. PICK d \in 1..N : c = d + 1 /\ (i = d \/ i < d)
    <3>1. c - 1 \in 1..N /\ c = (c - 1) + 1 /\ (i = c - 1 \/ i < c - 1)
      BY <1>1, <1>3, <1>7
    <3> QED
      BY <3>1
  <2>2. i \in 1..N /\ d \in 1..(c - 1)
    BY <1>1, <1>7, <2>1
  <2>3. node.keys[i] \in Nat /\ node.keys[d] \in Nat
    BY <1>1, <2>1, <2>2
  <2>4. key <= node.keys[i] /\ node.keys[d] <= key
    BY <1>3, <1>4, <1>5, <2>2
  <2>5. node.keys[i] <= node.keys[d]
    BY <1>5, <2>1, <2>2, <2>3
  <2>6. key = node.keys[d]
    BY <1>1, <2>3, <2>4, <2>5
  <2>7. key \in K[node.kids[c]]
    BY <1>5, <2>1, <2>6
  <2> QED
    BY <1>2, <2>7 DEF ChildFor
<1>8. CASE c < i
  <2>1. PICK j \in 1..N : i = j + 1 /\ (c = j \/ c < j)
    <3>1. i - 1 \in 1..N /\ i = (i - 1) + 1 /\ (c = i - 1 \/ c < i - 1)
      BY <1>1, <1>3, <1>8
    <3> QED
      BY <3>1
  <2>2. c \in 1..N /\ c <= N
    BY <1>1, <1>3, <2>1
  <2>3. node.keys[c] \in Nat /\ node.keys[j] \in Nat
    BY <1>1, <2>1, <2>2
  <2>4. node.keys[j] <= key /\ key < node.keys[c]
    BY <1>3, <1>4, <1>5, <2>1, <2>2
  <2>5. node.keys[c] <= node.keys[j]
    BY <1>5, <2>1, <2>2, <2>3
  <2> QED
    BY <1>1, <2>3, <2>4, <2>5
<1> QED
  BY <1>1, <1>3, <1>6, <1>7, <1>8

(* The leaf a search ends at holds the key, if any was inserted.           *)
LEMMA LeafHasKey ==
    ASSUME IInv, NEW K, NEW A, Ordered(K, A), NEW key \in Key, key \in K[root]
    PROVE  \E i \in 1..Len(nodes[FindLeaf(key)].keys) : nodes[FindLeaf(key)].keys[i] = key
<1>1. PICK h, r : TypeOK /\ Measures(h, r)
  BY DEF IInv
<1>2. PICK path : path = Path(key)
  OBVIOUS
<1>3. PICK n \in Nat :
        /\ path[1] = root
        /\ Last(path) = path[n + 1]
        /\ path[n + 1] \in Page /\ nodes[path[n + 1]].leaf
        /\ \A i \in 1..n : /\ path[i] \in Page /\ ~nodes[path[i]].leaf
                           /\ path[i + 1] = ChildFor(nodes[path[i]], key)
  BY <1>1, <1>2, PathParts
<1> DEFINE S == {i \in Nat : i <= n => key \in K[path[i + 1]]}
<1>4. 0 \in S
  <2>1. 0 + 1 = 1
    OBVIOUS
  <2> QED
    BY <1>3, <2>1
<1>5. ASSUME NEW i \in Nat, i \in S PROVE i + 1 \in S
  <2> SUFFICES ASSUME i + 1 <= n PROVE key \in K[path[(i + 1) + 1]]
    OBVIOUS
  <2>1. PICK j \in 1..n : j = i + 1 /\ i <= n
    BY <1>5
  <2>2. key \in K[path[j]]
    BY <1>5, <2>1
  <2>3. PICK p \in Page : p = path[j] /\ ~nodes[p].leaf /\ path[j + 1] = ChildFor(nodes[p], key)
    BY <1>3
  <2>4. PICK node \in Node : node = nodes[p]
    BY <1>1 DEF TypeOK
  <2>5. Placed(p, node, K, A) /\ K \in Under /\ ~node.leaf /\ key \in K[p]
    BY <2>2, <2>3, <2>4 DEF Ordered
  <2>6. key \in K[ChildFor(node, key)]
    BY <2>5, ChildHasKey
  <2> QED
    BY <2>1, <2>3, <2>4, <2>6
<1>6. n \in S
  <2> HIDE DEF S
  <2> QED
    BY <1>4, <1>5, SetInduction
<1>7. PICK p \in Page : p = path[n + 1] /\ nodes[p].leaf /\ key \in K[p]
  BY <1>3, <1>6
<1>8. K[p] = KeysBelow(nodes[p], K)
  BY DEF Ordered, Placed
<1>9. \E i \in 1..Len(nodes[p].keys) : nodes[p].keys[i] = key
  BY <1>7, <1>8 DEF KeysBelow
<1> QED
  BY <1>2, <1>3, <1>7, <1>9 DEF FindLeaf

(* search reads its value at the first hit in the leaf.                    *)
LEMMA SearchComplete == IInv /\ InOrder => SearchFinds
<1> SUFFICES ASSUME IInv, InOrder, breaks = 0, NEW key \in Key
             PROVE  IF Of(key) = {} THEN Search(key) = None ELSE <<key, Search(key)>> \in given
  BY DEF SearchFinds
<1>1. PICK K, A : Ordered(K, A)
  BY DEF InOrder
<1>2. CASE Of(key) = {}
  <2>1. ASSUME Search(key) # None PROVE FALSE
    <3>1. <<key, Search(key)>> \in given
      BY <2>1, SearchSound
    <3>2. <<key, Search(key)>> \in Of(key)
      BY <3>1 DEF Of
    <3> QED
      BY <1>2, <3>2
  <2> QED
    BY <1>2, <2>1
<1>3. CASE Of(key) # {}
  <2>1. key \in K[root]
    BY <1>1, <1>3 DEF Of, Ordered
  <2>2. PICK p \in Page : p = FindLeaf(key) /\ nodes[p].leaf
    <3>1. PICK H, R : TypeOK /\ Measures(H, R)
      BY DEF IInv
    <3>2. \E n \in Nat : /\ Last(Path(key)) = Path(key)[n + 1]
                         /\ Path(key)[n + 1] \in Page /\ nodes[Path(key)[n + 1]].leaf
      BY <3>1, PathParts
    <3> QED
      BY <3>2 DEF FindLeaf
  <2> DEFINE Hits == {i \in 1..Len(nodes[p].keys) : nodes[p].keys[i] = key}
  <2>3. Search(key) = IF Hits = {} THEN None ELSE nodes[p].vals[Min(Hits)]
    BY <2>2 DEF Search
  <2>4. Hits # {}
    BY <1>1, <2>1, <2>2, LeafHasKey
  <2>5. Min(Hits) \in 1..Len(nodes[p].vals) /\ nodes[p].vals \in Seq(Nat)
    <3>1. Hits \in SUBSET Nat /\ Hits \subseteq 1..Len(nodes[p].keys)
      OBVIOUS
    <3>2. Min(Hits) \in Hits
      <4> HIDE DEF Hits
      <4> QED
        BY <2>4, <3>1, MinIsLeast
    <3>3. Len(nodes[p].vals) = Len(nodes[p].keys) /\ nodes[p].vals \in Seq(Nat)
      BY <2>2 DEF IInv, TypeOK, Measures, SoundAt, Node
    <3> HIDE DEF Hits
    <3> QED
      BY <3>1, <3>2, <3>3
  <2>6. Search(key) \in Nat
    <3>1. PICK i : i = Min(Hits)
      OBVIOUS
    <3>2. i \in 1..Len(nodes[p].vals) /\ nodes[p].vals \in Seq(Nat) /\ Search(key) = nodes[p].vals[i]
      BY <2>3, <2>4, <2>5, <3>1
    <3> QED
      BY <3>2, ElementOfSeq
  <2>7. Search(key) # None
    BY <2>6, BTreeAssumption
  <2>8. <<key, Search(key)>> \in given
    BY <2>7, SearchSound
  <2> QED
    BY <1>3, <2>8
<1> QED
  BY <1>2, <1>3

(* With any number of keys to a node and of insertions, repeated keys      *)
(* included: as long as none broke off between two page writes, search     *)
(* finds under every key that was inserted one of its values, whichever    *)
(* way equal keys were split (btree.cpp: findLeaf and search go right of   *)
(* an equal separator; insertRec, insertIntoLeaf, splitNode), and nothing  *)
(* under any other key.                                                    *)
THEOREM EveryKeyFound == Spec => []SearchFinds
<1>1. IInv /\ InOrder /\ [Next]_vars => (IInv /\ InOrder)'
  BY NextInv, NextInOrder
<1>2. Init => IInv /\ InOrder
  BY InitInv, InitInOrder
<1>3. IInv /\ InOrder => SearchFinds
  BY SearchComplete
<1> QED
  BY <1>1, <1>2, <1>3, PTL DEF Spec
==============================================================================
