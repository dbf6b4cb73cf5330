--------------------------- MODULE BufferPoolProofs ---------------------------
(***************************************************************************)
(* What BufferPool.tla guarantees for a pool of any size, any number of    *)
(* clients and pages of any content: the frame table, the LRU list and the *)
(* pins agree, a pinned page stays, a flushed page survives, the page that *)
(* makes room is the least recently used, and seen through the pool the    *)
(* file is the page store of PageStore.tla.                                *)
(***************************************************************************)
EXTENDS BufferPool, TLAPS, FiniteSetTheorems, SequenceTheorems

(* Each element occurs once; x comes before y.                             *)
Once(s)         == \A i, j \in 1..Len(s) : s[i] = s[j] => i = j
Before(s, x, y) == \E i, j \in 1..Len(s) : i < j /\ s[i] = x /\ s[j] = y

------------------------------------------------------------------------------
(* Lists without the element at one position, as evict leaves lruList_.    *)
LEMMA RemoveAtItems ==
    ASSUME NEW S, NEW s \in Seq(S), NEW i \in 1..Len(s)
    PROVE  /\ RemoveAt(s, i) \in Seq(S)
           /\ Len(RemoveAt(s, i)) = Len(s) - 1
           /\ \A k \in 1..(Len(s) - 1) :
                RemoveAt(s, i)[k] = s[IF k < i THEN k ELSE k + 1]
<1> DEFINE front == SubSeq(s, 1, i - 1)
           back  == SubSeq(s, i + 1, Len(s))
<1>1. Len(s) \in Nat /\ \A k \in 1..Len(s) : s[k] \in S
  BY LenProperties, ElementOfSeq
<1>2. /\ front \in Seq(S)
      /\ Len(front) = i - 1
      /\ \A k \in 1..(i - 1) : front[k] = s[k]
  <2>1. \A k \in 1..(i - 1) : s[k] \in S
    BY <1>1
  <2> QED
    BY <1>1, <2>1, SubSeqProperties
<1>3. /\ back \in Seq(S)
      /\ Len(back) = Len(s) - i
      /\ \A k \in 1..(Len(s) - i) : back[k] = s[i + k]
  <2>1. \A k \in (i + 1)..Len(s) : s[k] \in S
    BY <1>1
  <2> QED
    BY <1>1, <2>1, SubSeqProperties
<1>4. /\ front \o back \in Seq(S)
      /\ Len(front \o back) = Len(front) + Len(back)
      /\ \A k \in 1..(Len(front) + Len(back)) :
           (front \o back)[k] = IF k <= Len(front) THEN front[k] ELSE back[k - Len(front)]
  BY <1>2, <1>3, ConcatProperties
<1>5. RemoveAt(s, i) = front \o back
  BY DEF RemoveAt
<1> HIDE DEF front, back
<1>6. Len(front \o back) = Len(s) - 1
  BY <1>1, <1>2, <1>3, <1>4
<1>7. ASSUME NEW k \in 1..(Len(s) - 1)
      PROVE  RemoveAt(s, i)[k] = s[IF k < i THEN k ELSE k + 1]
  <2>1. CASE k < i
    BY <1>1, <1>2, <1>3, <1>4, <1>5, <2>1
  <2>2. CASE k >= i
    <3>1. k - (i - 1) \in 1..(Len(s) - i)
      BY <1>1, <2>2
    <3>2. (front \o back)[k] = back[k - (i - 1)]
      BY <1>1, <1>2, <1>3, <1>4, <2>2
    <3> QED
      BY <1>1, <1>3, <1>5, <2>2, <3>1, <3>2
  <2> QED
    BY <1>1, <2>1, <2>2
<1> QED
  BY <1>4, <1>5, <1>6, <1>7

(* An element put in front of a list, as a page that comes into the pool.  *)
LEMMA ConsItems ==
    ASSUME NEW S, NEW s \in Seq(S), NEW p \in S
    PROVE  /\ <<p>> \o s \in Seq(S)
           /\ Len(<<p>> \o s) = Len(s) + 1
           /\ \A k \in 1..(Len(s) + 1) :
                (<<p>> \o s)[k] = IF k = 1 THEN p ELSE s[k - 1]
<1>1. <<p>> \in Seq(S) /\ Len(<<p>>) = 1 /\ <<p>>[1] = p
  OBVIOUS
<1>2. Len(s) \in Nat
  BY LenProperties
<1> QED
  BY <1>1, <1>2, ConcatProperties

(* What leaves a list by RemoveAt, and what stays as it was.               *)
LEMMA RemoveAtKeeps ==
    ASSUME NEW S, NEW s \in Seq(S), Once(s), NEW i \in 1..Len(s)
    PROVE  /\ RemoveAt(s, i) \in Seq(S)
           /\ Once(RemoveAt(s, i))
           /\ ToSet(RemoveAt(s, i)) = ToSet(s) \ {s[i]}
           /\ \A x, y : Before(RemoveAt(s, i), x, y)
                        <=> Before(s, x, y) /\ x # s[i] /\ y # s[i]
<1> DEFINE r == RemoveAt(s, i)
           from(k) == IF k < i THEN k ELSE k + 1
           to(k)   == IF k < i THEN k ELSE k - 1
<1>1. /\ r \in Seq(S)
      /\ Len(r) = Len(s) - 1
      /\ \A k \in 1..(Len(s) - 1) : r[k] = s[from(k)]
  BY RemoveAtItems
<1>2. Len(s) \in Nat /\ DOMAIN s = 1..Len(s) /\ DOMAIN r = 1..Len(r)
  BY <1>1, LenProperties
<1> HIDE DEF r
<1>3. \A k \in 1..Len(r) : from(k) \in 1..Len(s) /\ from(k) # i /\ r[k] = s[from(k)]
  BY <1>1, <1>2
<1>4. \A k \in 1..Len(s) : k # i => to(k) \in 1..Len(r) /\ r[to(k)] = s[k]
  BY <1>1, <1>2
<1>5. \A k, l \in 1..Len(r) : (from(k) = from(l) => k = l) /\ (k < l => from(k) < from(l))
  BY <1>1, <1>2
<1>6. \A k, l \in 1..Len(s) : k # i /\ l # i /\ k < l => to(k) < to(l)
  BY <1>2
<1> HIDE DEF from, to
<1>7. Once(r)
  BY <1>3, <1>5 DEF Once
<1>8. ToSet(r) = ToSet(s) \ {s[i]}
  BY <1>2, <1>3, <1>4 DEF ToSet, Once
<1>9. ASSUME NEW x, NEW y
      PROVE  Before(r, x, y) <=> Before(s, x, y) /\ x # s[i] /\ y # s[i]
  <2>1. ASSUME Before(r, x, y) PROVE Before(s, x, y) /\ x # s[i] /\ y # s[i]
    BY <1>3, <1>5, <2>1 DEF Before, Once
  <2>2. ASSUME Before(s, x, y), x # s[i], y # s[i] PROVE Before(r, x, y)
    BY <1>4, <1>6, <2>2 DEF Before
  <2> QED
    BY <2>1, <2>2
<1> QED
  BY <1>1, <1>7, <1>8, <1>9 DEF r

(* What comes before or after something in a list is in the list.          *)
LEMMA BeforeInside ==
    ASSUME NEW S, NEW s \in Seq(S), NEW x, NEW y, Before(s, x, y)
    PROVE  x \in ToSet(s) /\ y \in ToSet(s)
<1>1. DOMAIN s = 1..Len(s)
  BY LenProperties
<1>2. PICK i \in 1..Len(s), j \in 1..Len(s) : s[i] = x /\ s[j] = y
  BY DEF Before
<1> QED
  BY <1>1, <1>2 DEF ToSet

(* The order of a list after a new element has been put in front of it.    *)
LEMMA ConsKeeps ==
    ASSUME NEW S, NEW s \in Seq(S), Once(s), NEW p \in S, p \notin ToSet(s)
    PROVE  /\ <<p>> \o s \in Seq(S)
           /\ Once(<<p>> \o s)
           /\ ToSet(<<p>> \o s) = ToSet(s) \cup {p}
           /\ \A x, y : Before(<<p>> \o s, x, y)
                        <=> Before(s, x, y) \/ (x = p /\ y \in ToSet(s))
<1> DEFINE r == <<p>> \o s
<1>1. /\ r \in Seq(S)
      /\ Len(r) = Len(s) + 1
      /\ \A k \in 1..(Len(s) + 1) : r[k] = IF k = 1 THEN p ELSE s[k - 1]
  BY ConsItems
<1>2. Len(s) \in Nat /\ DOMAIN s = 1..Len(s) /\ DOMAIN r = 1..Len(r)
  BY <1>1, LenProperties
<1> HIDE DEF r
<1>3. \A k \in 1..Len(s) : s[k] # p /\ k + 1 \in 1..Len(r) /\ r[k + 1] = s[k]
  BY <1>1, <1>2 DEF ToSet
<1>4. r[1] = p /\ 1 \in 1..Len(r)
  BY <1>1, <1>2
<1>5. \A k \in 1..Len(r) : k # 1 => k - 1 \in 1..Len(s) /\ r[k] = s[k - 1]
  BY <1>1, <1>2
<1>6. Once(r)
  BY <1>2, <1>3, <1>4, <1>5 DEF Once
<1>7. ToSet(r) = ToSet(s) \cup {p}
  <2>1. ToSet(r) \subseteq ToSet(s) \cup {p}
    BY <1>2, <1>4, <1>5 DEF ToSet
  <2>2. ToSet(s) \cup {p} \subseteq ToSet(r)
    BY <1>2, <1>3, <1>4 DEF ToSet
  <2> QED
    BY <2>1, <2>2
<1>8. ASSUME NEW x, NEW y
      PROVE  Before(r, x, y) <=> Before(s, x, y) \/ (x = p /\ y \in ToSet(s))
  <2>1. ASSUME Before(r, x, y) PROVE Before(s, x, y) \/ (x = p /\ y \in ToSet(s))
    <3>1. PICK i \in 1..Len(r), j \in 1..Len(r) : i < j /\ r[i] = x /\ r[j] = y
      BY <2>1 DEF Before
    <3>2. j # 1 /\ j - 1 \in 1..Len(s) /\ y = s[j - 1]
      BY <1>2, <1>5, <3>1
    <3>3. CASE i = 1
      BY <1>2, <1>4, <3>1, <3>2, <3>3 DEF ToSet
    <3>4. CASE i # 1
      <4>1. i - 1 \in 1..Len(s) /\ x = s[i - 1]
        BY <1>5, <3>1, <3>4
      <4>2. i - 1 < j - 1
        BY <3>1
      <4> QED
        BY <3>2, <4>1, <4>2 DEF Before
    <3> QED
      BY <3>3, <3>4
  <2>2. ASSUME Before(s, x, y) PROVE Before(r, x, y)
    BY <1>1, <1>2, <1>3, <2>2 DEF Before
  <2>3. ASSUME x = p, y \in ToSet(s) PROVE Before(r, x, y)
    <3>1. PICK k \in 1..Len(s) : s[k] = y
      BY <1>2, <2>3 DEF ToSet
    <3>2. 1 < k + 1 /\ k + 1 \in 1..Len(r) /\ r[k + 1] = y
      BY <1>2, <1>3, <3>1
    <3> QED
      BY <1>4, <2>3, <3>2 DEF Before
  <2> QED
    BY <2>1, <2>2, <2>3
<1> QED
  BY <1>1, <1>6, <1>7, <1>8 DEF r

(* touchPage moves the page to the front and leaves the others in order.   *)
LEMMA TouchedKeeps ==
    ASSUME NEW S, NEW s \in Seq(S), Once(s), NEW p \in ToSet(s)
    PROVE  /\ Touched(s, p) \in Seq(S)
           /\ Once(Touched(s, p))
           /\ ToSet(Touched(s, p)) = ToSet(s)
           /\ \A x, y : Before(Touched(s, p), x, y)
                        <=> \/ Before(s, x, y) /\ x # p /\ y # p
                            \/ x = p /\ y \in ToSet(s) \ {p}
<1> DEFINE i == At(s, p)
           r == RemoveAt(s, i)
<1>1. DOMAIN s = 1..Len(s)
  BY LenProperties
<1>2. i \in 1..Len(s) /\ s[i] = p
  BY <1>1 DEF At, ToSet
<1>3. p \in S
  BY <1>2, ElementOfSeq
<1> HIDE DEF i
<1>4. /\ r \in Seq(S)
      /\ Once(r)
      /\ ToSet(r) = ToSet(s) \ {p}
      /\ \A x, y : Before(r, x, y) <=> Before(s, x, y) /\ x # p /\ y # p
  BY <1>2, RemoveAtKeeps
<1>5. Touched(s, p) = <<p>> \o r
  BY DEF Touched, i
<1> HIDE DEF r
<1>6. /\ <<p>> \o r \in Seq(S)
      /\ Once(<<p>> \o r)
      /\ ToSet(<<p>> \o r) = ToSet(r) \cup {p}
      /\ \A x, y : Before(<<p>> \o r, x, y)
                   <=> Before(r, x, y) \/ (x = p /\ y \in ToSet(r))
  BY <1>3, <1>4, ConsKeeps
<1>7. ToSet(Touched(s, p)) = ToSet(s)
  <2>1. (ToSet(s) \ {p}) \cup {p} = ToSet(s)
    BY Zenon
  <2> QED
    BY <1>4, <1>5, <1>6, <2>1, Zenon
<1> QED
  BY <1>4, <1>5, <1>6, <1>7

------------------------------------------------------------------------------
(* The inductive invariant.                                                *)
Page == 1..Len(disk)
Pin  == [page : Nat, wrote : BOOLEAN]

TypeOK ==
    /\ disk \in Seq(Content)
    /\ good \in BOOLEAN
    /\ pages \in [Resident -> Frame]
    /\ lru \in Seq(Nat)
    /\ hold \in [Client -> Pin \cup {None}]
    /\ used \in Seq(Nat)
    /\ synced \in [DOMAIN synced -> Content]

BeingWritten(p) == \E c \in Client : hold[c] # None /\ hold[c].page = p /\ hold[c].wrote

(* A frame that is not dirty and that no client is writing equals the      *)
(* file: dropping it loses nothing.                                        *)
CleanFrames ==
    \A p \in Resident : ~pages[p].dirty /\ ~BeingWritten(p) => pages[p].data = disk[p]

(* A flushed page is on disk, whatever its dirty flag says by now, and no  *)
(* frame of it differs.                                                    *)
FlushedOnDisk ==
    \A p \in DOMAIN synced :
        /\ p \in Page
        /\ disk[p] = synced[p]
        /\ p \in Resident => pages[p].data = synced[p]

(* The LRU list has its pages in the order of their last use.              *)
LruByUse ==
    /\ ToSet(used) = Page
    /\ Once(used)
    /\ \A x, y : Before(lru, x, y) => Before(used, x, y)

IInv ==
    /\ TypeOK
    /\ PoolConsistent
    /\ PinnedStay
    /\ CleanFrames
    /\ FlushedOnDisk
    /\ LruByUse

(* A step that leaves the lists and the file's length alone keeps it.      *)
LEMMA LruKept ==
    ASSUME LruByUse, lru' = lru, used' = used, Page' = Page
    PROVE  LruByUse'
<1>1. ToSet(used)' = ToSet(used) /\ (Once(used) <=> Once(used)')
  BY DEF ToSet, Once
<1>2. \A x, y : (Before(lru, x, y) <=> Before(lru, x, y)') /\ (Before(used, x, y) <=> Before(used, x, y)')
  BY DEF Before
<1>3. LruByUse' <=> /\ ToSet(used)' = Page' /\ Once(used)'
                    /\ \A x, y : Before(lru, x, y)' => Before(used, x, y)'
  BY DEF LruByUse
<1> HIDE DEF LruByUse
<1> QED
  BY <1>1, <1>2, <1>3 DEF LruByUse

(* FlushedSurvives is a consequence.                                       *)
LEMMA FlushedFollows == IInv => FlushedSurvives
BY DEF IInv, FlushedOnDisk, FlushedSurvives, Current

(* Nothing is pinned or resident in a pool that has just been opened.      *)
LEMMA EmptyFunction == ASSUME NEW S
                       PROVE  <<>> \in [{} -> S] /\ DOMAIN <<>> = {} /\ ToSet(<<>>) = {}
<1>1. <<>> \in Seq(S) /\ Len(<<>>) = 0
  BY EmptySeq
<1>2. <<>> \in [1..0 -> S] /\ DOMAIN <<>> = 1..0
  BY <1>1, LenProperties
<1>3. 1..0 = {}
  OBVIOUS
<1> QED
  BY <1>2, <1>3 DEF ToSet

(* The invariant holds of the empty file.                                  *)
LEMMA InitInv == Init => IInv
<1> SUFFICES ASSUME Init PROVE IInv
  OBVIOUS
<1>1. /\ pages \in [{} -> Frame] /\ Resident = {}
      /\ synced \in [{} -> Content] /\ DOMAIN synced = {}
      /\ ToSet(lru) = {} /\ ToSet(used) = {}
  BY EmptyFunction DEF Init, Resident
<1>2. Len(disk) = 0 /\ Len(lru) = 0 /\ Len(used) = 0 /\ 1..0 = {}
  BY EmptySeq DEF Init
<1>3. TypeOK
  BY <1>1, EmptySeq DEF Init, TypeOK
<1>4. PoolConsistent
  BY <1>1, <1>2, FS_EmptySet, PoolAssumption DEF PoolConsistent
<1>5. PinnedStay
  BY DEF Init, PinnedStay, Free
<1>6. LruByUse
  BY <1>1, <1>2 DEF LruByUse, Page, Once, Before
<1> QED
  BY <1>1, <1>3, <1>4, <1>5, <1>6 DEF IInv, CleanFrames, FlushedOnDisk

(* The pins of a page are the clients that hold it.                        *)
LEMMA PinsNat ==
    ASSUME NEW p
    PROVE  IsFiniteSet(Holders(p)) /\ Cardinality(Holders(p)) \in Nat
<1>1. Holders(p) \in SUBSET Client
  BY DEF Holders
<1>2. IsFiniteSet(Holders(p))
  BY <1>1, PoolAssumption, FS_Subset
<1> QED
  BY <1>2, FS_CardinalityType

LEMMA ResidentFinite ==
    ASSUME IInv PROVE IsFiniteSet(Resident) /\ Cardinality(Resident) \in Nat
<1>1. Len(disk) \in Nat
  BY LenProperties DEF IInv, TypeOK
<1>2. Resident \in SUBSET (1..Len(disk)) /\ IsFiniteSet(1..Len(disk))
  BY <1>1, FS_Interval DEF IInv, PoolConsistent
<1>3. IsFiniteSet(Resident)
  BY <1>2, FS_Subset
<1> QED
  BY <1>3, FS_CardinalityType

(* A client that takes hold of a page: the holders after it.               *)
LEMMA HoldsHolders ==
    ASSUME TypeOK, NEW c \in Client, Free(c), NEW p \in Nat, hold' = Holds(c, p)
    PROVE  /\ hold' \in [Client -> Pin \cup {None}]
           /\ c \notin Holders(p)
           /\ \A q : Holders(q)' = IF q = p THEN Holders(q) \cup {c} ELSE Holders(q)
           /\ \A q : BeingWritten(q)' <=> BeingWritten(q)
           /\ \A d \in Client : ~Free(d)' <=> d = c \/ ~Free(d)
           /\ \A d \in Client : hold'[d] = IF d = c THEN [page |-> p, wrote |-> FALSE]
                                           ELSE hold[d]
<1> DEFINE pin == [page |-> p, wrote |-> FALSE]
<1>1. pin \in Pin /\ pin # None /\ pin.page = p /\ ~pin.wrote
  <2>1. pin \in Pin
    BY DEF Pin
  <2> QED
    BY <2>1, PoolAssumption DEF Pin
<1>2. hold' = [hold EXCEPT ![c] = pin]
  BY DEF Holds
<1> HIDE DEF pin
<1>3. \A d \in Client : hold'[d] = IF d = c THEN pin ELSE hold[d]
  BY <1>2 DEF TypeOK
<1>4. hold' \in [Client -> Pin \cup {None}]
  BY <1>1, <1>2 DEF TypeOK
<1>5. \A q : Holders(q)' = IF q = p THEN Holders(q) \cup {c} ELSE Holders(q)
  BY <1>1, <1>3 DEF Holders, Free
<1>6. \A q : BeingWritten(q)' <=> BeingWritten(q)
  BY <1>1, <1>3 DEF BeingWritten, Free
<1>7. \A d \in Client : ~Free(d)' <=> d = c \/ ~Free(d)
  BY <1>1, <1>3 DEF Free
<1> QED
  BY <1>3, <1>4, <1>5, <1>6, <1>7 DEF Holders, Free, pin

------------------------------------------------------------------------------
(* Making room.  What fetchPage and newPage find once there is a free      *)
(* frame: the pages that stay are as they were, the one that left, if any, *)
(* was held by nobody and is in the file as it was in its frame.           *)
RoomOK(room) ==
    LET kept == DOMAIN room.pages IN
    /\ kept \subseteq Resident
    /\ room.pages = [q \in kept |-> pages[q]]
    /\ room.lru \in Seq(Nat)
    /\ Once(room.lru)
    /\ ToSet(room.lru) = kept
    /\ Cardinality(kept) < PoolSize
    /\ room.disk \in Seq(Content)
    /\ Len(room.disk) = Len(disk)
    /\ \A q \in Page : room.disk[q] = IF q \in Resident \ kept THEN pages[q].data ELSE disk[q]
    /\ \A c \in Client : ~Free(c) => hold[c].page \in kept
    /\ \A x, y : Before(room.lru, x, y) => Before(lru, x, y)

(* No room is made when there is a frame left.                             *)
LEMMA FreeFrameRoom ==
    ASSUME IInv, HasFrame
    PROVE  RoomOK([pages |-> pages, lru |-> lru, disk |-> disk])
<1>1. pages = [q \in Resident |-> pages[q]] /\ DOMAIN pages = Resident
  BY DEF IInv, TypeOK, Resident
<1> QED
  BY <1>1 DEF IInv, TypeOK, PoolConsistent, PinnedStay, RoomOK, HasFrame, Once, Page

(* The page evict chooses is unpinned, so nobody holds it, and every page  *)
(* behind it in the list is pinned.                                        *)
LEMMA VictimFacts ==
    ASSUME IInv, NEW i \in Victims
    PROVE  /\ i \in 1..Len(lru)
           /\ lru[i] \in Resident
           /\ lru[i] \in Page
           /\ pages[lru[i]].pins = 0
           /\ Holders(lru[i]) = {}
           /\ ~BeingWritten(lru[i])
           /\ \A j \in 1..Len(lru) : i < j => pages[lru[j]].pins > 0
<1>1. /\ i \in 1..Len(lru)
      /\ pages[lru[i]].pins = 0
      /\ \A j \in 1..Len(lru) : i < j => pages[lru[j]].pins > 0
  <2>1. Len(lru) \in Nat
    BY LenProperties DEF IInv, TypeOK
  <2> QED
    BY <2>1 DEF Victims
<1>2. lru[i] \in Resident
  BY <1>1, LenProperties DEF IInv, TypeOK, PoolConsistent, ToSet
<1>3. lru[i] \in Page
  BY <1>2 DEF IInv, PoolConsistent, Page
<1>4. Cardinality(Holders(lru[i])) = 0
  BY <1>1, <1>2 DEF IInv, PoolConsistent
<1>5. Holders(lru[i]) = {}
  BY <1>4, PinsNat, FS_EmptySet
<1> QED
  BY <1>1, <1>2, <1>3, <1>5 DEF Holders, BeingWritten

(* Evicting a victim makes a room.                                         *)
LEMMA EvictedRoom ==
    ASSUME IInv, ~HasFrame, NEW i \in Victims
    PROVE  RoomOK(Evicted(i))
<1> DEFINE v == lru[i]
           room == Evicted(i)
           kept == Resident \ {v}
<1>1. /\ i \in 1..Len(lru) /\ v \in Resident /\ v \in Page
      /\ Holders(v) = {} /\ ~BeingWritten(v)
  BY VictimFacts
<1>2. /\ room.pages = [q \in kept |-> pages[q]]
      /\ DOMAIN room.pages = kept
      /\ room.lru = RemoveAt(lru, i)
      /\ room.disk = IF pages[v].dirty THEN Written(v) ELSE disk
  BY DEF Evicted, Without, Resident
<1>3. /\ room.lru \in Seq(Nat)
      /\ Once(room.lru)
      /\ ToSet(room.lru) = kept
      /\ \A x, y : Before(room.lru, x, y) => Before(lru, x, y)
  <2>1. lru \in Seq(Nat) /\ Once(lru) /\ ToSet(lru) = Resident
    BY DEF IInv, TypeOK, PoolConsistent, Once
  <2> HIDE DEF room, kept
  <2>2. ToSet(RemoveAt(lru, i)) = ToSet(lru) \ {v}
    BY <1>1, <2>1, RemoveAtKeeps
  <2> QED
    BY <1>1, <1>2, <2>1, <2>2, RemoveAtKeeps DEF kept
<1>4. Cardinality(kept) < PoolSize
  <2>1. Cardinality(Resident) = PoolSize
    BY ResidentFinite, PoolAssumption DEF HasFrame, IInv, PoolConsistent
  <2>2. Cardinality(kept) = Cardinality(Resident) - 1
    BY <1>1, ResidentFinite, FS_RemoveElement
  <2> QED
    BY <2>1, <2>2, PoolAssumption
<1>5. /\ room.disk \in Seq(Content)
      /\ Len(room.disk) = Len(disk)
      /\ \A q \in Page : room.disk[q] = IF q \in Resident \ kept THEN pages[q].data ELSE disk[q]
  <2>1. disk \in Seq(Content) /\ pages[v].data \in Content
    BY <1>1 DEF IInv, TypeOK, Frame
  <2>2. CASE pages[v].dirty
    <3>1. room.disk = [disk EXCEPT ![v] = pages[v].data]
      BY <1>2, <2>2 DEF Written
    <3> QED
      BY <1>1, <2>1, <3>1, ExceptSeq DEF Page
  <2>3. CASE ~pages[v].dirty
    <3>1. pages[v].data = disk[v]
      BY <1>1, <2>3 DEF IInv, CleanFrames
    <3> QED
      BY <1>2, <2>1, <2>3, <3>1
  <2> QED
    BY <2>2, <2>3
<1>6. \A c \in Client : ~Free(c) => hold[c].page \in kept
  BY <1>1 DEF Holders, Free, IInv, PinnedStay
<1> HIDE DEF room
<1> QED
  BY <1>2, <1>3, <1>4, <1>5, <1>6 DEF RoomOK, room

LEMMA RoomIsOK ==
    ASSUME IInv, NEW room \in Room
    PROVE  RoomOK(room)
<1>1. CASE HasFrame
  BY <1>1, FreeFrameRoom DEF Room
<1>2. CASE ~HasFrame
  BY <1>2, EvictedRoom DEF Room
<1> QED
  BY <1>1, <1>2

------------------------------------------------------------------------------
(* The invariant after each action.                                        *)

(* fetchPage and newPage that throw once room was made.                    *)
LEMMA ThrowInv ==
    ASSUME IInv, NEW room \in Room,
           pages' = room.pages, lru' = room.lru, disk' = room.disk,
           good' \in BOOLEAN, UNCHANGED <<hold, used, synced>>
    PROVE  IInv'
<1> USE DEF IInv
<1>1. RoomOK(room)
  BY RoomIsOK
<1>2. /\ Resident' = DOMAIN room.pages
      /\ Resident' \subseteq Resident
      /\ Page' = Page
      /\ \A q \in Resident' : pages'[q] = pages[q]
  BY <1>1 DEF Resident, RoomOK, Page
<1>3. TypeOK'
  <2>1. pages' \in [Resident' -> Frame]
    BY <1>1, <1>2 DEF TypeOK, RoomOK
  <2> QED
    BY <1>1, <2>1 DEF TypeOK, RoomOK, Pin
<1>4. PoolConsistent'
  <2>1. \A p : Holders(p)' = Holders(p)
    BY DEF Holders
  <2>2. Cardinality(Resident') <= PoolSize
    <3>1. Cardinality(Resident) \in Nat /\ Cardinality(Resident') < PoolSize
      BY <1>1, <1>2, ResidentFinite DEF RoomOK
    <3>2. IsFiniteSet(Resident) /\ Resident' \in SUBSET Resident
      BY <1>2, ResidentFinite
    <3>3. Cardinality(Resident') \in Nat
      BY <3>2, FS_Subset, FS_CardinalityType
    <3> QED
      BY <3>1, <3>3, PoolAssumption
  <2> QED
    BY <1>1, <1>2, <2>1, <2>2 DEF PoolConsistent, RoomOK, Once, Page
<1>5. PinnedStay'
  BY <1>1, <1>2 DEF PinnedStay, RoomOK, Free
<1>6. CleanFrames'
  BY <1>1, <1>2 DEF CleanFrames, RoomOK, BeingWritten, PoolConsistent, Page
<1>7. FlushedOnDisk'
  BY <1>1, <1>2 DEF FlushedOnDisk, RoomOK
<1>8. LruByUse'
  <2>1. \A x, y : Before(lru', x, y) => Before(used', x, y)
    BY <1>1 DEF LruByUse, RoomOK
  <2> QED
    BY <1>2, <2>1 DEF LruByUse, Before, Once, ToSet
<1> QED
  BY <1>3, <1>4, <1>5, <1>6, <1>7, <1>8

(* fetchPage and newPage that bring page p into the pool, for client c.    *)
LEMMA LoadInv ==
    ASSUME IInv, NEW room \in Room, NEW c \in Client, Free(c),
           NEW p \in Page', p \notin Resident, NEW f \in Frame,
           f.pins = 1, f.data = disk'[p],
           pages' = With(room.pages, p, f),
           lru' = <<p>> \o room.lru,
           disk' \in Seq(Content), Len(disk') >= Len(disk),
           \A q \in Page : disk'[q] = room.disk[q],
           hold' = Holds(c, p),
           used' \in Seq(Nat), ToSet(used') = Page', Once(used'),
           \A x, y : Before(used, x, y) /\ x # p /\ y # p => Before(used', x, y),
           \A y \in Page \ {p} : Before(used', p, y),
           UNCHANGED <<good, synced>>
    PROVE  IInv'
<1> DEFINE kept == DOMAIN room.pages
<1>0. RoomOK(room)
  BY RoomIsOK
<1>1. /\ Len(disk) \in Nat /\ Len(disk') \in Nat
      /\ p \in Nat
      /\ Page \subseteq Page'
      /\ kept \subseteq Resident /\ Resident \subseteq Page
  <2>1. Len(disk) \in Nat /\ Len(disk') \in Nat
    BY LenProperties DEF IInv, TypeOK
  <2> QED
    BY <1>0, <2>1 DEF Page, RoomOK, IInv, PoolConsistent
<1>2. /\ Resident' = kept \cup {p}
      /\ p \notin kept
      /\ pages'[p] = f
      /\ \A q \in kept : pages'[q] = pages[q] /\ q # p
      /\ pages' \in [Resident' -> Frame]
  BY <1>0 DEF Resident, With, RoomOK, IInv, TypeOK
<1>3. /\ hold' \in [Client -> Pin \cup {None}]
      /\ c \notin Holders(p)
      /\ \A q : Holders(q)' = IF q = p THEN Holders(q) \cup {c} ELSE Holders(q)
      /\ \A q : BeingWritten(q)' <=> BeingWritten(q)
      /\ \A d \in Client : ~Free(d)' <=> d = c \/ ~Free(d)
      /\ \A d \in Client : hold'[d] = IF d = c THEN [page |-> p, wrote |-> FALSE] ELSE hold[d]
  BY <1>1, HoldsHolders DEF IInv
<1>4. /\ lru' \in Seq(Nat)
      /\ Once(lru')
      /\ ToSet(lru') = Resident'
      /\ \A x, y : Before(lru', x, y) <=> Before(room.lru, x, y) \/ (x = p /\ y \in kept)
  <2>1. /\ room.lru \in Seq(Nat) /\ Once(room.lru)
        /\ ToSet(room.lru) = kept /\ p \notin ToSet(room.lru)
    BY <1>0, <1>2 DEF RoomOK
  <2> HIDE DEF kept
  <2> QED
    BY <1>1, <1>2, <2>1, ConsKeeps
<1>5. TypeOK'
  BY <1>2, <1>3, <1>4 DEF IInv, TypeOK, Pin
<1>6. PoolConsistent'
  <2>1. Cardinality(Resident') <= PoolSize
    <3>1. IsFiniteSet(kept) /\ Cardinality(kept) \in Nat
      BY <1>1, ResidentFinite, FS_Subset, FS_CardinalityType
    <3>2. Cardinality(Resident') = Cardinality(kept) + 1
      BY <1>2, <3>1, FS_AddElement
    <3> QED
      BY <1>0, <3>1, <3>2, PoolAssumption DEF RoomOK
  <2>2. pages'[p].pins = Cardinality(Holders(p)')
    <3>1. Holders(p) = {}
      BY DEF Holders, IInv, PinnedStay, Free
    <3>2. Holders(p)' = {c}
      BY <1>3, <3>1
    <3> QED
      BY <1>2, <3>2, FS_Singleton
  <2>3. \A q \in kept : pages'[q].pins = Cardinality(Holders(q)')
    BY <1>1, <1>2, <1>3 DEF IInv, PoolConsistent
  <2>4. Resident' \subseteq Page'
    BY <1>1, <1>2
  <2> QED
    BY <1>2, <1>4, <2>1, <2>2, <2>3, <2>4 DEF PoolConsistent, Once, Page
<1>7. PinnedStay'
  BY <1>0, <1>2, <1>3 DEF PinnedStay, RoomOK
<1>8. \A q \in Page : disk'[q] = IF q \in Resident \ kept THEN pages[q].data ELSE disk[q]
  BY <1>0 DEF RoomOK
<1>9. CleanFrames'
  <2>1. ASSUME NEW q \in kept, ~pages[q].dirty, ~BeingWritten(q)
        PROVE  pages'[q].data = disk'[q]
    <3>1. pages[q].data = disk[q] /\ q \in Page
      BY <1>1, <2>1 DEF IInv, CleanFrames
    <3> QED
      BY <1>2, <1>8, <3>1
  <2> QED
    BY <1>2, <1>3, <2>1 DEF CleanFrames
<1>10. FlushedOnDisk'
  <2>1. ASSUME NEW q \in DOMAIN synced
        PROVE  /\ q \in Page'
               /\ disk'[q] = synced[q]
               /\ q \in Resident' => pages'[q].data = synced[q]
    <3>1. /\ q \in Page
          /\ disk[q] = synced[q]
          /\ q \in Resident => pages[q].data = synced[q]
      BY <2>1 DEF IInv, FlushedOnDisk
    <3>2. disk'[q] = synced[q]
      BY <1>8, <3>1
    <3>3. q \in Resident' => pages'[q].data = synced[q]
      BY <1>1, <1>2, <3>1, <3>2
    <3> QED
      BY <1>1, <3>1, <3>2, <3>3
  <2> QED
    BY <2>1 DEF FlushedOnDisk
<1>11. LruByUse'
  <2>1. ASSUME NEW x, NEW y, Before(lru', x, y) PROVE Before(used', x, y)
    <3>1. CASE Before(room.lru, x, y)
      <4>1. x \in ToSet(room.lru) /\ y \in ToSet(room.lru)
        <5>1. room.lru \in Seq(Nat)
          BY <1>0 DEF RoomOK
        <5> QED
          BY <3>1, <5>1, BeforeInside
      <4>2. x # p /\ y # p
        BY <1>0, <1>2, <4>1 DEF RoomOK
      <4>3. Before(used, x, y)
        BY <1>0, <3>1 DEF RoomOK, IInv, LruByUse
      <4> QED
        BY <4>2, <4>3
    <3>2. CASE x = p /\ y \in kept
      BY <1>1, <1>2, <3>2
    <3> QED
      BY <1>4, <2>1, <3>1, <3>2
  <2>2. ToSet(used)' = Page' /\ Once(used)'
    BY DEF Once, ToSet
  <2> QED
    BY <2>1, <2>2 DEF LruByUse, Before
<1> QED
  BY <1>5, <1>6, <1>7, <1>9, <1>10, <1>11 DEF IInv

LEMMA FetchMissInv ==
    ASSUME IInv, NEW c \in Client, NEW p \in Page, FetchMiss(c, p)
    PROVE  IInv'
<1>1. PICK room \in Room :
        /\ disk' = room.disk
        /\ pages' = With(room.pages, p, [data |-> room.disk[p], dirty |-> FALSE, pins |-> 1])
        /\ lru' = <<p>> \o room.lru
  BY DEF FetchMiss
<1> DEFINE f == [data |-> room.disk[p], dirty |-> FALSE, pins |-> 1]
<1>2. RoomOK(room)
  BY RoomIsOK
<1>3. disk' \in Seq(Content) /\ Len(disk') = Len(disk) /\ Page' = Page
  BY <1>1, <1>2 DEF RoomOK, Page
<1>4. Len(disk) \in Nat
  BY LenProperties DEF IInv, TypeOK
<1>5. f \in Frame /\ f.pins = 1 /\ f.data = disk'[p]
  <2>1. room.disk[p] \in Content
    BY <1>1, <1>3, ElementOfSeq DEF Page
  <2> QED
    BY <1>1, <2>1 DEF Frame
<1>6. /\ used' \in Seq(Nat) /\ ToSet(used') = Page' /\ Once(used')
      /\ \A x, y : Before(used, x, y) /\ x # p /\ y # p => Before(used', x, y)
      /\ \A y \in Page \ {p} : Before(used', p, y)
  <2>1. used \in Seq(Nat) /\ Once(used) /\ ToSet(used) = Page
    BY DEF IInv, TypeOK, LruByUse
  <2>2. used' = Touched(used, p)
    BY DEF FetchMiss
  <2> HIDE DEF Page
  <2> QED
    BY <1>3, <2>1, <2>2, TouchedKeeps
<1>7. /\ Free(c) /\ p \notin Resident /\ hold' = Holds(c, p)
      /\ UNCHANGED <<good, synced>>
  BY DEF FetchMiss
<1>8. /\ pages' = With(room.pages, p, f)
      /\ p \in Page' /\ Len(disk') >= Len(disk)
      /\ \A q \in Page : disk'[q] = room.disk[q]
  BY <1>1, <1>3, <1>4
<1> HIDE DEF f
<1> QED
  BY <1>1, <1>3, <1>5, <1>6, <1>7, <1>8, LoadInv

LEMMA NewPageInv ==
    ASSUME IInv, NEW c \in Client, NewPage(c)
    PROVE  IInv'
<1> DEFINE p == Len(disk) + 1
           f == [data |-> Blank, dirty |-> TRUE, pins |-> 1]
<1>1. PICK room \in Room :
        /\ disk' = Append(room.disk, Blank)
        /\ pages' = With(room.pages, p, f)
        /\ lru' = <<p>> \o room.lru
  BY DEF NewPage
<1>2. RoomOK(room)
  BY RoomIsOK
<1>3. /\ Len(disk) \in Nat
      /\ Blank \in Content
  BY LenProperties DEF IInv, TypeOK, Content
<1>4. /\ disk' \in Seq(Content)
      /\ Len(disk') = p
      /\ \A q \in Page : disk'[q] = room.disk[q]
      /\ disk'[p] = Blank
  BY <1>1, <1>2, <1>3, AppendProperties DEF RoomOK, Page
<1>5. Page' = Page \cup {p} /\ p \notin Page /\ p \in Nat
  BY <1>3, <1>4 DEF Page
<1>6. p \notin Resident
  BY <1>5 DEF IInv, PoolConsistent, Page
<1>7. f \in Frame
  BY <1>3 DEF Frame
<1>8. /\ used' \in Seq(Nat) /\ ToSet(used') = Page' /\ Once(used')
      /\ \A x, y : Before(used, x, y) /\ x # p /\ y # p => Before(used', x, y)
      /\ \A y \in Page \ {p} : Before(used', p, y)
  <2>1. used \in Seq(Nat) /\ Once(used) /\ ToSet(used) = Page
    BY DEF IInv, TypeOK, LruByUse
  <2>2. used' = <<p>> \o used
    BY DEF NewPage
  <2> HIDE DEF Page, p
  <2> QED
    BY <1>5, <2>1, <2>2, ConsKeeps
<1>9. /\ Free(c) /\ hold' = Holds(c, p)
      /\ UNCHANGED <<good, synced>>
  BY DEF NewPage
<1>10. p \in Page' /\ Len(disk') >= Len(disk) /\ f.pins = 1 /\ f.data = disk'[p]
  BY <1>3, <1>4, <1>5
<1> HIDE DEF p, f
<1> QED
  BY <1>1, <1>4, <1>6, <1>7, <1>8, <1>9, <1>10, LoadInv

LEMMA FetchHitInv ==
    ASSUME IInv, NEW c \in Client, NEW p \in Resident, FetchHit(c, p)
    PROVE  IInv'
<1>1. /\ p \in Page /\ p \in Nat
      /\ Page' = Page
  BY LenProperties DEF IInv, TypeOK, PoolConsistent, Page, FetchHit
<1>2. /\ hold' \in [Client -> Pin \cup {None}]
      /\ c \notin Holders(p)
      /\ \A q : Holders(q)' = IF q = p THEN Holders(q) \cup {c} ELSE Holders(q)
      /\ \A q : BeingWritten(q)' <=> BeingWritten(q)
      /\ \A d \in Client : ~Free(d)' <=> d = c \/ ~Free(d)
      /\ \A d \in Client : hold'[d] = IF d = c THEN [page |-> p, wrote |-> FALSE] ELSE hold[d]
  BY <1>1, HoldsHolders DEF IInv, FetchHit
<1>3. /\ Resident' = Resident
      /\ pages' \in [Resident -> Frame]
      /\ \A q \in Resident : /\ pages'[q].data = pages[q].data
                             /\ pages'[q].dirty = pages[q].dirty
                             /\ pages'[q].pins = IF q = p THEN pages[q].pins + 1
                                                 ELSE pages[q].pins
  BY DEF IInv, TypeOK, FetchHit, Resident, Frame
<1>4. /\ lru' \in Seq(Nat)
      /\ Once(lru')
      /\ ToSet(lru') = Resident
      /\ \A x, y : Before(lru', x, y)
                   <=> \/ Before(lru, x, y) /\ x # p /\ y # p
                       \/ x = p /\ y \in Resident \ {p}
  <2>1. lru \in Seq(Nat) /\ Once(lru) /\ ToSet(lru) = Resident /\ lru' = Touched(lru, p)
    BY DEF IInv, TypeOK, PoolConsistent, Once, FetchHit, TouchPage
  <2> QED
    BY <2>1, TouchedKeeps
<1>5. /\ used' \in Seq(Nat)
      /\ Once(used')
      /\ ToSet(used') = Page
      /\ \A x, y : Before(used', x, y)
                   <=> \/ Before(used, x, y) /\ x # p /\ y # p
                       \/ x = p /\ y \in Page \ {p}
  <2>1. used \in Seq(Nat) /\ Once(used) /\ ToSet(used) = Page /\ used' = Touched(used, p)
    BY DEF IInv, TypeOK, LruByUse, FetchHit
  <2> HIDE DEF Page
  <2> QED
    BY <1>1, <2>1, TouchedKeeps
<1>6. TypeOK'
  BY <1>2, <1>3, <1>4, <1>5 DEF IInv, TypeOK, FetchHit, Pin
<1>7. PoolConsistent'
  <2>1. \A q \in Resident : pages'[q].pins = Cardinality(Holders(q)')
    <3> TAKE q \in Resident
    <3>1. CASE q = p
      <4>1. Cardinality(Holders(p)') = Cardinality(Holders(p)) + 1
        BY <1>2, PinsNat, FS_AddElement
      <4> QED
        BY <1>3, <3>1, <4>1 DEF IInv, PoolConsistent
    <3>2. CASE q # p
      BY <1>2, <1>3, <3>2 DEF IInv, PoolConsistent
    <3> QED
      BY <3>1, <3>2
  <2> QED
    BY <1>1, <1>3, <1>4, <2>1 DEF IInv, PoolConsistent, Once, Page
<1>8. PinnedStay'
  BY <1>2, <1>3 DEF IInv, PinnedStay
<1>9. CleanFrames'
  BY <1>2, <1>3 DEF IInv, CleanFrames, FetchHit
<1>10. FlushedOnDisk'
  BY <1>1, <1>3 DEF IInv, FlushedOnDisk, FetchHit
<1>11. LruByUse'
  <2>1. Resident \subseteq Page
    BY DEF IInv, PoolConsistent, Page
  <2>2. \A x, y : Before(lru', x, y) => Before(used', x, y)
    BY <1>4, <1>5, <2>1 DEF IInv, LruByUse
  <2> QED
    BY <1>1, <1>5, <2>2 DEF LruByUse, Before, Once, ToSet
<1> QED
  BY <1>6, <1>7, <1>8, <1>9, <1>10, <1>11 DEF IInv

(* A write of v that fails leaves the page alone, leaves it torn, or finds *)
(* that it was there already.                                              *)
LEMMA CutShort ==
    ASSUME NEW d \in Seq(Content), NEW p \in 1..Len(d), NEW v \in Content,
           NEW w \in IF d[p] = v THEN {v} ELSE {d[p], Torn}
    PROVE  /\ [d EXCEPT ![p] = w] \in Seq(Content)
           /\ Len([d EXCEPT ![p] = w]) = Len(d)
           /\ \A q \in 1..Len(d) : [d EXCEPT ![p] = w][q] = IF q = p THEN w ELSE d[q]
           /\ d[p] = v => w = v
           /\ w \in {d[p], Torn}
<1>1. d[p] \in Content /\ Torn \in Content
  BY ElementOfSeq DEF Content
<1>2. w \in Content
  BY <1>1
<1> QED
  BY <1>2, ExceptSeq

(* A change to the file alone, in a dirty page that is not on disk as it   *)
(* is in its frame.                                                        *)
LEMMA TornInv ==
    ASSUME IInv, NEW p \in Resident, pages[p].dirty,
           disk' \in AfterFailedWrite(p, pages[p].data),
           good' \in BOOLEAN, UNCHANGED <<pages, lru, hold, used, synced>>
    PROVE  IInv'
<1>1. /\ disk \in Seq(Content) /\ p \in 1..Len(disk)
      /\ pages[p].data \in Content
  BY DEF IInv, TypeOK, PoolConsistent, Frame
<1>2. PICK w \in IF disk[p] = pages[p].data THEN {pages[p].data} ELSE {disk[p], Torn} :
        disk' = [disk EXCEPT ![p] = w]
  BY DEF AfterFailedWrite
<1>3. /\ disk' \in Seq(Content)
      /\ Len(disk') = Len(disk)
      /\ \A q \in 1..Len(disk) : disk'[q] = IF q = p THEN w ELSE disk[q]
      /\ disk[p] = pages[p].data => w = pages[p].data
  BY <1>1, <1>2, CutShort
<1>4. Resident' = Resident /\ Page' = Page
  BY <1>3 DEF Resident, Page
<1>5. TypeOK'
  BY <1>3, <1>4 DEF IInv, TypeOK, Pin
<1>6. PoolConsistent'
  BY <1>3, <1>4 DEF IInv, PoolConsistent, Holders
<1>7. PinnedStay'
  BY <1>4 DEF IInv, PinnedStay, Free
<1>8. CleanFrames'
  BY <1>3, <1>4 DEF IInv, CleanFrames, BeingWritten, PoolConsistent
<1>9. FlushedOnDisk'
  BY <1>3, <1>4 DEF IInv, FlushedOnDisk, Page
<1>10. LruByUse'
  BY <1>4 DEF IInv, LruByUse, Once, Before
<1> QED
  BY <1>5, <1>6, <1>7, <1>8, <1>9, <1>10 DEF IInv

LEMMA EvictThrowsInv == ASSUME IInv, EvictThrows PROVE IInv'
<1>1. PICK i \in Victims : /\ pages[lru[i]].dirty
                           /\ disk' \in AfterFailedWrite(lru[i], pages[lru[i]].data)
  BY DEF EvictThrows
<1>2. lru[i] \in Resident
  BY VictimFacts
<1> QED
  BY <1>1, <1>2, TornInv DEF EvictThrows

(* A write through the raw pointer.                                        *)
LEMMA ModifyInv ==
    ASSUME IInv, NEW c \in Client, NEW v \in Val, Modify(c, v)
    PROVE  IInv'
<1> DEFINE p == hold[c].page
<1>1. p \in Resident /\ hold[c] \in Pin /\ hold[c] # None
  BY DEF IInv, TypeOK, PinnedStay, Modify, Free
<1>2. v \in Content
  BY DEF Content
<1>3. /\ Resident' = Resident
      /\ pages' \in [Resident -> Frame]
      /\ \A q \in Resident : /\ pages'[q].data = IF q = p THEN v ELSE pages[q].data
                             /\ pages'[q].dirty = pages[q].dirty
                             /\ pages'[q].pins = pages[q].pins
  BY <1>1, <1>2 DEF IInv, TypeOK, Modify, Resident, Frame
<1>4. /\ hold' \in [Client -> Pin \cup {None}]
      /\ hold'[c] \in Pin /\ hold'[c].page = p /\ hold'[c].wrote
      /\ \A d \in Client : d # c => hold'[d] = hold[d]
  BY <1>1 DEF IInv, TypeOK, Modify, Pin
<1>5. hold'[c] # None
  BY <1>4, PoolAssumption DEF Pin
<1>6. \A q : Holders(q)' = Holders(q)
  BY <1>1, <1>4, <1>5 DEF Holders
<1>7. \A q : BeingWritten(q)' <=> BeingWritten(q) \/ q = p
  BY <1>1, <1>4, <1>5 DEF BeingWritten
<1>8. /\ DOMAIN synced' = DOMAIN synced \ {p}
      /\ \A q \in DOMAIN synced' : synced'[q] = synced[q]
      /\ synced' \in [DOMAIN synced' -> Content]
  BY DEF IInv, TypeOK, Modify, Without
<1>9. UNCHANGED <<disk, good, lru, used>> /\ Page' = Page
  BY DEF Modify, Page
<1>10. TypeOK'
  BY <1>3, <1>4, <1>8, <1>9 DEF IInv, TypeOK, Pin
<1>11. PoolConsistent'
  BY <1>3, <1>6, <1>9 DEF IInv, PoolConsistent
<1>12. PinnedStay'
  BY <1>1, <1>3, <1>4 DEF IInv, PinnedStay, Free
<1>13. CleanFrames'
  BY <1>3, <1>7, <1>9 DEF IInv, CleanFrames
<1>14. FlushedOnDisk'
  BY <1>3, <1>8, <1>9 DEF IInv, FlushedOnDisk
<1>15. LruByUse'
  BY <1>9, LruKept DEF IInv
<1> QED
  BY <1>10, <1>11, <1>12, <1>13, <1>14, <1>15 DEF IInv

(* A frame whose pin count and dirty flag are set.                         *)
FrameWith(r, n, d) == [r EXCEPT !.pins = n, !.dirty = d]

LEMMA FrameWithFields ==
    ASSUME NEW r \in Frame, NEW n \in Nat, NEW d \in BOOLEAN
    PROVE  /\ FrameWith(r, n, d) \in Frame
           /\ FrameWith(r, n, d).data = r.data
           /\ FrameWith(r, n, d).dirty = d
           /\ FrameWith(r, n, d).pins = n
BY DEF Frame, FrameWith

(* unpin: one holder less and one pin less.                                *)
LEMMA UnpinInv ==
    ASSUME IInv, NEW c \in Client, NEW isDirty \in BOOLEAN, Unpin(c, isDirty)
    PROVE  IInv'
<1>0. hold[c].page \in Resident /\ hold[c] \in Pin /\ hold[c] # None
  BY DEF IInv, TypeOK, PinnedStay, Unpin, Free
<1>1. PICK p \in Resident : p = hold[c].page
  BY <1>0
<1>2. /\ hold' \in [Client -> Pin \cup {None}]
      /\ hold'[c] = None
      /\ \A d \in Client : d # c => hold'[d] = hold[d]
  BY DEF IInv, TypeOK, Unpin
<1>3. \A q : Holders(q)' = IF q = p THEN Holders(q) \ {c} ELSE Holders(q)
  BY <1>0, <1>1, <1>2 DEF Holders
<1>4. c \in Holders(p)
  BY <1>0, <1>1 DEF Holders
<1>5. Cardinality(Holders(p)') = Cardinality(Holders(p)) - 1 /\ Cardinality(Holders(p)) > 0
  <2>1. Cardinality(Holders(p)) # 0
    BY <1>4, PinsNat, FS_EmptySet
  <2>2. Cardinality(Holders(p) \ {c}) = Cardinality(Holders(p)) - 1
    BY <1>4, PinsNat, FS_RemoveElement
  <2>3. Cardinality(Holders(p)) \in Nat
    BY PinsNat
  <2>4. Holders(p)' = Holders(p) \ {c}
    BY <1>3
  <2> QED
    BY <2>1, <2>2, <2>3, <2>4
<1>6. /\ Resident' = Resident
      /\ pages' \in [Resident -> Frame]
      /\ \A q \in Resident :
           /\ pages'[q].data = pages[q].data
           /\ pages'[q].dirty <=> pages[q].dirty \/ (q = p /\ isDirty)
           /\ pages'[q].pins = IF q = p THEN (IF pages[q].pins > 0 THEN pages[q].pins - 1 ELSE 0)
                               ELSE pages[q].pins
  <2> DEFINE d == pages[p].dirty \/ isDirty
             n == IF pages[p].pins > 0 THEN pages[p].pins - 1 ELSE 0
             g == FrameWith(pages[p], n, d)
  <2>1. pages[p] \in Frame /\ pages[p].pins \in Nat
    BY <1>1 DEF IInv, TypeOK, Frame
  <2>2. d \in BOOLEAN /\ n \in Nat
    BY <2>1
  <2>3. g \in Frame /\ g.data = pages[p].data /\ g.dirty = d /\ g.pins = n
    <3>1. \A f \in Frame : \A x \in Nat : \A e \in BOOLEAN :
            /\ FrameWith(f, x, e) \in Frame /\ FrameWith(f, x, e).data = f.data
            /\ FrameWith(f, x, e).dirty = e /\ FrameWith(f, x, e).pins = x
      BY FrameWithFields
    <3>2. PICK x \in Nat, e \in BOOLEAN : x = n /\ e = d
      BY <2>2
    <3>3. PICK f \in Frame : f = pages[p]
      BY <2>1
    <3>4. g = FrameWith(f, x, e)
      BY <3>2, <3>3
    <3> HIDE DEF d, n, g
    <3> QED
      BY <3>1, <3>2, <3>3, <3>4
  <2>4. pages' = [pages EXCEPT ![p] = g]
    <3>1. pages' = [pages EXCEPT ![p].pins = n, ![p].dirty = d]
      BY <1>1 DEF Unpin, DirtyAfter
    <3> HIDE DEF d, n
    <3> QED
      BY <1>1, <3>1 DEF IInv, TypeOK, FrameWith
  <2> HIDE DEF g
  <2>5. pages' \in [Resident -> Frame] /\ Resident' = Resident
    BY <1>1, <2>3, <2>4 DEF IInv, TypeOK, Resident
  <2>6. \A q \in Resident : pages'[q] = IF q = p THEN g ELSE pages[q]
    BY <1>1, <2>4 DEF IInv, TypeOK
  <2> QED
    BY <2>3, <2>5, <2>6
<1>7. \A q : BeingWritten(q) => BeingWritten(q)' \/ (q = p /\ isDirty)
  BY <1>0, <1>1, <1>2 DEF BeingWritten, Unpin
<1>8. UNCHANGED <<disk, good, lru, used, synced>> /\ Page' = Page
  BY DEF Unpin, Page
<1>9. TypeOK'
  BY <1>2, <1>6, <1>8 DEF IInv, TypeOK, Pin
<1>10. PoolConsistent'
  <2>1. \A q \in Resident : pages'[q].pins = Cardinality(Holders(q)')
    <3> TAKE q \in Resident
    <3>1. pages[q].pins = Cardinality(Holders(q))
      BY DEF IInv, PoolConsistent
    <3>2. CASE q = p
      BY <1>5, <1>6, <3>1, <3>2
    <3>3. CASE q # p
      BY <1>3, <1>6, <3>1, <3>3
    <3> QED
      BY <3>2, <3>3
  <2> QED
    BY <1>6, <1>8, <2>1 DEF IInv, PoolConsistent
<1>11. PinnedStay'
  BY <1>2, <1>6 DEF IInv, PinnedStay, Free
<1>12. CleanFrames'
  BY <1>6, <1>7, <1>8 DEF IInv, CleanFrames
<1>13. FlushedOnDisk'
  BY <1>6, <1>8 DEF IInv, FlushedOnDisk
<1>14. LruByUse'
  BY <1>8, LruKept DEF IInv
<1> QED
  BY <1>9, <1>10, <1>11, <1>12, <1>13, <1>14 DEF IInv

(* The frames after the pages of W were written.                           *)
LEMMA CleanFields ==
    ASSUME TypeOK, NEW W \in SUBSET Resident
    PROVE  /\ DOMAIN Clean(W) = Resident
           /\ Clean(W) \in [Resident -> Frame]
           /\ \A q \in Resident :
                /\ Clean(W)[q].data = pages[q].data
                /\ Clean(W)[q].pins = pages[q].pins
                /\ Clean(W)[q].dirty <=> q \notin W /\ pages[q].dirty
<1>1. \A q \in Resident : pages[q] \in Frame
  BY DEF TypeOK
<1>2. \A r \in Frame : /\ [r EXCEPT !.dirty = FALSE] \in Frame
                       /\ [r EXCEPT !.dirty = FALSE].data = r.data
                       /\ [r EXCEPT !.dirty = FALSE].pins = r.pins
                       /\ [r EXCEPT !.dirty = FALSE].dirty = FALSE
  BY DEF Frame
<1>3. /\ DOMAIN Clean(W) = Resident
      /\ \A q \in Resident : Clean(W)[q] = IF q \in W THEN [pages[q] EXCEPT !.dirty = FALSE]
                                           ELSE pages[q]
  BY DEF Clean
<1>4. Clean(W) \in [Resident -> Frame]
  BY <1>1, <1>2 DEF Clean
<1> QED
  BY <1>1, <1>2, <1>3, <1>4

(* The file after the pages of W were written.                             *)
LEMMA OnDiskItems ==
    ASSUME IInv, NEW W \in SUBSET Resident
    PROVE  /\ OnDisk(W) \in Seq(Content)
           /\ Len(OnDisk(W)) = Len(disk)
           /\ \A q \in Page : OnDisk(W)[q] = IF q \in W THEN pages[q].data ELSE disk[q]
<1>1. Len(disk) \in Nat /\ disk \in Seq(Content)
  BY LenProperties DEF IInv, TypeOK
<1>2. \A q \in Resident : pages[q].data \in Content
  BY DEF IInv, TypeOK, Frame
<1>3. OnDisk(W) \in [1..Len(disk) -> Content]
  BY <1>1, <1>2, ElementOfSeq DEF OnDisk
<1>4. OnDisk(W) \in Seq(Content)
  BY <1>1, <1>3, SeqDef
<1>5. DOMAIN OnDisk(W) = 1..Len(OnDisk(W)) /\ Len(OnDisk(W)) \in Nat
  BY <1>4, LenProperties
<1>6. Len(OnDisk(W)) = Len(disk)
  BY <1>1, <1>3, <1>5
<1> QED
  BY <1>4, <1>6 DEF OnDisk, Page

(* A flush that wrote the pages of W, all the way or up to a failure.      *)
LEMMA WrittenInv ==
    ASSUME IInv, NEW W \in SUBSET Resident,
           pages' = Clean(W), disk' \in Seq(Content), Len(disk') = Len(disk),
           \A q \in W : disk'[q] = pages[q].data,
           \A q \in Page \ W :
               \/ disk'[q] = disk[q]
               \/ q \in Resident /\ pages[q].dirty /\ pages[q].data # disk[q],
           synced' \in [DOMAIN synced' -> Content],
           \A q \in DOMAIN synced' :
               \/ q \in DOMAIN synced /\ synced'[q] = synced[q]
               \/ /\ q \in Resident
                  /\ synced'[q] = pages[q].data
                  /\ disk'[q] = pages[q].data,
           good' \in BOOLEAN, UNCHANGED <<lru, hold, used>>
    PROVE  IInv'
<1>1. /\ Resident' = Resident
      /\ pages' \in [Resident -> Frame]
      /\ \A q \in Resident :
           /\ pages'[q].data = pages[q].data
           /\ pages'[q].pins = pages[q].pins
           /\ pages'[q].dirty <=> q \notin W /\ pages[q].dirty
  <2>1. TypeOK
    BY DEF IInv
  <2>2. DOMAIN pages' = Resident
    BY <2>1, CleanFields
  <2> QED
    BY <2>1, <2>2, CleanFields DEF Resident
<1>2. Page' = Page /\ Resident \subseteq Page
  BY DEF Page, IInv, PoolConsistent
<1>3. TypeOK'
  BY <1>1 DEF IInv, TypeOK, Pin
<1>4. PoolConsistent'
  <2>1. \A q : Holders(q)' = Holders(q)
    BY DEF Holders
  <2>2. \A q \in Resident : pages'[q].pins = Cardinality(Holders(q)')
    BY <1>1, <2>1 DEF IInv, PoolConsistent
  <2>3. /\ ToSet(lru)' = ToSet(lru)
        /\ \A i, j \in 1..Len(lru') : lru'[i] = lru'[j] => i = j
        /\ Resident \subseteq 1..Len(disk') /\ Cardinality(Resident) <= PoolSize
        /\ ToSet(lru) = Resident
    BY DEF IInv, PoolConsistent, ToSet
  <2> QED
    BY <1>1, <2>2, <2>3 DEF PoolConsistent
<1>5. PinnedStay'
  BY <1>1 DEF IInv, PinnedStay, Free
<1>6. CleanFrames'
  BY <1>1, <1>2 DEF IInv, CleanFrames, BeingWritten
<1>7. FlushedOnDisk'
  <2>1. ASSUME NEW q \in DOMAIN synced'
        PROVE  /\ q \in Page'
               /\ disk'[q] = synced'[q]
               /\ q \in Resident' => pages'[q].data = synced'[q]
    <3>1. CASE q \in DOMAIN synced /\ synced'[q] = synced[q]
      <4>1. /\ q \in Page /\ disk[q] = synced[q]
            /\ q \in Resident => pages[q].data = synced[q]
        BY <3>1 DEF IInv, FlushedOnDisk
      <4> QED
        BY <1>1, <1>2, <3>1, <4>1
    <3>2. CASE /\ q \in Resident
               /\ synced'[q] = pages[q].data
               /\ disk'[q] = pages[q].data
      BY <1>1, <1>2, <3>2
    <3> QED
      BY <2>1, <3>1, <3>2
  <2> QED
    BY <2>1 DEF FlushedOnDisk
<1>8. LruByUse'
  BY <1>2 DEF IInv, LruByUse, Once, Before, ToSet
<1> QED
  BY <1>3, <1>4, <1>5, <1>6, <1>7, <1>8 DEF IInv

LEMMA FlushInv ==
    ASSUME IInv, NEW S \in SUBSET Resident, Flush(S)
    PROVE  IInv'
<1> DEFINE W == S \cap Dirty
           done == S \ InWriting
<1>1. W \in SUBSET Resident /\ Resident \subseteq Page
  BY DEF IInv, PoolConsistent, Page
<1>2. disk' = OnDisk(W) /\ pages' = Clean(W) /\ synced' = Sync(S)
  BY DEF Flush
<1>3. /\ disk' \in Seq(Content)
      /\ Len(disk') = Len(disk)
      /\ \A q \in Page : disk'[q] = IF q \in W THEN pages[q].data ELSE disk[q]
  BY <1>1, <1>2, OnDiskItems
<1>4. /\ DOMAIN synced' = DOMAIN synced \cup done
      /\ \A q \in DOMAIN synced' :
           synced'[q] = IF q \in done THEN pages[q].data ELSE synced[q]
  BY <1>2 DEF Sync
<1>5. \A q \in done : disk'[q] = pages[q].data
  <2> TAKE q \in done
  <2>1. q \in Resident /\ q \in Page /\ ~BeingWritten(q)
    BY <1>1 DEF InWriting, BeingWritten
  <2>2. CASE pages[q].dirty
    BY <1>3, <2>1, <2>2 DEF Dirty
  <2>3. CASE ~pages[q].dirty
    <3>1. pages[q].data = disk[q]
      BY <2>1, <2>3 DEF IInv, CleanFrames
    <3> QED
      BY <1>3, <2>1, <3>1
  <2> QED
    BY <2>2, <2>3
<1>6. synced' \in [DOMAIN synced' -> Content]
  <2>1. \A q \in Resident : pages[q].data \in Content
    BY DEF IInv, TypeOK, Frame
  <2>2. synced' = [q \in DOMAIN synced \cup done |->
                     IF q \in done THEN pages[q].data ELSE synced[q]]
    BY <1>2 DEF Sync
  <2> QED
    BY <2>1, <2>2 DEF IInv, TypeOK
<1> HIDE DEF W
<1>7. \A q \in W : disk'[q] = pages[q].data
  BY <1>1, <1>3
<1>8. \A q \in Page \ W : disk'[q] = disk[q]
  BY <1>3
<1>9. \A q \in DOMAIN synced' :
        \/ q \in DOMAIN synced /\ synced'[q] = synced[q]
        \/ q \in Resident /\ synced'[q] = pages[q].data /\ disk'[q] = pages[q].data
  BY <1>4, <1>5
<1>10. good' \in BOOLEAN /\ UNCHANGED <<lru, hold, used>>
  BY DEF Flush, IInv, TypeOK
<1> HIDE DEF done
<1> QED
  BY <1>1, <1>2, <1>3, <1>6, <1>7, <1>8, <1>9, <1>10, WrittenInv

LEMMA FlushThrowsInv ==
    ASSUME IInv, NEW S \in SUBSET Dirty, NEW p \in Dirty, FlushThrows(S, p)
    PROVE  IInv'
<1>1. /\ S \in SUBSET Resident /\ p \in Resident \ S /\ p \in Page
      /\ pages[p].dirty /\ pages[p].data \in Content
      /\ Resident \subseteq Page
  BY DEF FlushThrows, Dirty, IInv, PoolConsistent, Page, TypeOK, Frame
<1>2. PICK w \in IF disk[p] = pages[p].data THEN {disk[p]} ELSE {disk[p], Torn} :
        disk' = [OnDisk(S) EXCEPT ![p] = w]
  BY DEF FlushThrows
<1>3. /\ OnDisk(S) \in Seq(Content)
      /\ Len(OnDisk(S)) = Len(disk)
      /\ \A q \in Page : OnDisk(S)[q] = IF q \in S THEN pages[q].data ELSE disk[q]
  BY <1>1, OnDiskItems
<1>4. w \in Content
  <2>1. disk[p] \in Content
    BY <1>1, ElementOfSeq DEF Page, IInv, TypeOK
  <2> QED
    BY <2>1 DEF Content
<1>5. /\ disk' \in Seq(Content)
      /\ Len(disk') = Len(disk)
      /\ \A q \in Page : disk'[q] = IF q = p THEN w ELSE OnDisk(S)[q]
  BY <1>1, <1>2, <1>3, <1>4, ExceptSeq DEF Page
<1>6. \A q \in S : disk'[q] = pages[q].data
  BY <1>1, <1>3, <1>5
<1>7. \A q \in Page \ S : \/ disk'[q] = disk[q]
                          \/ q \in Resident /\ pages[q].dirty /\ pages[q].data # disk[q]
  BY <1>1, <1>2, <1>3, <1>5
<1>8. /\ synced' = synced /\ synced' \in [DOMAIN synced' -> Content]
      /\ good' \in BOOLEAN /\ UNCHANGED <<lru, hold, used>>
      /\ pages' = Clean(S)
  BY DEF FlushThrows, IInv, TypeOK
<1>9. \A q \in DOMAIN synced' : q \in DOMAIN synced /\ synced'[q] = synced[q]
  BY <1>8
<1> QED
  BY <1>1, <1>5, <1>6, <1>7, <1>8, <1>9, WrittenInv

(* The process starts again on the file as it is.                          *)
LEMMA RestartInv == ASSUME IInv, Restart PROVE IInv'
<1>1. /\ pages' \in [{} -> Frame] /\ Resident' = {}
      /\ Len(lru') = 0 /\ ToSet(lru') = {}
  BY EmptyFunction, EmptySeq DEF Restart, Resident
<1>2. /\ disk' \in Seq(Content)
      /\ Len(disk') = Len(disk)
      /\ \A q \in Page : disk'[q] = disk[q] \/ (q \in Resident /\ pages[q].data # disk[q])
  <2>1. CASE UNCHANGED disk
    BY <2>1 DEF IInv, TypeOK
  <2>2. ASSUME NEW p \in Dirty, disk' \in AfterFailedWrite(p, pages[p].data)
        PROVE  <1>2
    <3>1. p \in Resident /\ p \in 1..Len(disk) /\ disk \in Seq(Content)
          /\ pages[p].data \in Content
      BY DEF Dirty, IInv, PoolConsistent, TypeOK, Frame
    <3>2. PICK w \in IF disk[p] = pages[p].data THEN {pages[p].data} ELSE {disk[p], Torn} :
            disk' = [disk EXCEPT ![p] = w]
      BY <2>2 DEF AfterFailedWrite
    <3> QED
      BY <3>1, <3>2, CutShort DEF Page
  <2> QED
    BY <2>1, <2>2 DEF Restart
<1>3. Page' = Page
  BY <1>2 DEF Page
<1>4. TypeOK'
  BY <1>1, <1>2, EmptySeq DEF IInv, TypeOK, Restart, Pin
<1>5. PoolConsistent'
  BY <1>1, FS_EmptySet, PoolAssumption DEF PoolConsistent
<1>6. PinnedStay'
  BY DEF Restart, PinnedStay, Free
<1>7. CleanFrames'
  BY <1>1 DEF CleanFrames
<1>8. FlushedOnDisk'
  BY <1>1, <1>2, <1>3 DEF IInv, FlushedOnDisk, Restart
<1>9. LruByUse'
  BY <1>1, <1>3 DEF IInv, LruByUse, Restart, Once, Before, ToSet
<1> QED
  BY <1>4, <1>5, <1>6, <1>7, <1>8, <1>9 DEF IInv

(* Every step keeps the invariant.                                         *)
LEMMA StepInv == ASSUME IInv, [Next]_vars PROVE IInv'
<1>1. ASSUME NEW c \in Client, NEW p \in Resident, FetchHit(c, p) PROVE IInv'
  BY <1>1, FetchHitInv
<1>2. ASSUME NEW c \in Client, NEW p \in 1..Len(disk), FetchMiss(c, p) PROVE IInv'
  BY <1>2, FetchMissInv DEF Page
<1>3. ASSUME NEW p \in 1..(Len(disk) + 1), ReadThrows(p) PROVE IInv'
  BY <1>3, ThrowInv DEF ReadThrows, IInv, TypeOK
<1>4. ASSUME NEW c \in Client, NewPage(c) PROVE IInv'
  BY <1>4, NewPageInv
<1>5. ASSUME AllocateThrows PROVE IInv'
  BY <1>5, ThrowInv DEF AllocateThrows
<1>6. ASSUME UNCHANGED vars PROVE IInv'
  <2> USE <1>6 DEF vars
  <2>1. Resident' = Resident /\ Page' = Page
    BY DEF Resident, Page
  <2>2. TypeOK'
    BY <2>1 DEF IInv, TypeOK, Pin
  <2>3. PoolConsistent'
    BY <2>1 DEF IInv, PoolConsistent, Holders
  <2>4. PinnedStay'
    BY <2>1 DEF IInv, PinnedStay, Free
  <2>5. CleanFrames' /\ FlushedOnDisk'
    BY <2>1 DEF IInv, CleanFrames, FlushedOnDisk, BeingWritten
  <2>6. LruByUse'
    BY <2>1, LruKept DEF IInv
  <2> QED
    BY <2>2, <2>3, <2>4, <2>5, <2>6 DEF IInv
<1>7. ASSUME EvictThrows PROVE IInv'
  BY <1>7, EvictThrowsInv
<1>8. ASSUME NEW c \in Client, NEW v \in Val, Modify(c, v) PROVE IInv'
  BY <1>8, ModifyInv
<1>9. ASSUME NEW c \in Client, NEW isDirty \in BOOLEAN, Unpin(c, isDirty) PROVE IInv'
  BY <1>9, UnpinInv
<1>10. ASSUME NEW p \in Resident, FlushPage(p) PROVE IInv'
  BY <1>10, FlushInv DEF FlushPage
<1>11. ASSUME FlushAll PROVE IInv'
  BY <1>11, FlushInv DEF FlushAll
<1>12. ASSUME NEW S \in SUBSET Dirty, NEW p \in Dirty, FlushThrows(S, p) PROVE IInv'
  BY <1>12, FlushThrowsInv
<1>13. ASSUME Restart PROVE IInv'
  BY <1>13, RestartInv
<1> QED
  BY <1>1, <1>2, <1>3, <1>4, <1>5, <1>6, <1>7, <1>8, <1>9, <1>10, <1>11, <1>12, <1>13
     DEF Next, RoomThrows

LEMMA Invariance == Spec => []IInv
BY InitInv, StepInv, PTL DEF Spec

------------------------------------------------------------------------------
(* The frame table, the LRU list, the pins of the clients and poolSize_    *)
(* agree after any calls, failures and restarts (buffer_pool.cpp).         *)
THEOREM Consistency == Spec => []PoolConsistent
BY Invariance, PTL DEF IInv

(* No page leaves the pool while a client has a pointer into it (evict,    *)
(* buffer_pool.cpp:99-118, passes over pinned frames).                     *)
THEOREM PinnedPagesStay == Spec => []PinnedStay
BY Invariance, PTL DEF IInv

(* A page that was flushed and not written since reads back as flushed,    *)
(* whatever was evicted, failed or restarted in between: CleanFrames keeps *)
(* an unwritten eviction harmless, and a write that is cut short can only  *)
(* tear a page that differs from its frame, which a flushed one does not.  *)
THEOREM FlushedPagesSurvive == Spec => []FlushedSurvives
BY Invariance, FlushedFollows, PTL

------------------------------------------------------------------------------
(* The order of evictions.                                                 *)

(* The victim is the last unpinned page of the list: the unpinned pages    *)
(* that stay are in front of it.                                           *)
LEMMA VictimIsLast ==
    ASSUME IInv, NEW room \in Room, NEW p \in Resident, p \notin DOMAIN room.pages,
           NEW q \in DOMAIN room.pages, pages[q].pins = 0
    PROVE  Before(lru, q, p)
<1>1. PICK i \in Victims : room = Evicted(i)
  <2>1. CASE HasFrame
    BY <2>1 DEF Room, Resident
  <2>2. CASE ~HasFrame
    BY <2>2 DEF Room
  <2> QED
    BY <2>1, <2>2
<1>2. DOMAIN room.pages = Resident \ {lru[i]}
  BY <1>1 DEF Evicted, Without, Resident
<1>3. p = lru[i] /\ q \in Resident /\ q # p
  BY <1>2
<1>4. lru \in Seq(Nat) /\ Len(lru) \in Nat
  BY LenProperties DEF IInv, TypeOK
<1>5. PICK k \in 1..Len(lru) : lru[k] = q
  BY <1>3, <1>4, LenProperties DEF IInv, PoolConsistent, ToSet
<1>6. i \in 1..Len(lru) /\ ~(i < k)
  BY <1>5, VictimFacts
<1> QED
  BY <1>3, <1>4, <1>5, <1>6 DEF Before

(* What evict takes was used before every other page it could have taken.  *)
LEMMA EvictionOrder ==
    ASSUME IInv, [Next]_vars, NEW p \in Resident, NEW q \in Resident,
           p \notin Resident', q \in Resident', pages[q].pins = 0
    PROVE  Before(used, q, p)
<1>1. SUFFICES Before(lru, q, p)
  BY DEF IInv, LruByUse
<1>2. ASSUME NEW room \in Room, p \notin DOMAIN room.pages, q \in DOMAIN room.pages
      PROVE  Before(lru, q, p)
  BY <1>2, VictimIsLast
<1>3. ASSUME Resident' = Resident PROVE FALSE
  BY <1>3
<1>4. ASSUME NEW c \in Client, NEW r \in Resident, FetchHit(c, r) PROVE FALSE
  BY <1>3, <1>4 DEF FetchHit, Resident
<1>5. ASSUME NEW c \in Client, NEW r \in 1..Len(disk), FetchMiss(c, r)
      PROVE  Before(lru, q, p)
  <2>1. PICK room \in Room : \E f : pages' = With(room.pages, r, f)
    BY <1>5 DEF FetchMiss
  <2>2. Resident' = DOMAIN room.pages \cup {r} /\ r \notin Resident
    BY <1>5, <2>1 DEF FetchMiss, With, Resident
  <2> QED
    BY <1>2, <2>2
<1>6. ASSUME NEW c \in Client, NewPage(c) PROVE Before(lru, q, p)
  <2>1. PICK room \in Room : \E f : pages' = With(room.pages, Len(disk) + 1, f)
    BY <1>6 DEF NewPage
  <2>2. Resident' = DOMAIN room.pages \cup {Len(disk) + 1}
    BY <2>1 DEF With, Resident
  <2>3. Len(disk) + 1 \notin Resident
    BY LenProperties DEF IInv, TypeOK, PoolConsistent
  <2> QED
    BY <1>2, <2>2, <2>3
<1>7. ASSUME \E room \in Room : pages' = room.pages PROVE Before(lru, q, p)
  BY <1>2, <1>7 DEF Resident
<1>8. ASSUME NEW c \in Client, NEW v \in Val, Modify(c, v) PROVE FALSE
  BY <1>3, <1>8 DEF Modify, Resident
<1>9. ASSUME NEW c \in Client, NEW isDirty \in BOOLEAN, Unpin(c, isDirty) PROVE FALSE
  BY <1>3, <1>9 DEF Unpin, Resident
<1>10. ASSUME NEW S, pages' = Clean(S) PROVE FALSE
  BY <1>3, <1>10 DEF Clean, Resident
<1>11. ASSUME Restart PROVE FALSE
  BY <1>11, EmptyFunction DEF Restart, Resident
<1>12. ASSUME UNCHANGED pages PROVE FALSE
  BY <1>3, <1>12 DEF Resident
<1>13. ASSUME (\E r \in 1..(Len(disk) + 1) : ReadThrows(r)) \/ AllocateThrows
       PROVE  Before(lru, q, p)
  BY <1>7, <1>13 DEF ReadThrows, AllocateThrows
<1>14. ASSUME RoomThrows \/ EvictThrows \/ UNCHANGED vars PROVE FALSE
  BY <1>12, <1>14 DEF RoomThrows, EvictThrows, vars
<1>15. ASSUME NEW S, Flush(S) PROVE FALSE
  BY <1>10, <1>15 DEF Flush
<1>16. ASSUME NEW S, NEW r, FlushThrows(S, r) PROVE FALSE
  BY <1>10, <1>16 DEF FlushThrows
<1>17. ASSUME (\E r \in Resident : FlushPage(r)) \/ FlushAll PROVE FALSE
  BY <1>15, <1>17 DEF FlushPage, FlushAll
<1> QED
  BY <1>4, <1>5, <1>6, <1>8, <1>9, <1>11, <1>13, <1>14, <1>16, <1>17 DEF Next

(* Every eviction takes the least recently used unpinned page: the LRU     *)
(* list never loses the order of use (touchPage, buffer_pool.cpp:88-97).   *)
THEOREM LeastRecentEvicted == Spec => EvictsLeastRecent
<1>1. ASSUME IInv, [Next]_vars
      PROVE  [\A p, q \in Resident :
                (p \notin Resident' /\ q \in Resident' /\ pages[q].pins = 0)
                => \E i, j \in 1..Len(used) : i < j /\ used[i] = q /\ used[j] = p]_vars
  BY <1>1, EvictionOrder DEF Before
<1> QED
  BY <1>1, Invariance, PTL DEF Spec, EvictsLeastRecent

------------------------------------------------------------------------------
(* The refinement.                                                         *)
store == [p \in 1..Len(disk) |-> Current(p)]

(* A client reads what is in the frame, or else what is in the file.       *)
StoreOK ==
    /\ store \in Seq(Content)
    /\ Len(store) = Len(disk)
    /\ \A p \in Page : store[p] = IF p \in Resident THEN pages[p].data ELSE disk[p]
    /\ Resident \subseteq Page
    /\ Len(disk) \in Nat

LEMMA StoreItems == IInv => StoreOK
<1> SUFFICES ASSUME IInv PROVE StoreOK
  OBVIOUS
<1>1. Len(disk) \in Nat /\ disk \in Seq(Content)
  BY LenProperties DEF IInv, TypeOK
<1>2. \A p \in Page : Current(p) \in Content
  BY <1>1, ElementOfSeq DEF Current, Page, IInv, TypeOK, Frame
<1>3. store \in [1..Len(disk) -> Content]
  BY <1>2 DEF store, Page
<1>4. store \in Seq(Content)
  BY <1>1, <1>3, SeqDef
<1>5. Len(store) = Len(disk)
  BY <1>1, <1>3, <1>4, LenProperties
<1> QED
  BY <1>1, <1>4, <1>5 DEF StoreOK, store, Current, Page, IInv, PoolConsistent

LEMMA StoreItemsNext == IInv' => StoreOK'
BY StoreItems, PTL

(* The pages of the abstract store are those of the file.                  *)
LEMMA StorePages == IInv => Store!Page = Page
BY StoreItems DEF StoreOK, Store!Page, store, Page

(* A step that leaves every page as a client would read it.                *)
LEMMA StoreSame ==
    ASSUME IInv, IInv', Len(disk') = Len(disk),
           \A p \in Page : (IF p \in Resident' THEN pages'[p].data ELSE disk'[p])
                           = IF p \in Resident THEN pages[p].data ELSE disk[p]
    PROVE  store' = store
<1>1. Page' = Page
  BY DEF Page
<1>2. StoreOK /\ StoreOK'
  BY StoreItems, StoreItemsNext
<1>3. /\ store \in Seq(Content) /\ store' \in Seq(Content)
      /\ Len(store') = Len(store)
      /\ \A p \in 1..Len(store) : store'[p] = store[p]
  BY <1>1, <1>2 DEF StoreOK, Page
<1> QED
  BY <1>3, SeqEqual

(* A file in which the pages of S were saved and those of T torn.          *)
LEMMA SavedItems ==
    ASSUME IInv, NEW d \in Seq(Content), Len(d) = Len(disk), NEW S, NEW T,
           \A p \in Page : d[p] = IF p \in S THEN store[p]
                                  ELSE IF p \in T THEN Torn ELSE disk[p]
    PROVE  d = Store!Saved(S, T)
<1>1. Store!Saved(S, T) = [p \in Page |-> IF p \in S THEN store[p]
                                          ELSE IF p \in T THEN Torn ELSE disk[p]]
  BY StorePages DEF Store!Saved, store
<1>2. DOMAIN d = Page
  BY LenProperties DEF Page
<1>3. d = [p \in Page |-> d[p]]
  BY <1>2, LenProperties
<1> QED
  BY <1>1, <1>3

LEMMA NoTears == {} \in Store!Tears
BY DEF Store!Tears

LEMMA OneTear ==
    ASSUME IInv, NEW p \in Page, store[p] # disk[p]
    PROVE  {p} \in Store!Tears
BY StorePages DEF Store!Tears, Store!Unsaved, store

(* Making room saves the page that leaves.                                 *)
LEMMA RoomSaves ==
    ASSUME IInv, NEW room \in Room
    PROVE  LET gone == Resident \ DOMAIN room.pages
           IN  /\ room.disk = Store!Saved(gone, {})
               /\ gone \in SUBSET Store!Page
<1> DEFINE gone == Resident \ DOMAIN room.pages
<1>1. RoomOK(room)
  BY RoomIsOK
<1>2. StoreOK
  BY StoreItems
<1>3. \A p \in Page : room.disk[p] = IF p \in gone THEN store[p] ELSE disk[p]
  BY <1>1, <1>2 DEF RoomOK, StoreOK
<1>4. room.disk = Store!Saved(gone, {})
  BY <1>1, <1>3, SavedItems DEF RoomOK
<1> QED
  BY <1>2, <1>4, StorePages DEF StoreOK

(* A step that only moves pages between the pool and the file.             *)
LEMMA SaveStep ==
    ASSUME IInv, store' = store, NEW S \in SUBSET Page, NEW T \in Store!Tears,
           disk' = Store!Saved(S, T)
    PROVE  Store!Next
<1>1. Store!Save(S, T)
  BY DEF Store!Save, store
<1> QED
  BY <1>1, StorePages DEF Store!Next

LEMMA ThrowSaves ==
    ASSUME IInv, IInv', NEW room \in Room,
           pages' = room.pages, disk' = room.disk
    PROVE  Store!Next
<1>1. RoomOK(room)
  BY RoomIsOK
<1>2. /\ Len(disk') = Len(disk)
      /\ Resident' = DOMAIN room.pages /\ Resident' \subseteq Resident
      /\ \A p \in Resident' : pages'[p] = pages[p]
      /\ \A p \in Page : disk'[p] = IF p \in Resident \ Resident' THEN pages[p].data
                                    ELSE disk[p]
  BY <1>1 DEF RoomOK, Resident
<1>3. store' = store
  BY <1>2, StoreSame
<1> QED
  BY <1>3, RoomSaves, NoTears, SaveStep, StorePages

LEMMA FetchMissSaves ==
    ASSUME IInv, IInv', NEW c \in Client, NEW p \in 1..Len(disk), FetchMiss(c, p)
    PROVE  Store!Next
<1>1. PICK room \in Room :
        /\ disk' = room.disk
        /\ pages' = With(room.pages, p, [data |-> room.disk[p], dirty |-> FALSE, pins |-> 1])
  BY DEF FetchMiss
<1>2. RoomOK(room) /\ p \notin Resident
  BY RoomIsOK DEF FetchMiss
<1>3. /\ Len(disk') = Len(disk)
      /\ Resident' = DOMAIN room.pages \cup {p}
      /\ DOMAIN room.pages \subseteq Resident
      /\ \A q \in DOMAIN room.pages : pages'[q] = pages[q]
      /\ pages'[p].data = disk'[p]
      /\ \A q \in Page : disk'[q] = IF q \in Resident \ DOMAIN room.pages THEN pages[q].data
                                    ELSE disk[q]
  BY <1>1, <1>2 DEF RoomOK, Resident, With
<1>4. store' = store
  BY <1>2, <1>3, StoreSame
<1> QED
  BY <1>1, <1>4, RoomSaves, NoTears, SaveStep, StorePages

LEMMA NewPageAllocates ==
    ASSUME IInv, IInv', NEW c \in Client, NewPage(c)
    PROVE  Store!Next
<1>1. PICK room \in Room :
        /\ disk' = Append(room.disk, Blank)
        /\ pages' = With(room.pages, Len(disk) + 1, [data |-> Blank, dirty |-> TRUE, pins |-> 1])
  BY DEF NewPage
<1> DEFINE p == Len(disk) + 1
           gone == Resident \ DOMAIN room.pages
<1>2. RoomOK(room) /\ StoreOK /\ StoreOK'
  BY RoomIsOK, StoreItems, StoreItemsNext
<1>3. room.disk = Store!Saved(gone, {}) /\ gone \in SUBSET Store!Page
  BY RoomSaves
<1>4. p \notin Page /\ Blank \in Content /\ Len(disk) \in Nat
  BY <1>2 DEF StoreOK, Page, Content
<1>5. /\ Len(disk') = p
      /\ \A q \in Page : disk'[q] = room.disk[q]
  BY <1>1, <1>2, <1>4, AppendProperties DEF RoomOK, Page
<1>6. Page' = Page \cup {p}
  BY <1>4, <1>5 DEF Page
<1>7. /\ Resident' = DOMAIN room.pages \cup {p}
      /\ p \notin DOMAIN room.pages
      /\ \A q \in DOMAIN room.pages : pages'[q] = pages[q]
      /\ pages'[p].data = Blank
  BY <1>1, <1>2, <1>4 DEF RoomOK, Resident, With, StoreOK
<1>8. \A q \in Page : store'[q] = store[q]
  <2> TAKE q \in Page
  <2>1. q # p /\ q \in Page'
    BY <1>4, <1>6
  <2>2. store'[q] = IF q \in DOMAIN room.pages THEN pages[q].data ELSE room.disk[q]
    BY <1>2, <1>5, <1>7, <2>1 DEF StoreOK
  <2> QED
    BY <1>2, <2>2 DEF StoreOK, RoomOK
<1>9. store'[p] = Blank
  BY <1>2, <1>6, <1>7 DEF StoreOK
<1>10. store' = Append(store, Blank)
  <2>1. /\ store \in Seq(Content) /\ Len(store) = Len(disk)
        /\ store' \in Seq(Content) /\ Len(store') = p
    BY <1>2, <1>5 DEF StoreOK
  <2>2. /\ Append(store, Blank) \in Seq(Content)
        /\ Len(Append(store, Blank)) = p
        /\ \A q \in Page : Append(store, Blank)[q] = store[q]
        /\ Append(store, Blank)[p] = Blank
    BY <1>4, <2>1, AppendProperties DEF Page
  <2>3. \A q \in 1..Len(store') : store'[q] = Append(store, Blank)[q]
    BY <1>4, <1>8, <1>9, <2>1, <2>2 DEF Page
  <2> QED
    BY <2>1, <2>2, <2>3, SeqEqual
<1>11. Store!Allocate(gone)
  BY <1>1, <1>3, <1>10 DEF Store!Allocate, store
<1> QED
  BY <1>3, <1>11 DEF Store!Next

(* A failed write saves nothing or tears its page; other pages of S may    *)
(* have been written before it.                                            *)
LEMMA FailSaves ==
    ASSUME IInv, store' = store, NEW S \in SUBSET Page, NEW p \in Page \ S,
           disk' \in Seq(Content), Len(disk') = Len(disk),
           \A q \in Page \ {p} : disk'[q] = IF q \in S THEN store[q] ELSE disk[q],
           disk'[p] \in {disk[p], Torn},
           store[p] = disk[p] => disk'[p] = disk[p]
    PROVE  Store!Next
<1>1. CASE disk'[p] = disk[p]
  <2>1. \A q \in Page : disk'[q] = IF q \in S THEN store[q] ELSE disk[q]
    BY <1>1
  <2>2. disk' = Store!Saved(S, {})
    BY <2>1, SavedItems
  <2> QED
    BY <2>2, NoTears, SaveStep
<1>2. CASE disk'[p] # disk[p]
  <2>1. \A q \in Page : disk'[q] = IF q \in S THEN store[q]
                                   ELSE IF q \in {p} THEN Torn ELSE disk[q]
    BY <1>2
  <2>2. disk' = Store!Saved(S, {p})
    BY <2>1, SavedItems
  <2> QED
    BY <1>2, <2>2, OneTear, SaveStep
<1> QED
  BY <1>1, <1>2

LEMMA EvictThrowsSaves ==
    ASSUME IInv, IInv', EvictThrows
    PROVE  Store!Next
<1>1. PICK i \in Victims : /\ pages[lru[i]].dirty
                           /\ disk' \in AfterFailedWrite(lru[i], pages[lru[i]].data)
  BY DEF EvictThrows
<1>2. PICK p \in Resident : p = lru[i]
  BY VictimFacts
<1>3. p \in Page /\ disk \in Seq(Content) /\ pages[p].data \in Content
  BY DEF IInv, TypeOK, PoolConsistent, Page, Frame
<1>4. PICK w \in IF disk[p] = pages[p].data THEN {pages[p].data} ELSE {disk[p], Torn} :
        disk' = [disk EXCEPT ![p] = w]
  BY <1>1, <1>2 DEF AfterFailedWrite
<1>5. /\ disk' \in Seq(Content)
      /\ Len(disk') = Len(disk)
      /\ \A q \in Page : disk'[q] = IF q = p THEN w ELSE disk[q]
      /\ w \in {disk[p], Torn}
      /\ disk[p] = pages[p].data => w = disk[p]
  BY <1>3, <1>4, CutShort DEF Page
<1>6. store[p] = pages[p].data
  BY <1>3, StoreItems DEF StoreOK
<1>7. store' = store
  <2>1. Resident' = Resident /\ pages' = pages
    BY DEF EvictThrows, Resident
  <2> QED
    BY <1>5, <2>1, StoreSame
<1>8. {} \in SUBSET Page /\ p \in Page \ {}
  BY <1>3
<1> QED
  BY <1>3, <1>5, <1>6, <1>7, <1>8, FailSaves

LEMMA ModifyWrites ==
    ASSUME IInv, IInv', NEW c \in Client, NEW v \in Val, Modify(c, v)
    PROVE  Store!Next
<1>1. PICK p \in Resident : p = hold[c].page
  BY DEF IInv, PinnedStay, Modify
<1>2. StoreOK /\ StoreOK' /\ p \in Page
  BY StoreItems, StoreItemsNext DEF StoreOK
<1>3. disk' = disk /\ Page' = Page
  BY DEF Modify, Page
<1>4. /\ Resident' = Resident
      /\ \A q \in Resident : pages'[q].data = IF q = p THEN v ELSE pages[q].data
  BY <1>1 DEF Modify, Resident, IInv, TypeOK, Frame
<1>5. v \in Content
  BY DEF Content
<1>6. store' = [store EXCEPT ![p] = v]
  <2>1. /\ [store EXCEPT ![p] = v] \in Seq(Content)
        /\ Len([store EXCEPT ![p] = v]) = Len(store)
        /\ \A q \in 1..Len(store) : [store EXCEPT ![p] = v][q] = IF q = p THEN v ELSE store[q]
    BY <1>2, <1>5, ExceptSeq DEF StoreOK, Page
  <2>2. \A q \in Page : store'[q] = IF q = p THEN v ELSE store[q]
    BY <1>2, <1>3, <1>4 DEF StoreOK
  <2>3. store' \in Seq(Content) /\ Len(store') = Len(store)
    BY <1>2, <1>3 DEF StoreOK
  <2> QED
    BY <1>2, <2>1, <2>2, <2>3, SeqEqual DEF StoreOK, Page
<1>7. Store!Write(p, v)
  BY <1>3, <1>6 DEF Store!Write, store
<1> QED
  BY <1>2, <1>7, StorePages DEF Store!Next

(* Cleaning frames changes nothing a client reads.                         *)
LEMMA CleanSame ==
    ASSUME IInv, IInv', NEW W \in SUBSET Resident, pages' = Clean(W),
           disk' \in Seq(Content), Len(disk') = Len(disk),
           \A q \in Page \ Resident : disk'[q] = disk[q]
    PROVE  store' = store
<1>1. DOMAIN pages' = Resident /\ \A q \in Resident : pages'[q].data = pages[q].data
  BY CleanFields DEF IInv
<1>2. Resident' = Resident
  BY <1>1 DEF Resident
<1> QED
  BY <1>1, <1>2, StoreSame

LEMMA FlushSaves ==
    ASSUME IInv, IInv', NEW S \in SUBSET Resident, Flush(S)
    PROVE  Store!Next
<1> DEFINE W == S \cap Dirty
<1>1. W \in SUBSET Resident /\ StoreOK
  BY StoreItems
<1>2. disk' = OnDisk(W) /\ pages' = Clean(W)
  BY DEF Flush
<1>3. /\ disk' \in Seq(Content)
      /\ Len(disk') = Len(disk)
      /\ \A q \in Page : disk'[q] = IF q \in W THEN pages[q].data ELSE disk[q]
  BY <1>1, <1>2, OnDiskItems
<1> HIDE DEF W
<1>4. store' = store
  BY <1>1, <1>2, <1>3, CleanSame
<1>5. disk' = Store!Saved(W, {})
  <2>1. \A q \in Page : disk'[q] = IF q \in W THEN store[q] ELSE disk[q]
    BY <1>1, <1>3 DEF StoreOK
  <2> QED
    BY <1>3, <2>1, SavedItems
<1> QED
  BY <1>1, <1>4, <1>5, NoTears, SaveStep DEF StoreOK

LEMMA FlushThrowsSaves ==
    ASSUME IInv, IInv', NEW S \in SUBSET Dirty, NEW p \in Dirty, FlushThrows(S, p)
    PROVE  Store!Next
<1>1. /\ S \in SUBSET Resident /\ p \in Resident \ S
      /\ StoreOK
  BY StoreItems DEF FlushThrows, Dirty
<1>2. PICK w \in IF disk[p] = pages[p].data THEN {disk[p]} ELSE {disk[p], Torn} :
        disk' = [OnDisk(S) EXCEPT ![p] = w]
  BY DEF FlushThrows
<1>3. /\ OnDisk(S) \in Seq(Content)
      /\ Len(OnDisk(S)) = Len(disk)
      /\ \A q \in Page : OnDisk(S)[q] = IF q \in S THEN pages[q].data ELSE disk[q]
  BY <1>1, OnDiskItems
<1>4. w \in Content
  <2>1. disk[p] \in Content
    BY <1>1, ElementOfSeq DEF Page, StoreOK, IInv, TypeOK
  <2> QED
    BY <2>1 DEF Content
<1>5. /\ disk' \in Seq(Content)
      /\ Len(disk') = Len(disk)
      /\ \A q \in Page : disk'[q] = IF q = p THEN w ELSE OnDisk(S)[q]
  BY <1>1, <1>2, <1>3, <1>4, ExceptSeq DEF Page, StoreOK
<1>6. store' = store
  <2>1. \A q \in Page \ Resident : disk'[q] = disk[q]
    BY <1>1, <1>3, <1>5
  <2> QED
    BY <1>1, <1>5, <2>1, CleanSame DEF FlushThrows
<1>7. /\ S \in SUBSET Page /\ p \in Page \ S
      /\ \A q \in Page \ {p} : disk'[q] = IF q \in S THEN store[q] ELSE disk[q]
      /\ disk'[p] \in {disk[p], Torn}
      /\ store[p] = disk[p] => disk'[p] = disk[p]
  BY <1>1, <1>3, <1>5 DEF StoreOK
<1> QED
  BY <1>5, <1>6, <1>7, FailSaves

LEMMA RestartCrashes ==
    ASSUME IInv, IInv', Restart
    PROVE  Store!Next
<1>1. StoreOK /\ StoreOK' /\ Resident' = {}
  BY StoreItems, StoreItemsNext, EmptyFunction DEF Restart, Resident
<1>2. disk' \in Seq(Content) /\ disk \in Seq(Content)
  BY DEF IInv, TypeOK
<1>3. store' = disk'
  <2>1. Len(store') = Len(disk') /\ \A q \in 1..Len(disk') : store'[q] = disk'[q]
    BY <1>1 DEF StoreOK, Page
  <2> QED
    BY <1>1, <1>2, <2>1, SeqEqual DEF StoreOK
<1>4. ASSUME NEW T \in Store!Tears, disk' = Store!Saved({}, T) PROVE Store!Next
  <2>1. Store!Crash(T)
    BY <1>3, <1>4 DEF Store!Crash, store
  <2> QED
    BY <2>1 DEF Store!Next
<1>5. CASE UNCHANGED disk
  <2>1. disk' = Store!Saved({}, {})
    BY <1>2, <1>5, SavedItems
  <2> QED
    BY <1>4, <2>1, NoTears
<1>6. ASSUME NEW p \in Dirty, disk' \in AfterFailedWrite(p, pages[p].data)
      PROVE  Store!Next
  <2>1. p \in Resident /\ p \in Page /\ pages[p].data \in Content /\ store[p] = pages[p].data
    BY <1>1 DEF Dirty, StoreOK, IInv, TypeOK, Frame
  <2>2. PICK w \in IF disk[p] = pages[p].data THEN {pages[p].data} ELSE {disk[p], Torn} :
          disk' = [disk EXCEPT ![p] = w]
    BY <1>6 DEF AfterFailedWrite
  <2>3. /\ Len(disk') = Len(disk)
        /\ \A q \in Page : disk'[q] = IF q = p THEN w ELSE disk[q]
        /\ w \in {disk[p], Torn}
        /\ disk[p] = pages[p].data => w = disk[p]
    BY <1>2, <2>1, <2>2, CutShort DEF Page
  <2>4. CASE w = disk[p]
    <3>1. disk' = Store!Saved({}, {})
      BY <1>2, <2>3, <2>4, SavedItems
    <3> QED
      BY <1>4, <3>1, NoTears
  <2>5. CASE w # disk[p]
    <3>1. disk' = Store!Saved({}, {p})
      BY <1>2, <2>3, <2>5, SavedItems
    <3> QED
      BY <1>4, <2>1, <2>3, <2>5, <3>1, OneTear
  <2> QED
    BY <2>4, <2>5
<1> QED
  BY <1>5, <1>6 DEF Restart

(* A step that leaves the file and the content of every frame alone.       *)
LEMMA StutterStep ==
    ASSUME IInv, IInv', UNCHANGED disk, Resident' = Resident,
           \A q \in Resident : pages'[q].data = pages[q].data
    PROVE  UNCHANGED Store!vars
<1>1. store' = store
  BY StoreSame
<1> QED
  BY <1>1 DEF Store!vars, store

(* Every step of the pool is one of the page store, or none.               *)
LEMMA StepRefines ==
    ASSUME IInv, IInv', [Next]_vars
    PROVE  [Store!Next]_(Store!vars)
<1>1. ASSUME NEW c \in Client, NEW p \in Resident, FetchHit(c, p)
      PROVE  UNCHANGED Store!vars
  BY <1>1, StutterStep DEF FetchHit, Resident, IInv, TypeOK, Frame
<1>2. ASSUME NEW c \in Client, NEW isDirty \in BOOLEAN, Unpin(c, isDirty)
      PROVE  UNCHANGED Store!vars
  BY <1>2, StutterStep DEF Unpin, Resident, IInv, TypeOK, Frame
<1>3. ASSUME RoomThrows \/ UNCHANGED vars PROVE UNCHANGED Store!vars
  BY <1>3, StutterStep DEF RoomThrows, Resident, vars
<1>4. ASSUME NEW p, ReadThrows(p) PROVE Store!Next
  BY <1>4, ThrowSaves DEF ReadThrows
<1>5. ASSUME AllocateThrows PROVE Store!Next
  BY <1>5, ThrowSaves DEF AllocateThrows
<1>6. ASSUME \E p \in Resident : FlushPage(p) PROVE Store!Next
  BY <1>6, FlushSaves DEF FlushPage
<1>7. ASSUME FlushAll PROVE Store!Next
  BY <1>7, FlushSaves DEF FlushAll
<1> QED
  BY <1>1, <1>2, <1>3, <1>4, <1>5, <1>6, <1>7, FetchMissSaves, NewPageAllocates,
     EvictThrowsSaves, ModifyWrites, FlushThrowsSaves, RestartCrashes DEF Next

(* The buffer pool implements the page store: whatever is loaded, evicted, *)
(* flushed or fails, a page reads as it was last written, and a restart    *)
(* takes it back to what had been saved.                                   *)
THEOREM PageStoreImplemented == Spec => ImplementsPageStore
<1>1. Init => Store!Init
  <2>1. ASSUME Init PROVE store = <<>>
    <3>1. StoreOK /\ Len(disk) = 0
      BY <2>1, InitInv, StoreItems, EmptySeq DEF Init
    <3> QED
      BY <3>1, EmptySeq DEF StoreOK
  <2> QED
    BY <2>1 DEF Store!Init, Init, store
<1>2. IInv /\ IInv' /\ [Next]_vars => [Store!Next]_(Store!vars)
  BY StepRefines
<1> QED
  BY <1>1, <1>2, Invariance, PTL DEF Spec, Store!Spec, ImplementsPageStore
==============================================================================
