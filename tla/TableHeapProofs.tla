---------------------------- MODULE TableHeapProofs ----------------------------
(***************************************************************************)
(* Proofs about TableHeap, for every page size, slot size and set of rows: *)
(* the layout of the page stays intact, and every live row reads back as   *)
(* it was inserted.  The inductive invariant is the conjunction of the     *)
(* types, the layout and what the bytes of the live rows are.              *)
(***************************************************************************)
EXTENDS TableHeap, TLAPS, SequenceTheorems, WellFoundedInduction

(* Every non-empty set of naturals has a least element.                    *)
LEMMA LeastExists ==
    ASSUME NEW S \in SUBSET Nat, S # {}
    PROVE  \E d \in S : \A e \in S : d <= e
<1> DEFINE Below == {ss \in Nat \X Nat : ss[1] < ss[2]}
<1>1. IsWellFoundedOn(Below, Nat)
  BY NatLessThanWellFounded DEF OpToRel
<1>2. PICK d \in S : \A e \in S : ~(<<e, d>> \in Below)
  BY <1>1, WFMin
<1>3. ASSUME NEW e \in S PROVE d <= e
  <2>1. <<e, d>> \in Nat \X Nat /\ <<e, d>>[1] = e /\ <<e, d>>[2] = d
    OBVIOUS
  <2>2. ~(e < d)
    BY <1>2, <2>1, Zenon
  <2> QED
    BY <2>2
<1> QED
  BY <1>3

(* A directory of slots: what the lemmas below need to know of one.        *)
Directory(dir) == dir \in Seq(Slot)

(* DataStart is a lower bound of the offsets in use, and at most the page  *)
(* size; when it is less, some row begins there.                           *)
LEMMA DataStartBounds ==
    ASSUME NEW dir, Directory(dir)
    PROVE  /\ DataStart(dir) \in Nat
           /\ DataStart(dir) <= PageSize
           /\ \A i \in LiveIn(dir) : DataStart(dir) <= dir[i].offset
           /\ DataStart(dir) = PageSize
                \/ \E i \in LiveIn(dir) : DataStart(dir) = dir[i].offset
<1> DEFINE Starts == {PageSize} \cup {dir[i].offset : i \in LiveIn(dir)}
<1>0. \A i \in LiveIn(dir) : dir[i] \in Slot
  BY ElementOfSeq DEF Directory, LiveIn
<1>1. Starts \in SUBSET Nat /\ Starts # {}
  BY <1>0, HeapAssumption DEF Slot
<1>2. \E d \in Starts : \A e \in Starts : d <= e
  BY <1>1, LeastExists
<1>3. DataStart(dir) \in Starts /\ \A e \in Starts : DataStart(dir) <= e
  BY <1>2 DEF DataStart
<1> QED
  BY <1>1, <1>3

LEMMA LengthType ==
    ASSUME NEW r \in Row
    PROVE  Length(r) \in 0..(Wrap - 1)
  BY HeapAssumption DEF Length

(* An accepted row that is not too large lies between the grown directory  *)
(* and the lowest text; a negative difference wraps to an offset from      *)
(* which the text runs past the page.                                      *)
LEMMA AcceptedFits ==
    ASSUME NEW dir, Directory(dir), NEW r \in Row,
           Accepts(dir, r), ~TooLarge(dir, r)
    PROVE  /\ Offset(dir, r) = DataStart(dir) - Size[r]
           /\ Offset(dir, r) \in 0..(Wrap - 1)
           /\ Length(r) = Size[r]
           /\ DirEnd(dir) + SlotSize <= Offset(dir, r)
<1> DEFINE d == DataStart(dir)  n == Length(r)
<1>1. d \in Nat /\ d <= PageSize
  BY DataStartBounds
<1>2. n \in 0..(Wrap - 1) /\ n = Size[r]
  BY LengthType DEF TooLarge
<1>3. Offset(dir, r) = (d - n) % Wrap
  BY DEF Offset
<1>4. CASE d < n
  <2>1. d - n \in Int /\ -Wrap < d - n /\ d - n < 0
    BY <1>1, <1>2, <1>4, HeapAssumption
  <2>2. (d - n) % Wrap = d - n + Wrap
    BY <2>1, HeapAssumption
  <2>3. Offset(dir, r) + n > PageSize
    BY <1>1, <1>2, <1>3, <2>2, HeapAssumption
  <2> QED
    BY <2>3 DEF TooLarge
<1>5. CASE ~(d < n)
  <2>1. d - n \in 0..(Wrap - 1)
    BY <1>1, <1>2, <1>5, HeapAssumption
  <2>2. (d - n) % Wrap = d - n
    BY <2>1, HeapAssumption
  <2> QED
    BY <1>2, <1>3, <1>5, <2>1, <2>2 DEF Accepts
<1> QED
  BY <1>4, <1>5

(* What the live rows of a directory read on a page.                       *)
Faithful(dir, page, rows) ==
    \A i \in LiveIn(dir) :
        [k \in 1..dir[i].length |-> page[dir[i].offset + k - 1]] = Text(rows[i])

(* Invalidating a slot takes it from the live ones and nothing else.       *)
LEMMA InvalidatedKeeps ==
    ASSUME Directory(slots), Separate(slots), Faithful(slots, bytes, given),
           NEW i \in Live
    PROVE  /\ Directory(Invalidated(i))
           /\ Len(Invalidated(i)) = Len(slots)
           /\ Separate(Invalidated(i))
           /\ Faithful(Invalidated(i), bytes, given)
<1> DEFINE dir == Invalidated(i)
<1>1. i \in 1..Len(slots) /\ slots[i] \in Slot
  BY ElementOfSeq DEF Live, LiveIn, Directory
<1>2. [slots[i] EXCEPT !.valid = FALSE] \in Slot
  BY <1>1 DEF Slot
<1>3. /\ dir \in Seq(Slot) /\ Len(dir) = Len(slots)
      /\ \A j \in 1..Len(slots) :
           dir[j] = IF j = i THEN [slots[i] EXCEPT !.valid = FALSE] ELSE slots[j]
  BY <1>1, <1>2, ExceptSeq DEF Invalidated, Directory
<1>4. LiveIn(dir) = Live \ {i}
  BY <1>1, <1>3 DEF LiveIn, Live, Slot
<1>5. \A j \in LiveIn(dir) : j \in Live /\ dir[j] = slots[j]
  BY <1>3, <1>4 DEF LiveIn, Live
<1>6. DirEnd(dir) = DirEnd(slots)
  BY <1>3 DEF DirEnd
<1> HIDE DEF dir
<1>7. Separate(dir)
  BY <1>5, <1>6 DEF Separate, Span, Live
<1>8. Faithful(dir, bytes, given)
  BY <1>5 DEF Faithful, Live
<1> QED
  BY <1>3, <1>7, <1>8 DEF Directory, dir

(* The directory with the slot of an accepted row, slot by slot.           *)
LEMMA EnteredSlots ==
    ASSUME NEW dir, Directory(dir), NEW r \in Row
    PROVE  /\ Directory(Entered(dir, r))
           /\ Len(Entered(dir, r)) = Len(dir) + 1
           /\ \A j \in 1..Len(dir) : Entered(dir, r)[j] = dir[j]
           /\ Entered(dir, r)[Len(dir) + 1] =
                [offset |-> Offset(dir, r), length |-> Length(r), valid |-> TRUE]
           /\ LiveIn(Entered(dir, r)) = LiveIn(dir) \cup {Len(dir) + 1}
           /\ DirEnd(Entered(dir, r)) = DirEnd(dir) + SlotSize
<1> DEFINE slot == [offset |-> Offset(dir, r), length |-> Length(r), valid |-> TRUE]
           new  == Entered(dir, r)
<1>1. DataStart(dir) - Length(r) \in Int
  BY DataStartBounds, LengthType, HeapAssumption
<1>2. Offset(dir, r) \in 0..(Wrap - 1)
  BY <1>1, HeapAssumption DEF Offset
<1>3. slot \in Slot
  BY <1>2, LengthType DEF Slot
<1>4. dir \in Seq(Slot) /\ Len(dir) \in Nat
  BY LenProperties DEF Directory
<1>5. /\ new \in Seq(Slot)
      /\ Len(new) = Len(dir) + 1
      /\ \A j \in 1..Len(dir) : new[j] = dir[j]
      /\ new[Len(dir) + 1] = slot
  BY <1>3, <1>4, AppendProperties DEF Entered
<1>6. LiveIn(new) = LiveIn(dir) \cup {Len(dir) + 1}
  <2>1. 1..Len(new) = 1..Len(dir) \cup {Len(dir) + 1}
    BY <1>4, <1>5
  <2>2. new[Len(dir) + 1].valid
    BY <1>5
  <2> HIDE DEF new
  <2> QED
    BY <1>5, <2>1, <2>2 DEF LiveIn
<1>7. DirEnd(new) = DirEnd(dir) + SlotSize
  <2>1. (Len(dir) + 1) * SlotSize = Len(dir) * SlotSize + SlotSize
    BY <1>4, HeapAssumption
  <2>2. Len(dir) * SlotSize \in Nat
    BY <1>4, HeapAssumption
  <2> QED
    BY <1>5, <2>1, <2>2, HeapAssumption DEF DirEnd
<1> QED
  BY <1>5, <1>6, <1>7 DEF Directory

(* Entering a row that is accepted and not too large keeps the page apart. *)
LEMMA EnteredSeparate ==
    ASSUME NEW dir, Directory(dir), NEW r \in Row,
           Accepts(dir, r), ~TooLarge(dir, r), Separate(dir)
    PROVE  Separate(Entered(dir, r))
<1> DEFINE new == Entered(dir, r)  m == Len(dir) + 1  o == Offset(dir, r)  d == DataStart(dir)
<1>1. /\ o = d - Size[r] /\ o \in Nat /\ Length(r) = Size[r]
      /\ DirEnd(dir) + SlotSize <= o
  BY AcceptedFits, HeapAssumption
<1>2. /\ d \in Nat /\ d <= PageSize
      /\ \A i \in LiveIn(dir) : d <= dir[i].offset
  BY DataStartBounds
<1>3. Size[r] \in Nat /\ PageSize \in Nat /\ SlotSize \in Nat
  BY HeapAssumption
<1>4. DirEnd(dir) \in Nat
  <2>1. Len(dir) \in Nat /\ DirStart \in Nat /\ SlotSize \in Nat
    BY LenProperties, HeapAssumption DEF Directory
  <2>2. Len(dir) * SlotSize \in Nat
    BY <2>1
  <2> QED
    BY <2>1, <2>2 DEF DirEnd
<1>5. \A i \in LiveIn(dir) : dir[i].offset \in Nat /\ dir[i].length \in Nat
  <2>1. \A i \in LiveIn(dir) : dir[i] \in Slot
    BY ElementOfSeq DEF Directory, LiveIn
  <2> QED
    BY <2>1, HeapAssumption DEF Slot
<1>6. /\ LiveIn(new) = LiveIn(dir) \cup {m}
      /\ DirEnd(new) = DirEnd(dir) + SlotSize
      /\ new[m].offset = o /\ new[m].length = Size[r]
      /\ \A i \in LiveIn(dir) : new[i] = dir[i] /\ i # m
  <2>1. Len(dir) \in Nat
    BY LenProperties DEF Directory
  <2>2. \A i \in LiveIn(dir) : i \in 1..Len(dir) /\ i # m
    BY <2>1 DEF LiveIn
  <2>3. new[m] = [offset |-> o, length |-> Length(r), valid |-> TRUE]
    BY EnteredSlots
  <2>4. \A i \in LiveIn(dir) : new[i] = dir[i]
    BY <2>2, EnteredSlots
  <2>5. LiveIn(new) = LiveIn(dir) \cup {m} /\ DirEnd(new) = DirEnd(dir) + SlotSize
    BY EnteredSlots
  <2> HIDE DEF new, m, o
  <2> QED
    BY <1>1, <2>2, <2>3, <2>4, <2>5
<1> HIDE DEF new, m, o, d
<1>7. DirEnd(new) <= PageSize
  BY <1>1, <1>2, <1>3, <1>4, <1>6
<1>8. ASSUME NEW i \in LiveIn(new)
      PROVE  DirEnd(new) <= new[i].offset /\ new[i].offset + new[i].length <= PageSize
  <2>1. CASE i = m
    BY <1>1, <1>2, <1>3, <1>6, <2>1
  <2>2. CASE i \in LiveIn(dir)
    <3>1. o <= dir[i].offset
      BY <1>1, <1>2, <1>3, <1>5, <2>2
    <3> QED
      BY <1>1, <1>3, <1>4, <1>5, <1>6, <2>2, <3>1 DEF Separate
  <2> QED
    BY <1>6, <2>1, <2>2
<1>9. ASSUME NEW i \in LiveIn(dir)
      PROVE  Span(new, i) \cap Span(new, m) = {} /\ Span(new, i) = Span(dir, i)
  <2>1. o + Size[r] <= dir[i].offset
    BY <1>1, <1>2, <1>3, <1>5
  <2> QED
    BY <1>1, <1>3, <1>5, <1>6, <2>1 DEF Span
<1>10. ASSUME NEW i \in LiveIn(new), NEW j \in LiveIn(new), i # j
       PROVE  Span(new, i) \cap Span(new, j) = {}
  BY <1>6, <1>9, <1>10 DEF Separate
<1> QED
  BY <1>7, <1>8, <1>10 DEF Separate, new

(* ... and every live row, the new one included, reads back: the bytes of  *)
(* the others are not touched, those of the new one are its text.          *)
LEMMA EnteredFaithful ==
    ASSUME NEW dir, Directory(dir), NEW r \in Row,
           given \in Seq(Row), Len(given) = Len(dir),
           Accepts(dir, r), ~TooLarge(dir, r), Separate(dir),
           Faithful(dir, bytes, given)
    PROVE  Faithful(Entered(dir, r), Stored(dir, r), Append(given, r))
<1> DEFINE new == Entered(dir, r)  m == Len(dir) + 1  o == Offset(dir, r)
           d == DataStart(dir)     page == Stored(dir, r)  rows == Append(given, r)
           e == DirEnd(dir)
<1>1. /\ o = d - Size[r] /\ o \in Nat /\ Length(r) = Size[r]
      /\ e + SlotSize <= o
  BY AcceptedFits, HeapAssumption
<1>2. /\ d \in Nat /\ d <= PageSize
      /\ \A i \in LiveIn(dir) : d <= dir[i].offset
  BY DataStartBounds
<1>3. Size[r] \in Nat /\ PageSize \in Nat /\ SlotSize \in Nat
  BY HeapAssumption
<1>4. Len(dir) \in Nat /\ e \in Nat
  <2>1. Len(dir) \in Nat /\ DirStart \in Nat /\ SlotSize \in Nat
    BY LenProperties, HeapAssumption DEF Directory
  <2>2. Len(dir) * SlotSize \in Nat
    BY <2>1
  <2> QED
    BY <2>1, <2>2 DEF DirEnd
<1>5. \A i \in LiveIn(dir) : dir[i].offset \in Nat /\ dir[i].length \in Nat
  <2>1. \A i \in LiveIn(dir) : dir[i] \in Slot
    BY ElementOfSeq DEF Directory, LiveIn
  <2> QED
    BY <2>1, HeapAssumption DEF Slot
<1>6. /\ LiveIn(new) = LiveIn(dir) \cup {m}
      /\ new[m] = [offset |-> o, length |-> Length(r), valid |-> TRUE]
      /\ \A i \in LiveIn(dir) : new[i] = dir[i] /\ rows[i] = given[i]
      /\ rows[m] = r
  <2>1. \A i \in LiveIn(dir) : i \in 1..Len(dir)
    BY DEF LiveIn
  <2>2. rows[m] = r /\ \A i \in 1..Len(dir) : rows[i] = given[i]
    BY AppendProperties
  <2>3. \A i \in LiveIn(dir) : new[i] = dir[i]
    BY <2>1, EnteredSlots
  <2>4. LiveIn(new) = LiveIn(dir) \cup {m}
    BY EnteredSlots
  <2>5. new[m] = [offset |-> o, length |-> Length(r), valid |-> TRUE]
    BY EnteredSlots
  <2> HIDE DEF new, m, rows, o
  <2> QED
    BY <2>1, <2>2, <2>3, <2>4, <2>5
<1>7. \A p \in 0..(PageSize - 1) :
        page[p] = IF p \in e..(e + SlotSize - 1) THEN DirByte
                  ELSE IF p \in o..(o + Length(r) - 1) THEN Text(r)[p - o + 1]
                  ELSE bytes[p]
  BY DEF Stored, Place
<1> HIDE DEF new, m, o, d, page, rows, e
<1>8. ASSUME NEW i \in LiveIn(dir)
      PROVE  [k \in 1..new[i].length |-> page[new[i].offset + k - 1]] = Text(rows[i])
  <2>1. dir[i].offset + dir[i].length <= PageSize
    BY DEF Separate
  <2>2. d <= dir[i].offset /\ dir[i].offset \in Nat /\ dir[i].length \in Nat
    BY <1>2, <1>5
  <2>3. ASSUME NEW k \in 1..dir[i].length
        PROVE  page[dir[i].offset + k - 1] = bytes[dir[i].offset + k - 1]
    <3> DEFINE p == dir[i].offset + k - 1
    <3>1. p \in 0..(PageSize - 1) /\ p >= d
      BY <2>1, <2>2, <1>2, <1>3
    <3>2. p \notin e..(e + SlotSize - 1) /\ p \notin o..(o + Length(r) - 1)
      BY <3>1, <1>1, <1>2, <1>3, <1>4
    <3> HIDE DEF p
    <3>3. page[p] = bytes[p]
      BY <3>1, <3>2, <1>7
    <3> QED
      BY <3>3 DEF p
  <2>4. [k \in 1..dir[i].length |-> page[dir[i].offset + k - 1]]
          = [k \in 1..dir[i].length |-> bytes[dir[i].offset + k - 1]]
    BY <2>3
  <2>5. [k \in 1..dir[i].length |-> bytes[dir[i].offset + k - 1]] = Text(given[i])
    BY DEF Faithful
  <2> QED
    BY <1>6, <2>4, <2>5
<1>9. [k \in 1..new[m].length |-> page[new[m].offset + k - 1]] = Text(rows[m])
  <2>1. ASSUME NEW k \in 1..Size[r]
        PROVE  page[o + k - 1] = Text(r)[k]
    <3> DEFINE p == o + k - 1
    <3>0. /\ k \in Int /\ 1 <= k /\ k <= Size[r] /\ p = o + k - 1
          /\ o + Size[r] = d /\ o \in Nat
      BY <1>1, <1>2, <1>3
    <3> HIDE DEF p
    <3>1. p \in 0..(PageSize - 1) /\ p >= o /\ p - o + 1 = k
      BY <3>0, <1>2, <1>3
    <3>2. p \notin e..(e + SlotSize - 1) /\ p \in o..(o + Length(r) - 1)
      BY <3>0, <1>1, <1>3, <1>4
    <3>3. page[p] = Text(r)[p - o + 1]
      BY <3>1, <3>2, <1>7
    <3>4. page[p] = Text(r)[k]
      BY <3>1, <3>3
    <3> QED
      BY <3>0, <3>4
  <2>2. [k \in 1..Size[r] |-> page[o + k - 1]] = [k \in 1..Size[r] |-> Text(r)[k]]
    BY <2>1
  <2>3. [k \in 1..Size[r] |-> Text(r)[k]] = Text(r)
    BY DEF Text
  <2>4. new[m].length = Size[r] /\ new[m].offset = o /\ rows[m] = r
    BY <1>1, <1>6
  <2> QED
    BY <2>2, <2>3, <2>4
<1>10. Faithful(new, page, rows)
  BY <1>6, <1>8, <1>9 DEF Faithful
<1> QED
  BY <1>10 DEF new, page, rows

------------------------------------------------------------------------------
(* A text is never longer than its row, however it was cut.                *)
LEMMA LengthBound ==
    ASSUME NEW r \in Row
    PROVE  Length(r) <= Size[r]
<1>1. Size[r] \in Nat /\ Wrap \in Nat /\ Wrap > 0
  BY HeapAssumption
<1>2. CASE Size[r] < Wrap
  BY <1>1, <1>2 DEF Length
<1>3. CASE Size[r] >= Wrap
  BY <1>1, <1>3, LengthType
<1> QED
  BY <1>1, <1>2, <1>3

(* The page of a stored row has the type of a page.                        *)
LEMMA StoredType ==
    ASSUME NEW dir, NEW r \in Row, Directory(dir),
           bytes \in [Place -> {Blank, DirByte} \cup (Row \X Nat)]
    PROVE  Stored(dir, r) \in [Place -> {Blank, DirByte} \cup (Row \X Nat)]
<1> DEFINE o == Offset(dir, r)  n == Length(r)
<1>1. o \in Int /\ n \in Nat /\ n <= Size[r] /\ Size[r] \in Nat
  <2>1. DataStart(dir) - Length(r) \in Int
    BY DataStartBounds, LengthType, HeapAssumption
  <2> QED
    BY <2>1, LengthType, LengthBound, HeapAssumption DEF Offset
<1> HIDE DEF o, n
<1>2. ASSUME NEW p \in Place, p \in o..(o + n - 1)
      PROVE  Text(r)[p - o + 1] \in Row \X Nat
  <2>1. p - o + 1 \in 1..Size[r]
    BY <1>1, <1>2 DEF Place
  <2>2. Text(r)[p - o + 1] = <<r, p - o + 1>>
    BY <2>1 DEF Text
  <2> QED
    BY <2>1, <2>2
<1>3. ASSUME NEW p \in Place PROVE Stored(dir, r)[p] \in {Blank, DirByte} \cup (Row \X Nat)
  BY <1>2 DEF Stored, o, n
<1> QED
  BY <1>3 DEF Stored

(* The inductive invariant.  LayoutIntact and ReadsBack need each other's  *)
(* half of it: a text is safe because the layout is intact, and that the   *)
(* new text overwrites nothing is what keeps the others readable.  Both    *)
(* stop where the process has left what C++ defines.                       *)
IInv ==
    /\ TypeOK
    /\ ~overfull => Separate(slots) /\ Faithful(slots, bytes, given)

LEMMA InitIInv == Init => IInv
<1> SUFFICES ASSUME Init PROVE IInv
  OBVIOUS
<1>1. slots = <<>> /\ given = <<>> /\ overfull = FALSE /\ bytes = [p \in Place |-> Blank]
  BY DEF Init
<1>2. Len(slots) = 0 /\ LiveIn(slots) = {}
  BY <1>1 DEF LiveIn
<1>3. DirEnd(slots) = DirStart
  BY <1>2, HeapAssumption DEF DirEnd
<1>4. TypeOK
  <2>1. slots \in Seq(Slot) /\ given \in Seq(Row) /\ Len(given) = Len(slots)
    BY <1>1
  <2>2. [p \in Place |-> Blank] \in [Place -> {Blank, DirByte} \cup (Row \X Nat)]
    OBVIOUS
  <2>3. bytes \in [Place -> {Blank, DirByte} \cup (Row \X Nat)] /\ overfull \in BOOLEAN
    BY <1>1, <2>2
  <2> QED
    BY <2>1, <2>3 DEF TypeOK
<1>5. Separate(slots)
  BY <1>2, <1>3, HeapAssumption DEF Separate
<1>6. Faithful(slots, bytes, given)
  BY <1>2 DEF Faithful
<1> QED
  BY <1>4, <1>5, <1>6 DEF IInv

(* insertIntoPage keeps the invariant, whatever directory it is called on. *)
LEMMA InsertKeepsIInv ==
    ASSUME TypeOK, ~overfull, NEW dir, NEW r \in Row,
           Directory(dir), Len(dir) = Len(slots),
           Separate(dir), Faithful(dir, bytes, given),
           InsertIntoPage(dir, r)
    PROVE  IInv'
<1> USE DEF TypeOK
<1>1. CASE Accepts(dir, r)
  <2>1. /\ slots' = Entered(dir, r) /\ bytes' = Stored(dir, r)
        /\ overfull' = TooLarge(dir, r) /\ given' = Append(given, r)
    BY <1>1 DEF InsertIntoPage
  <2>2. Directory(slots') /\ Len(slots') = Len(dir) + 1
    BY <2>1, EnteredSlots
  <2>3. given' \in Seq(Row) /\ Len(given') = Len(given) + 1
    BY <2>1, AppendProperties
  <2>4. bytes' \in [Place -> {Blank, DirByte} \cup (Row \X Nat)]
    BY <2>1, StoredType
  <2>5. overfull' \in BOOLEAN
    BY <2>1 DEF TooLarge
  <2>6. TypeOK'
    BY <2>2, <2>3, <2>4, <2>5 DEF Directory
  <2>7. ASSUME ~overfull' PROVE Separate(slots') /\ Faithful(slots', bytes', given')
    BY <1>1, <2>1, <2>7, EnteredSeparate, EnteredFaithful
  <2> QED
    BY <2>6, <2>7 DEF IInv
<1>2. CASE ~Accepts(dir, r)
  <2>1. slots' = dir /\ bytes' = bytes /\ overfull' = overfull /\ given' = given
    BY <1>2 DEF InsertIntoPage
  <2> QED
    BY <2>1 DEF IInv, Directory
<1> QED
  BY <1>1, <1>2

LEMMA NextIInv == IInv /\ [Next]_vars => IInv'
<1> SUFFICES ASSUME IInv, [Next]_vars PROVE IInv'
  OBVIOUS
<1>0. TypeOK /\ Directory(slots)
  BY DEF IInv, TypeOK, Directory
<1>1. CASE UNCHANGED vars
  BY <1>1 DEF vars, IInv, TypeOK
<1>2. ASSUME NEW r \in Row, InsertRow(r) PROVE IInv'
  BY <1>0, <1>2, InsertKeepsIInv DEF InsertRow, IInv
<1>3. ASSUME NEW i \in Live, NEW r \in Row, UpdateRow(i, r) PROVE IInv'
  <2>1. ~overfull /\ InsertIntoPage(Invalidated(i), r)
    BY <1>3 DEF UpdateRow
  <2>2. /\ Directory(Invalidated(i)) /\ Len(Invalidated(i)) = Len(slots)
        /\ Separate(Invalidated(i)) /\ Faithful(Invalidated(i), bytes, given)
    BY <1>0, <2>1, InvalidatedKeeps DEF IInv
  <2> QED
    BY <1>0, <2>1, <2>2, InsertKeepsIInv
<1>4. ASSUME NEW i \in Live, DeleteRow(i) PROVE IInv'
  <2>1. /\ ~overfull /\ slots' = Invalidated(i)
        /\ bytes' = bytes /\ overfull' = overfull /\ given' = given
    BY <1>4 DEF DeleteRow
  <2>2. /\ Directory(slots') /\ Len(slots') = Len(slots)
        /\ Separate(slots') /\ Faithful(slots', bytes, given)
    BY <1>0, <2>1, InvalidatedKeeps DEF IInv
  <2> QED
    BY <1>0, <2>1, <2>2 DEF IInv, TypeOK, Directory
<1>5. CASE NothingDone
  BY <1>1, <1>5 DEF NothingDone
<1>6. CASE Undefined
  BY <1>1, <1>6 DEF Undefined
<1> QED
  BY <1>1, <1>2, <1>3, <1>4, <1>5, <1>6 DEF Next

(* The invariant holds in every reachable state of the heap's page.        *)
LEMMA Inductive == Spec => []IInv
<1> QED
  BY InitIInv, NextIInv, PTL DEF Spec

(* Whatever is inserted, updated and deleted, for every page size, slot    *)
(* size and set of rows: directory and texts never run into each other,    *)
(* until a row the page cannot hold is accepted (insertIntoPage).          *)
THEOREM LayoutSafe == Spec => []LayoutIntact
<1>1. IInv => LayoutIntact
  BY DEF IInv, LayoutIntact
<1> QED
  BY <1>1, Inductive, PTL

(* ... and getRow answers, for every live RowId, the row it was made for   *)
(* (insertIntoPage against getRow).                                        *)
THEOREM RowsReadBack == Spec => []ReadsBack
<1>1. IInv => ReadsBack
  BY DEF IInv, ReadsBack, Faithful, GetRow, Live
<1> QED
  BY <1>1, Inductive, PTL
================================================================================
