------------------------------ MODULE TableHeap ------------------------------
(***************************************************************************)
(* The slotted page of src/table_heap.cpp.  A heap puts all its rows into  *)
(* its first page: the slot directory grows forward from DirStart, the     *)
(* texts of the rows grow backward from the end of the page.  Slots are    *)
(* numbered from 1 here; a RowId of this page is the number of its slot.   *)
(* Within one call the page stays in the buffer pool (BufferPool.tla), so  *)
(* a call either throws before it has changed anything or runs to its end. *)
(*                                                                         *)
(* A byte of the page is known by the row and the place in the row's text  *)
(* it came from.  Offsets and lengths are uint16_t: the size of a text is  *)
(* cut to Wrap = 2^16 by a cast, and an offset below zero comes out near   *)
(* Wrap.  Once the code has accepted a row that is too large it has written *)
(* past the page, where C++ defines nothing any more, or cut off its text: *)
(* the model ends there.                                                   *)
(***************************************************************************)
EXTENDS Integers, Sequences

CONSTANTS Row,        \* the rows clients store
          Size,       \* Size[r]: length of the serialized text of r
          PageSize,   \* PAGE_SIZE
          DirStart,   \* SLOT_DIR_START
          SlotSize,   \* SLOT_SIZE
          Wrap        \* 2^16, the range of uint16_t

ASSUME HeapAssumption ==
    /\ Size \in [Row -> Nat]
    /\ {PageSize, DirStart, SlotSize, Wrap} \subseteq Nat
    /\ DirStart <= PageSize /\ PageSize < Wrap

VARIABLES slots,      \* the directory; its length is header().recordCount
          bytes,      \* the bytes of the page
          overfull,   \* a row was accepted that the page cannot hold
          given       \* history: given[i] is the row slot i was made for

vars == <<slots, bytes, overfull, given>>

Place  == 0..(PageSize - 1)
Blank  == <<"blank", 0>>
DirByte == <<"slot", 0>>
Text(r) == [k \in 1..Size[r] |-> <<r, k>>]

Slot == [offset : 0..(Wrap - 1), length : 0..(Wrap - 1), valid : BOOLEAN]

LiveIn(dir) == {i \in 1..Len(dir) : dir[i].valid}
Live        == LiveIn(slots)

DirEnd(dir) == DirStart + Len(dir) * SlotSize

(* fault: the loop over the slots ends at the first one that is not valid *)
DataStart_StopsAtHole(dir) ==
    LET Starts == {PageSize} \cup {dir[i].offset : i \in
                     {j \in LiveIn(dir) : 1..j \subseteq LiveIn(dir)}}
    IN  CHOOSE d \in Starts : \A e \in Starts : d <= e

(* Where the texts begin: the lowest offset of a live row.                 *)
DataStart(dir) ==
    LET Starts == {PageSize} \cup {dir[i].offset : i \in LiveIn(dir)}
    IN  CHOOSE d \in Starts : \A e \in Starts : d <= e

Length(r) == Size[r] % Wrap

(* fault: the room for the new slot itself is forgotten *)
Accepts_ForgetsSlot(dir, r) ==
    \/ DataStart(dir) < Length(r)
    \/ DirEnd(dir) <= DataStart(dir) - Length(r)

(* The size check of insertIntoPage.  Its right side is an int that is     *)
(* compared as size_t: when it is negative it is huge, and the row passes. *)
Accepts(dir, r) ==
    \/ DataStart(dir) < Length(r)
    \/ DirEnd(dir) + SlotSize <= DataStart(dir) - Length(r)

Offset(dir, r) == (DataStart(dir) - Length(r)) % Wrap

(* The text of r is cut by the cast, or the copy runs past the page.       *)
TooLarge(dir, r) == Length(r) # Size[r] \/ Offset(dir, r) + Length(r) > PageSize

(* The directory with the slot of r, and the page with the text and then   *)
(* the slot written into it.                                               *)
Entered(dir, r) ==
    Append(dir, [offset |-> Offset(dir, r), length |-> Length(r), valid |-> TRUE])

Stored(dir, r) ==
    [p \in Place |->
       IF p \in DirEnd(dir)..(DirEnd(dir) + SlotSize - 1) THEN DirByte
       ELSE IF p \in Offset(dir, r)..(Offset(dir, r) + Length(r) - 1)
         THEN Text(r)[p - Offset(dir, r) + 1]
       ELSE bytes[p]]

(* insertIntoPage on a page with the directory dir: the row goes in, or    *)
(* the invalid RowId (slot 0) comes back.                                  *)
InsertIntoPage(dir, r) ==
    IF Accepts(dir, r)
      THEN /\ slots' = Entered(dir, r)
           /\ bytes' = Stored(dir, r)
           /\ overfull' = TooLarge(dir, r)
           /\ given' = Append(given, r)
      ELSE /\ slots' = dir
           /\ UNCHANGED <<bytes, overfull, given>>

Invalidated(i) == [slots EXCEPT ![i].valid = FALSE]

------------------------------------------------------------------------------
(* insertRow.                                                              *)
InsertRow(r) == ~overfull /\ InsertIntoPage(slots, r)

(* updateRow: the old slot is invalidated, the new row inserted; what the  *)
(* insertion answers is not looked at.                                     *)
UpdateRow(i, r) ==
    /\ ~overfull
    /\ i \in Live
    /\ InsertIntoPage(Invalidated(i), r)

(* deleteRow.                                                              *)
DeleteRow(i) ==
    /\ ~overfull
    /\ i \in Live
    /\ slots' = Invalidated(i)
    /\ UNCHANGED <<bytes, overfull, given>>

(* updateRow and deleteRow of a row that is not there answer false; every  *)
(* call can throw in the fetchPage it begins with.                         *)
NothingDone == ~overfull /\ UNCHANGED vars

(* Nothing is known about a process that has written past the page.        *)
Undefined == overfull /\ UNCHANGED vars

(* The bytes getRow makes a row of, when slot i is valid.                  *)
GetRow(i) == [k \in 1..slots[i].length |-> bytes[slots[i].offset + k - 1]]

Init ==
    /\ slots = <<>>
    /\ bytes = [p \in Place |-> Blank]
    /\ overfull = FALSE
    /\ given = <<>>

Next ==
    \/ \E r \in Row : InsertRow(r)
    \/ \E i \in Live, r \in Row : UpdateRow(i, r)
    \/ \E i \in Live : DeleteRow(i)
    \/ NothingDone
    \/ Undefined

Spec == Init /\ [][Next]_vars

------------------------------------------------------------------------------
Span(dir, i) == dir[i].offset..(dir[i].offset + dir[i].length - 1)

(* Directory and texts follow each other on the page without overlap.      *)
Separate(dir) ==
    /\ DirEnd(dir) <= PageSize
    /\ \A i \in LiveIn(dir) :
         /\ DirEnd(dir) <= dir[i].offset
         /\ dir[i].offset + dir[i].length <= PageSize
    /\ \A i, j \in LiveIn(dir) : i # j => Span(dir, i) \cap Span(dir, j) = {}

TypeOK ==
    /\ slots \in Seq(Slot)
    /\ given \in Seq(Row)
    /\ Len(given) = Len(slots)
    /\ bytes \in [Place -> {Blank, DirByte} \cup (Row \X Nat)]
    /\ overfull \in BOOLEAN

(* The directory and the texts of the live rows never run into each other: *)
(* every text lies between the end of the directory and the end of the     *)
(* page, and no two overlap, whatever was deleted and put into the space   *)
(* that became free (insertIntoPage, table_heap.cpp:75-94).                *)
LayoutIntact == ~overfull => Separate(slots)

(* A row reads back, byte for byte, as it was inserted under its RowId, as *)
(* long as it is not deleted or updated and whatever happens to the others.*)
ReadsBack == ~overfull => \A i \in Live : GetRow(i) = Text(given[i])
==============================================================================
