--------------------------------- MODULE Mvcc ---------------------------------
(***************************************************************************)
(* Versions of rows and the snapshots that see them (src/include/mvcc.h).  *)
(* No part of the engine keeps versions: SeqScan and TableHeap::scan wrap  *)
(* every row they meet as one of transaction 1 that nobody has deleted.    *)
(***************************************************************************)
EXTENDS Naturals

Versioned(row) == [data |-> row, createdBy |-> 1, deletedBy |-> 0]

(* isVisible, for the snapshot with this id.                               *)
IsVisible(version, id) ==
    /\ version.createdBy <= id
    /\ version.deletedBy = 0 \/ version.deletedBy > id

(* Snapshot is {} when none is given.                                      *)
SeenUnder(snapshot, row) == \A id \in snapshot : IsVisible(Versioned(row), id)
==============================================================================
