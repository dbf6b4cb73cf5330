--------------------------------- MODULE Rows ---------------------------------
(***************************************************************************)
(* Rows, write records and the ways the engine finds a row again by its    *)
(* "id" column: the data that the executor, the transaction manager and    *)
(* crash recovery share (row.h, transaction.h).  A row is an id and one    *)
(* value standing for its other columns; it may have no id column at all.  *)
(***************************************************************************)
EXTENDS Naturals, Sequences, SequencesExt, Picks

CONSTANTS Table,      \* table names
          Key,        \* texts an id column may hold
          EmptyKey,   \* the empty text, which WriteRecord::key also holds
                      \* for a row without an id column
          Val,        \* what the other columns may hold
          NoId,       \* marks a row without an id column
          NoRow       \* an oldRow or newRow that was never set

ASSUME RowsAssumption ==
    /\ NoId \notin Key /\ EmptyKey # NoId
    /\ NoRow \notin [id : Key \cup {NoId}, val : Val]

Row == [id : Key \cup {NoId}, val : Val]

(* row.count("id") ? row.at("id") : "" of the executor.                    *)
KeyOf(row) == IF row.id = NoId THEN EmptyKey ELSE row.id

Insert == "Insert"
Update == "Update"
Delete == "Delete"

(* WriteRecord, and the part of a LogRecord that carries a change.         *)
Change(type, table, key, old, new) ==
    [type |-> type, table |-> table, key |-> key, old |-> old, new |-> new]

(* The ids a change is about: the row's id after it and the one before.    *)
Touches(rec) == {rec.key} \cup (IF rec.old = NoRow THEN {} ELSE {KeyOf(rec.old)})

(* The erase(remove_if(...)) that rollback and recovery use: every row     *)
(* whose id column is there and equals k.                                  *)
EraseId(rows, k) ==
    Picked(rows, {i \in DOMAIN rows : rows[i].id = NoId \/ rows[i].id # k})

(* storage[table] of an unordered_map creates the table when it is absent. *)
RowsOf(st, table)    == IF table \in DOMAIN st THEN st[table] ELSE <<>>
Put(st, table, rows) == [tb \in DOMAIN st \cup {table} |->
                           IF tb = table THEN rows ELSE st[tb]]
==============================================================================
