------------------------------- MODULE Recovery -------------------------------
(***************************************************************************)
(* The two passes of WAL::recover (wal.cpp:132-196) over the records of a  *)
(* log, as functions from tables to tables.  A record is a mark (Begin,    *)
(* Commit, Abort) or carries a change; the images of a change have gone    *)
(* through serializeRow and deserializeRow.                                *)
(***************************************************************************)
EXTENDS Rows

CONSTANT Reread   \* Reread[v]: what is left of v when "col=v;" is parsed
                  \* again; v itself unless it holds a ';'

ASSUME RecoveryAssumption == Reread \in [Val -> Val]

RoundTrip(row) == [row EXCEPT !.val = Reread[@]]

CommittedIn(records) ==
    {records[i].txn : i \in {j \in 1..Len(records) : records[j].type = "Commit"}}

(* fault: the transactions that were not committed are replayed instead *)
ChangesOf_Swapped(records, committed) ==
    SelectSeq(records, LAMBDA rec :
        rec.type = "Data" /\ ((rec.txn \notin CommittedIn(records)) <=> committed))

(* The data records of the transactions that did, or did not, commit.      *)
ChangesOf(records, committed) ==
    SelectSeq(records, LAMBDA rec :
        rec.type = "Data" /\ ((rec.txn \in CommittedIn(records)) <=> committed))

(* row["id"] gives every row it looks at an empty id if it had none.       *)
LookedAt(rows, n) ==
    [i \in 1..Len(rows) |-> IF i <= n /\ rows[i].id = NoId
                              THEN [rows[i] EXCEPT !.id = EmptyKey] ELSE rows[i]]

(* The loop that searches row["id"] == key and overwrites the first match. *)
Found(rows, key) == SelectInSeq(rows, LAMBDA r : KeyOf(r) = key)

Overwrite(rows, key, row) ==
    LET i == Found(rows, key)
    IN  IF i = 0 THEN LookedAt(rows, Len(rows))
        ELSE [LookedAt(rows, i) EXCEPT ![i] = row]

(* fault: a replayed insert does not look for the row first *)
RedoInsert_Blind(rows, c) == Append(rows, RoundTrip(c.new))

RedoInsert(rows, c) ==
    IF \E i \in 1..Len(rows) : rows[i].id = c.key THEN rows
    ELSE Append(rows, RoundTrip(c.new))

RedoUpdate(rows, c) ==
    LET seen == Overwrite(rows, c.key, RoundTrip(c.new))
    IN  IF Found(rows, c.key) = 0 THEN Append(seen, RoundTrip(c.new)) ELSE seen

Redo(st, rec) ==
    LET c    == rec.change
        rows == RowsOf(st, c.table)
    IN  Put(st, c.table, CASE c.type = Insert -> RedoInsert(rows, c)
                           [] c.type = Update -> RedoUpdate(rows, c)
                           [] c.type = Delete -> EraseId(rows, c.key))

Undo(rec, st) ==
    LET c    == rec.change
        rows == RowsOf(st, c.table)
    IN  Put(st, c.table,
            IF c.type = Insert THEN EraseId(rows, c.key)
            ELSE Overwrite(rows, c.key, RoundTrip(c.old)))

RedoPass(records, st) == FoldLeft(Redo, st, ChangesOf(records, TRUE))

(* fault: the changes are undone first to last *)
UndoPass_Forward(records, st) ==
    FoldLeft(LAMBDA tables, rec : Undo(rec, tables), st, ChangesOf(records, FALSE))

UndoPass(records, st) == FoldRight(Undo, ChangesOf(records, FALSE), st)

Recover(records, st)  == UndoPass(records, RedoPass(records, st))
==============================================================================
