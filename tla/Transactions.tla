----------------------------- MODULE Transactions -----------------------------
(***************************************************************************)
(* The transaction manager (txn_manager.h, transaction.h), the statements  *)
(* of the executor that write (executor.cpp:187-276) and the tables they   *)
(* share, with the lock manager and the write-ahead log the manager calls. *)
(*                                                                         *)
(* A client interleaves the statements of several open transactions in one *)
(* thread (neither class has a mutex), so a statement is one action.  The  *)
(* code lets a client do as it likes: it may write without a lock, give    *)
(* two rows the same id, change ids, and delete.  Constants say what of    *)
(* that a client does; the engine itself never checks any of it.           *)
(***************************************************************************)
EXTENDS Rows, FiniteSets

CONSTANTS MaxTxn,     \* bound on the transactions ever begun
          MaxChanges, \* bound on the changes that are ever logged
          MaxRows,    \* bound on the rows of a table
          Preloaded,  \* the tables present at the start (main.cpp fills a map)
          InitialRows,
          LockFirst,  \* clients write only what they hold exclusively
          FreshIds,   \* clients keep ids present and unique
          Deletes,    \* clients issue DELETE
          Modes,      \* the lock modes clients ask for
          Renames     \* clients change the id of a row with UPDATE

ASSUME TransactionsAssumption ==
    /\ MaxTxn \in Nat /\ MaxChanges \in Nat /\ MaxRows \in Nat
    /\ Preloaded \subseteq Table
    /\ InitialRows \in Seq(Row)
    /\ Modes \subseteq {"Shared", "Exclusive"}
    /\ {LockFirst, FreshIds, Deletes, Renames} \subseteq BOOLEAN

VARIABLES storage,    \* TableStorage: table |-> rows, in order
          txns,       \* transactions_: the status and write log of txn i
          locks,      \* the lock table of lockManager_
          file, buffer, pos, failed, nextLsn,     \* the WAL, see WAL.tla
          appended    \* history: every record passed to WAL::append

wal  == <<file, buffer, pos, failed, nextLsn, appended>>
vars == <<storage, txns, locks, wal>>

TxnId    == 1..MaxTxn
Resource == Table \X Key

(* reply, the answer of the last call, is of no interest here.             *)
LM  == INSTANCE LockManager WITH reply <- <<>>
Log == INSTANCE WAL

Active    == "Active"
Committed == "Committed"
Aborted   == "Aborted"

Begun       == 1..Len(txns)                 \* nextId_ is Len(txns) + 1
IsActive(t) == t \in Begun /\ txns[t].status = Active
ActiveTxns  == {t \in Begun : txns[t].status = Active}

------------------------------------------------------------------------------
(* The log records of transaction t.                                       *)
Mark(t, type) == [txn |-> t, type |-> type]
Data(t)       == [i \in 1..Len(txns[t].log) |->
                    [txn |-> t, type |-> "Data", change |-> txns[t].log[i]]]

AppendAndFlush(recs) ==
    /\ Log!SubmitAndFlush(recs)
    /\ appended' = appended \o recs

EverBegun == Cardinality({i \in DOMAIN appended : appended[i].type = "Begin"})

(* begin.                                                                  *)
Begin ==
    /\ EverBegun < MaxTxn
    /\ txns' = Append(txns, [status |-> Active, log |-> <<>>])
    /\ Log!Submit(<<Mark(Len(txns) + 1, "Begin")>>)
    /\ appended' = Append(appended, Mark(Len(txns) + 1, "Begin"))
    /\ UNCHANGED <<storage, locks>>

(* A client asks the lock manager for the lock on one id of a table; the   *)
(* manager does not know whether the transaction is still open.            *)
Acquire(t, r, m) ==
    /\ LockFirst => IsActive(t)
    /\ LM!CanGrant(t, r, m)
    /\ locks' = LM!Entered(t, r, m)
    /\ UNCHANGED <<storage, txns, wal>>

AcquireDenied(t, r, m) ==
    /\ LockFirst => IsActive(t)
    /\ ~LM!CanGrant(t, r, m)
    /\ UNCHANGED vars

(* fault: the locks are kept *)
Commit_KeepsLocks(t) ==
    /\ IsActive(t)
    /\ AppendAndFlush(Append(Data(t), Mark(t, "Commit")))
    /\ txns' = [txns EXCEPT ![t].status = Committed]
    /\ UNCHANGED <<storage, locks>>

(* commit.                                                                 *)
Commit(t) ==
    /\ IsActive(t)
    /\ AppendAndFlush(Append(Data(t), Mark(t, "Commit")))
    /\ txns' = [txns EXCEPT ![t].status = Committed]
    /\ locks' = LM!Released(t)
    /\ UNCHANGED storage

(* fault: an insert is undone by taking away the last row *)
UndoChange_LastRow(rec, st) ==
    LET rows == RowsOf(st, rec.table)
        i    == SelectInSeq(rows, LAMBDA row : row.id # NoId /\ row.id = rec.key)
    IN  Put(st, rec.table,
            IF rec.type = Insert THEN SubSeq(rows, 1, Len(rows) - 1)
            ELSE IF i = 0 THEN rows ELSE [rows EXCEPT ![i] = rec.old])

(* One round of the undo loop of rollback: an insert is undone by erasing  *)
(* every row with its key; an update and a delete are undone by putting    *)
(* the old row over the first row with the key, if there is one.           *)
UndoChange(rec, st) ==
    LET rows == RowsOf(st, rec.table)
        i    == SelectInSeq(rows, LAMBDA row : row.id # NoId /\ row.id = rec.key)
    IN  Put(st, rec.table,
            IF rec.type = Insert THEN EraseId(rows, rec.key)
            ELSE IF i = 0 THEN rows ELSE [rows EXCEPT ![i] = rec.old])

(* fault: the write log is undone from its front *)
Undone_Forward(t) == FoldLeft(LAMBDA st, rec : UndoChange(rec, st), storage, txns[t].log)

(* The storage once the write log of t is undone from its back.            *)
Undone(t) == FoldRight(UndoChange, txns[t].log, storage)

(* rollback.                                                               *)
Rollback(t) ==
    /\ IsActive(t)
    /\ storage' = Undone(t)
    /\ AppendAndFlush(Append(Data(t), Mark(t, "Abort")))
    /\ txns' = [txns EXCEPT ![t].status = Aborted]
    /\ locks' = LM!Released(t)

(* commit and rollback of a transaction that has ended throw.              *)
EndThrows(t) == t \in Begun /\ ~IsActive(t) /\ UNCHANGED vars

------------------------------------------------------------------------------
(* Statements.  t = 0 stands for txn == nullptr.  A write is logged only   *)
(* for an active transaction; it is applied in any case.                   *)

(* What a careful client makes sure of before it issues the statement.     *)
ClientLocked(t, tb, recs) ==
    /\ IsActive(t)
    /\ \A i \in 1..Len(recs) : \A k \in Touches(recs[i]) :
         /\ k \in Key
         /\ [holder |-> t, mode |-> LM!Exclusive] \in locks[<<tb, k>>]

DistinctIds(rows) ==
    /\ \A i \in 1..Len(rows) : rows[i].id # NoId
    /\ \A i, j \in 1..Len(rows) : rows[i].id = rows[j].id => i = j

(* Such clients find tables of that kind.                                  *)
ASSUME FreshAssumption == FreshIds => DistinctIds(InitialRows)

(* fault: a statement is logged whether or not its transaction is active *)
Logs_Always(t) == t \in Begun

(* txn && txn->active().                                                   *)
Logs(t) == IsActive(t)

ChangesLogged ==
    Len(SelectSeq(appended, LAMBDA rec : rec.type = "Data"))
      + FoldLeft(LAMBDA n, txn : IF txn.status = Active THEN n + Len(txn.log) ELSE n,
                 0, txns)

(* The table becomes rows, the changes recs are logged for t.              *)
Execute(t, tb, rows, recs) ==
    /\ LockFirst => ClientLocked(t, tb, recs)
    /\ FreshIds => DistinctIds(rows)
    /\ Len(rows) <= MaxRows
    /\ storage' = Put(storage, tb, rows)
    /\ IF Logs(t)
         THEN /\ ChangesLogged + Len(recs) <= MaxChanges
              /\ txns' = [txns EXCEPT ![t].log = @ \o recs]
         ELSE UNCHANGED txns
    /\ UNCHANGED <<locks, wal>>

(* executeInsert.                                                          *)
ExecuteInsert(t, tb, row) ==
    /\ tb \in DOMAIN storage
    /\ Execute(t, tb, Append(storage[tb], row),
               <<Change(Insert, tb, KeyOf(row), NoRow, row)>>)

(* A WHERE clause is the set of rows it matches: none, one on the id (a    *)
(* row without an id compares like the empty text), one on the value.      *)
Predicate == {Row} \cup {{row \in Row : KeyOf(row) = k} : k \in Key}
                   \cup {{row \in Row : row.val = v} : v \in Val}

(* The rows a WHERE clause matches, in table order.                        *)
Matching(rows, where) == Picked(rows, {i \in DOMAIN rows : rows[i] \in where})

(* SET col = x.                                                            *)
Assigned(row, col, x) == [row EXCEPT ![col] = x]

(* The key of an update is the id the row has after it.                    *)
UpdateRecord(tb, old, new) == Change(Update, tb, KeyOf(new), old, new)

(* executeUpdate: one record per matching row, in table order.             *)
ExecuteUpdate(t, tb, where, col, x) ==
    /\ tb \in DOMAIN storage
    /\ LET rows == storage[tb]
           hits == Matching(rows, where)
       IN  Execute(t, tb,
                   [i \in 1..Len(rows) |->
                      IF rows[i] \in where THEN Assigned(rows[i], col, x) ELSE rows[i]],
                   [i \in 1..Len(hits) |->
                      UpdateRecord(tb, hits[i], Assigned(hits[i], col, x))])

(* executeDelete: the rows that match leave, each with its record.         *)
ExecuteDelete(t, tb, where) ==
    /\ Deletes
    /\ tb \in DOMAIN storage
    /\ LET hits == Matching(storage[tb], where)
       IN  Execute(t, tb, Matching(storage[tb], Row \ where),
                   [i \in 1..Len(hits) |->
                      Change(Delete, tb, KeyOf(hits[i]), hits[i], NoRow)])

(* executeCreateTable.                                                     *)
ExecuteCreateTable(tb) ==
    /\ tb \notin DOMAIN storage
    /\ storage' = Put(storage, tb, <<>>)
    /\ UNCHANGED <<txns, locks, wal>>

(* A write to a table that does not exist throws, and so does creating one *)
(* that does.                                                              *)
WriteThrows(tb)  == tb \notin DOMAIN storage /\ UNCHANGED vars
CreateThrows(tb) == tb \in DOMAIN storage /\ UNCHANGED vars

------------------------------------------------------------------------------
Init ==
    /\ storage = [tb \in Preloaded |-> InitialRows]
    /\ txns = <<>>
    /\ locks = [r \in Resource |-> {}]
    /\ Log!Open(<<>>)
    /\ appended = <<>>

Writers == IF LockFirst THEN ActiveTxns ELSE {0} \cup Begun

Next ==
    \/ Begin
    \/ \E t \in Begun, r \in Resource, m \in Modes : Acquire(t, r, m)
    \/ \E t \in Begun, r \in Resource, m \in Modes : AcquireDenied(t, r, m)
    \/ \E t \in ActiveTxns : Commit(t)
    \/ \E t \in ActiveTxns : Rollback(t)
    \/ \E t \in Begun : EndThrows(t)
    \/ \E t \in Writers, tb \in Table, row \in Row : ExecuteInsert(t, tb, row)
    \/ \E t \in Writers, tb \in Table, where \in Predicate, v \in Val :
         ExecuteUpdate(t, tb, where, "val", v)
    \/ \E t \in Writers, tb \in Table, where \in Predicate, k \in Key :
         Renames /\ ExecuteUpdate(t, tb, where, "id", k)
    \/ \E t \in Writers, tb \in Table, where \in Predicate : ExecuteDelete(t, tb, where)
    \/ \E tb \in Table : ExecuteCreateTable(tb)
    \/ \E tb \in Table : WriteThrows(tb)
    \/ \E tb \in Table : CreateThrows(tb)

Spec == Init /\ [][Next]_vars

------------------------------------------------------------------------------
KeysWritten(t, tb) ==
    UNION {Touches(txns[t].log[i]) :
             i \in {j \in 1..Len(txns[t].log) : txns[t].log[j].table = tb}}

(* Two open transactions never have writes on the same id of a table, so   *)
(* undoing one cannot run over the other.  Needs clients that lock; the    *)
(* executor takes no lock by itself (executor.cpp:187-268).                *)
WriteSetsDisjoint ==
    \A t, u \in ActiveTxns : t # u =>
        \A tb \in Table : KeysWritten(t, tb) \cap KeysWritten(u, tb) = {}

(* What the log is given of a transaction is all it ever did: once it has  *)
(* ended, its records are Begin, its writes in order and its outcome, and  *)
(* no statement issued through the ended transaction adds a write that the *)
(* log will never see (the active() tests of executor.cpp:198, 229, 256).  *)
EndedLogSubmitted ==
    \A t \in Begun : ~IsActive(t) =>
        Picked(appended, {i \in DOMAIN appended : appended[i].txn = t}) =
            <<Mark(t, "Begin")>> \o Data(t)
            \o <<Mark(t, IF txns[t].status = Committed THEN "Commit" ELSE "Abort")>>

(* Whatever clients do, without locks, with ids given twice, changed or    *)
(* left out: a rollback leaves the rows whose id its transaction has not   *)
(* written as they are and in their order (the searches by id of           *)
(* txn_manager.h:74-94).                                                   *)
RollbackSpares ==
    [][\A t \in ActiveTxns : Rollback(t) =>
         \A tb \in DOMAIN storage :
            LET Spared(rows) ==
                  Picked(rows, {i \in DOMAIN rows :
                                   KeyOf(rows[i]) \notin KeysWritten(t, tb)})
            IN  Spared(storage'[tb]) = Spared(storage[tb])]_vars

(* When a transaction has ended, by commit or by rollback, nothing of it   *)
(* is left in the lock table (txn_manager.h:64, 125), however often it     *)
(* asked for the same lock or upgraded it.                                 *)
LocksOfActive ==
    \A r \in Resource : \A e \in locks[r] : IsActive(e.holder)

------------------------------------------------------------------------------
(* The committed database behind the tables.                               *)
Absent == NoRow

Stored(tb, k) ==
    LET i == IF tb \in DOMAIN storage
               THEN SelectInSeq(storage[tb], LAMBDA row : row.id = k) ELSE 0
    IN  IF i = 0 THEN Absent ELSE storage[tb][i].val

(* What id k was worth before the first change a transaction made to it.   *)
Before(t, tb, k) ==
    LET i == SelectInSeq(txns[t].log,
                         LAMBDA rec : rec.table = tb /\ k \in Touches(rec))
        old == txns[t].log[i].old
    IN  IF old # NoRow /\ old.id = k THEN old.val ELSE Absent

Settled(tb, k) ==
    IF \E t \in ActiveTxns : k \in KeysWritten(t, tb)
      THEN Before(CHOOSE t \in ActiveTxns : k \in KeysWritten(t, tb), tb, k)
      ELSE Stored(tb, k)

Database == [id \in Resource |-> Settled(id[1], id[2])]

(* The ids an open transaction has written, and what they are to it.       *)
Written(t) == {id \in Resource : t \in ActiveTxns /\ id[2] \in KeysWritten(t, id[1])}
Pending == [t \in TxnId |-> [id \in Written(t) |-> Stored(id[1], id[2])]]

Store == INSTANCE AtomicStore
           WITH Txn <- TxnId, Id <- Resource, db <- Database, pending <- Pending

(* For clients that lock what they write, keep ids unique and do not       *)
(* delete, the engine is an atomic store: commit publishes all writes of a *)
(* transaction at once, rollback removes all of them, and nobody else's.   *)
ImplementsAtomicStore == Store!Spec

(* README.md:309 calls the transaction manager "the heart of atomicity"    *)
(* and README.md:315 has an update or delete "undone by restoring the      *)
(* recorded oldRow": a rollback leaves the committed database as it was.   *)
RollbackRestores ==
    [][\A t \in ActiveTxns : Rollback(t) => Database' = Database]_vars

(* README.md:312: commit forces "everything to durable storage before      *)
(* acknowledging the commit".                                              *)
CommitDurable ==
    \A t \in Begun : txns[t].status = Committed =>
        \E i \in 1..Len(file) : file[i] = Mark(t, "Commit")
==============================================================================
