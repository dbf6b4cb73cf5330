-------------------------- MODULE TransactionsProofs --------------------------
(***************************************************************************)
(* What Transactions.tla guarantees for any number of transactions, any    *)
(* tables, ids and values and any bounds: the locks of a transaction end   *)
(* with it, transactions that lock what they write never write the same    *)
(* id, the log is given all a transaction did, and a rollback leaves the   *)
(* rows alone that its transaction has not written.  For clients that lock *)
(* what they write, keep ids unique and do not delete, the whole is the    *)
(* abstract store of AtomicStore.tla.                                      *)
(***************************************************************************)
EXTENDS Transactions, DataFacts

------------------------------------------------------------------------------
(* The undo loop of rollback.  undoTable is the recursive function behind  *)
(* FoldRight, for the changes of log at the positions in T.                *)
undoTable(g, T, log, st) ==
    g = [s \in SUBSET T |-> IF s = {} THEN st
                            ELSE UndoChange(log[Min(s)], g[s \ {Min(s)}])]

(* FoldRight is the value of that function at all positions.               *)
LEMMA FoldIsTable ==
    ASSUME NEW log, NEW st
    PROVE  FoldRight(UndoChange, log, st) =
             (CHOOSE g : undoTable(g, DOMAIN log, log, st))[DOMAIN log]
  BY DEF FoldRight, MapThenFoldSet, undoTable

(* Min finds the least of a set of positions.                              *)
LEMMA MinIsLeast ==
    ASSUME NEW s \in SUBSET Nat, s # {}
    PROVE  Min(s) \in s /\ \A y \in s : Min(s) <= y
  BY LeastNumber DEF Min

(* Such a function exists: it is built from the last position to the first,*)
(* because the least position of a set is taken out first.                 *)
LEMMA TableExists ==
    ASSUME NEW n \in Nat, NEW log, NEW st
    PROVE  \E g : undoTable(g, 1..n, log, st)
<1> DEFINE A == {k \in Nat : k <= n => \E g : undoTable(g, (n + 1 - k)..n, log, st)}
<1>1. 0 \in A
  <2> DEFINE g == [s \in SUBSET {} |-> st]
  <2>1. (n + 1 - 0)..n = {}
    OBVIOUS
  <2>2. undoTable(g, {}, log, st)
    BY DEF undoTable
  <2> QED
    BY <2>1, <2>2
<1>2. ASSUME NEW k \in Nat, k \in A PROVE k + 1 \in A
  <2> SUFFICES ASSUME k + 1 <= n
               PROVE  \E g : undoTable(g, (n + 1 - (k + 1))..n, log, st)
    OBVIOUS
  <2> DEFINE m == n - k
             T == (m + 1)..n
             U == m..n
  <2>1. /\ m \in Nat /\ m <= n /\ n + 1 - (k + 1) = m /\ n + 1 - k = m + 1
        /\ k <= n
    OBVIOUS
  <2>2. PICK g : undoTable(g, T, log, st)
    BY <1>2, <2>1
  <2>3. U = T \cup {m} /\ m \notin T /\ U \subseteq Nat
    BY <2>1
  <2> DEFINE h == [s \in SUBSET U |->
                     IF m \in s THEN UndoChange(log[m], g[s \ {m}]) ELSE g[s]]
  <2>4. ASSUME NEW s \in SUBSET U
        PROVE  h[s] = IF s = {} THEN st ELSE UndoChange(log[Min(s)], h[s \ {Min(s)}])
    <3>1. CASE s = {}
      <4>1. g[{}] = st
        BY <2>2 DEF undoTable
      <4> QED
        BY <3>1, <4>1
    <3>2. CASE m \in s
      <4>1. Min(s) \in s /\ \A y \in s : Min(s) <= y
        BY <2>3, <3>2, MinIsLeast
      <4>2. \A y \in U : m <= y
        BY <2>1
      <4>3. Min(s) = m
        <5>1. Min(s) <= m /\ m <= Min(s) /\ Min(s) \in Nat
          BY <2>3, <3>2, <4>1, <4>2
        <5> QED
          BY <2>1, <5>1
      <4>4. s \ {m} \in SUBSET U /\ m \notin s \ {m}
        OBVIOUS
      <4>5. h[s \ {m}] = g[s \ {m}]
        BY <4>4
      <4> QED
        BY <3>2, <4>3, <4>5
    <3>3. CASE s # {} /\ m \notin s
      <4>1. s \in SUBSET T /\ s \ {Min(s)} \in SUBSET U /\ m \notin s \ {Min(s)}
        BY <2>3, <3>3
      <4>2. g[s] = UndoChange(log[Min(s)], g[s \ {Min(s)}])
        BY <2>2, <3>3, <4>1 DEF undoTable
      <4>3. h[s] = g[s] /\ h[s \ {Min(s)}] = g[s \ {Min(s)}]
        BY <3>3, <4>1
      <4> QED
        BY <3>3, <4>2, <4>3
    <3> QED
      BY <3>1, <3>2, <3>3
  <2>5. undoTable(h, U, log, st)
    <3>1. h = [s \in SUBSET U |-> h[s]]
      OBVIOUS
    <3> HIDE DEF h, U
    <3> QED
      BY <2>4, <3>1 DEF undoTable
  <2> QED
    BY <2>1, <2>5
<1>3. n \in A
  <2> HIDE DEF A
  <2> QED
    BY <1>1, <1>2, SetInduction
<1>4. n <= n /\ n + 1 - n = 1
  OBVIOUS
<1> QED
  BY <1>3, <1>4

(* P[i] holds the tables as they may be when the first i changes are still *)
(* to be undone: if each round leads from P[i] to P[i - 1], the whole loop *)
(* leads to P[0].                                                          *)
LEMMA UndoPasses ==
    ASSUME NEW S, NEW log \in Seq(S), NEW P, NEW st \in P[Len(log)],
           \A i \in 1..Len(log) : \A s \in P[i] : UndoChange(log[i], s) \in P[i - 1]
    PROVE  FoldRight(UndoChange, log, st) \in P[0]
<1>1. PICK n \in Nat : n = Len(log) /\ DOMAIN log = 1..n
  BY LenProperties
<1> DEFINE g == CHOOSE h : undoTable(h, DOMAIN log, log, st)
           A == {k \in Nat : k <= n => g[(n + 1 - k)..n] \in P[n - k]}
<1>2. undoTable(g, 1..n, log, st)
  BY <1>1, TableExists
<1> HIDE DEF g
<1>3. 0 \in A
  <2>1. (n + 1 - 0)..n = {}
    BY <1>1
  <2>2. g[{}] = st
    BY <1>2 DEF undoTable
  <2>3. n - 0 = n /\ st \in P[n]
    BY <1>1
  <2> QED
    BY <2>1, <2>2, <2>3
<1>4. ASSUME NEW k \in Nat, k \in A PROVE k + 1 \in A
  <2> SUFFICES ASSUME k + 1 <= n PROVE g[(n + 1 - (k + 1))..n] \in P[n - (k + 1)]
    OBVIOUS
  <2> DEFINE m == n - k
             U == m..n
  <2>0. m \in Nat /\ 1 <= m /\ m <= n /\ k <= n
    BY <1>1
  <2>1. /\ m \in 1..n /\ n + 1 - (k + 1) = m /\ n + 1 - k = m + 1 /\ k <= n
        /\ m \in U /\ U \in SUBSET (1..n) /\ \A y \in U : m <= y
    <3>1. \A y \in U : y \in 1..n /\ m <= y
      BY <1>1, <2>0
    <3>2. m \in 1..n /\ n + 1 - (k + 1) = m /\ n + 1 - k = m + 1 /\ m \in U
      BY <1>1, <2>0
    <3> HIDE DEF m
    <3> QED
      BY <2>0, <3>1, <3>2
  <2>2. U \ {m} = (m + 1)..n
    BY <2>0
  <2>3. Min(U) = m
    <3>1. U \in SUBSET Nat /\ U # {}
      <4>1. \A y \in 1..n : y \in Nat
        OBVIOUS
      <4> HIDE DEF U
      <4> QED
        BY <2>1, <4>1
    <3>2. Min(U) \in U /\ Min(U) <= m /\ m <= Min(U)
      BY <2>1, <3>1, MinIsLeast
    <3>3. m \in Int /\ Min(U) \in Int
      BY <2>1, <3>2
    <3> QED
      BY <3>2, <3>3
  <2>4. g[U] = UndoChange(log[m], g[U \ {m}])
    BY <1>2, <2>1, <2>3 DEF undoTable
  <2>5. g[U \ {m}] \in P[m]
    BY <1>4, <2>1, <2>2
  <2>6. \A s \in P[m] : UndoChange(log[m], s) \in P[m - 1]
    BY <1>1, <2>1
  <2>7. g[U] \in P[m - 1]
    BY <2>4, <2>5, <2>6
  <2>8. n - (k + 1) = m - 1
    BY <1>1, <2>0
  <2> QED
    BY <2>1, <2>7, <2>8
<1>5. n \in A
  <2> HIDE DEF A
  <2> QED
    BY <1>1, <1>3, <1>4, SetInduction
<1>6. n <= n /\ n + 1 - n = 1 /\ n - n = 0
  BY <1>1
<1>7. g[1..n] \in P[0]
  BY <1>5, <1>6
<1> QED
  BY <1>1, <1>7, FoldIsTable DEF g

(* What every single undo step keeps, the whole loop keeps.                *)
LEMMA UndoKeeps ==
    ASSUME NEW S, NEW log \in Seq(S), NEW P, NEW st \in P,
           \A i \in 1..Len(log), s \in P : UndoChange(log[i], s) \in P
    PROVE  FoldRight(UndoChange, log, st) \in P
<1>1. Len(log) \in Nat
  BY LenProperties
<1> DEFINE Q == [i \in 0..Len(log) |-> P]
<1>2. /\ \A i \in 0..Len(log) : Q[i] = P
      /\ 0 \in 0..Len(log) /\ Len(log) \in 0..Len(log)
      /\ \A i \in 1..Len(log) : i \in 0..Len(log) /\ i - 1 \in 0..Len(log)
  BY <1>1
<1> HIDE DEF Q
<1>3. \A i \in 1..Len(log) : \A s \in Q[i] : UndoChange(log[i], s) \in Q[i - 1]
  BY <1>2
<1>4. FoldRight(UndoChange, log, st) \in Q[0]
  BY <1>2, <1>3, UndoPasses
<1> QED
  BY <1>2, <1>4

------------------------------------------------------------------------------
(* Well-typed states.  A record of an insert has no old row, the records   *)
(* of updates and deletes have one.                                        *)
Record ==
    {rec \in [type : {Insert, Update, Delete}, table : Table,
              key : Key \cup {EmptyKey}, old : Row \cup {NoRow}, new : Row \cup {NoRow}] :
        rec.type = Insert <=> rec.old = NoRow}

Tables  == UNION {[D -> Seq(Row)] : D \in SUBSET Table}
TxnRec  == [status : {Active, Committed, Aborted}, log : Seq(Record)]
LogRec  == [txn : Nat, type : {"Begin", "Commit", "Abort"}]
             \cup [txn : Nat, type : {"Data"}, change : Record]
Entry   == [holder : Nat, mode : LM!LockMode]

TypeOK ==
    /\ storage \in Tables
    /\ txns \in Seq(TxnRec)
    /\ locks \in [Resource -> SUBSET Entry]
    /\ appended \in Seq(LogRec)

(* The rows of a table that may not be there.                              *)
LEMMA RowsOfType ==
    ASSUME NEW st \in Tables, NEW tb \in Table
    PROVE  RowsOf(st, tb) \in Seq(Row)
<1>1. PICK D \in SUBSET Table : st \in [D -> Seq(Row)]
  BY DEF Tables
<1>2. <<>> \in Seq(Row)
  BY EmptySeq
<1> QED
  BY <1>1, <1>2 DEF RowsOf

(* Putting rows in a table keeps the tables well typed.                    *)
LEMMA PutType ==
    ASSUME NEW st \in Tables, NEW tb \in Table, NEW rows \in Seq(Row)
    PROVE  Put(st, tb, rows) \in Tables
<1>1. PICK D \in SUBSET Table : st \in [D -> Seq(Row)]
  BY DEF Tables
<1>2. D \cup {tb} \in SUBSET Table
  OBVIOUS
<1>3. Put(st, tb, rows) \in [D \cup {tb} -> Seq(Row)]
  BY <1>1 DEF Put
<1> QED
  BY <1>2, <1>3 DEF Tables

(* Erasing rows and collecting rows leave rows.                            *)
LEMMA EraseType ==
    ASSUME NEW rows \in Seq(Row), NEW k
    PROVE  EraseId(rows, k) \in Seq(Row)
<1>1. {i \in DOMAIN rows : rows[i].id = NoId \/ rows[i].id # k} \in SUBSET (1..Len(rows))
  BY LenProperties
<1> QED
  BY <1>1, PickedSeq DEF EraseId

(* One round of the undo loop keeps the tables well typed.                 *)
LEMMA UndoType ==
    ASSUME NEW rec \in Record, NEW st \in Tables
    PROVE  UndoChange(rec, st) \in Tables
<1> DEFINE rows == RowsOf(st, rec.table)
           i    == SelectInSeq(rows, LAMBDA row : row.id # NoId /\ row.id = rec.key)
           left == IF rec.type = Insert THEN EraseId(rows, rec.key)
                   ELSE IF i = 0 THEN rows ELSE [rows EXCEPT ![i] = rec.old]
<1>1. rec.table \in Table /\ rows \in Seq(Row)
  BY RowsOfType DEF Record
<1>2. i = 0 \/ i \in 1..Len(rows)
  <2> DEFINE I == {j \in 1..Len(rows) : rows[j].id # NoId /\ rows[j].id = rec.key}
  <2>1. i = IF I # {} THEN Min(I) ELSE 0
    BY DEF SelectInSeq
  <2>2. I \in SUBSET Nat /\ I \subseteq 1..Len(rows)
    OBVIOUS
  <2> HIDE DEF I, i
  <2>3. CASE I # {}
    BY <2>1, <2>2, <2>3, MinIsLeast
  <2> QED
    BY <2>1, <2>3
<1>3. left \in Seq(Row)
  <2>1. CASE rec.type = Insert
    BY <1>1, <2>1, EraseType
  <2>2. CASE rec.type # Insert /\ i # 0
    <3>1. rec.old \in Row
      BY <2>2 DEF Record
    <3> HIDE DEF rows, i
    <3>2. [rows EXCEPT ![i] = rec.old] \in Seq(Row)
      BY <1>1, <1>2, <2>2, <3>1, ExceptSeq
    <3> QED
      BY <2>2, <3>2
  <2> QED
    BY <1>1, <2>1, <2>2
<1>4. UndoChange(rec, st) = Put(st, rec.table, left)
  BY DEF UndoChange
<1> HIDE DEF left, rows
<1> QED
  BY <1>1, <1>3, <1>4, PutType

(* A transaction that has begun has a status and a log of records.         *)
LEMMA TxnType ==
    ASSUME TypeOK, NEW t \in Begun
    PROVE  /\ txns[t] \in TxnRec
           /\ txns[t].log \in Seq(Record)
           /\ \A i \in 1..Len(txns[t].log) : txns[t].log[i] \in Record
<1>1. txns \in Seq(TxnRec) /\ t \in 1..Len(txns)
  BY DEF TypeOK, Begun
<1>2. txns[t] \in TxnRec
  BY <1>1, ElementOfSeq
<1>3. txns[t].log \in Seq(Record)
  BY <1>2 DEF TxnRec
<1> QED
  BY <1>2, <1>3, ElementOfSeq

(* So does a rollback.                                                     *)
LEMMA UndoneType ==
    ASSUME TypeOK, NEW t \in Begun
    PROVE  Undone(t) \in Tables
<1>1. \A i \in 1..Len(txns[t].log), st \in Tables :
        UndoChange(txns[t].log[i], st) \in Tables
  BY TxnType, UndoType
<1>2. storage \in Tables /\ txns[t].log \in Seq(Record)
  BY TxnType DEF TypeOK
<1> QED
  BY <1>1, <1>2, UndoKeeps DEF Undone

------------------------------------------------------------------------------
(* A statement that leaves rows in the table and writes records keeps the  *)
(* state well typed.                                                       *)
LEMMA ExecuteType ==
    ASSUME TypeOK, NEW t, NEW tb \in Table, NEW rows \in Seq(Row),
           NEW recs \in Seq(Record), Execute(t, tb, rows, recs)
    PROVE  TypeOK'
<1>1. storage' \in Tables /\ locks' = locks /\ appended' = appended
  BY PutType DEF Execute, TypeOK, wal
<1>2. txns' \in Seq(TxnRec)
  <2>1. CASE Logs(t)
    <3>1. t \in Begun /\ txns' = [txns EXCEPT ![t].log = @ \o recs]
      BY <2>1 DEF Logs, IsActive, Execute
    <3>2. txns[t] \in TxnRec /\ txns[t].log \in Seq(Record)
      BY <3>1, TxnType
    <3>3. txns[t].log \o recs \in Seq(Record)
      BY <3>2, ConcatProperties
    <3>4. [txns[t] EXCEPT !.log = @ \o recs] \in TxnRec
      BY <3>2, <3>3 DEF TxnRec
    <3>5. txns' = [txns EXCEPT ![t] = [txns[t] EXCEPT !.log = @ \o recs]]
      BY <3>1
    <3> QED
      BY <3>1, <3>4, <3>5, ExceptSeq DEF TypeOK, Begun
  <2>2. CASE ~Logs(t)
    BY <2>2 DEF Execute, TypeOK
  <2> QED
    BY <2>1, <2>2
<1> QED
  BY <1>1, <1>2 DEF TypeOK

(* The rows a clause matches are rows of the table.                        *)
LEMMA MatchingType ==
    ASSUME NEW rows \in Seq(Row), NEW where
    PROVE  /\ Matching(rows, where) \in Seq(Row)
           /\ \A i \in 1..Len(Matching(rows, where)) : Matching(rows, where)[i] \in where
<1> DEFINE I == {i \in DOMAIN rows : rows[i] \in where}
<1>1. I \in SUBSET (1..Len(rows))
  BY LenProperties
<1>2. \A i \in I : rows[i] \in where
  OBVIOUS
<1> HIDE DEF I
<1>3. /\ Picked(rows, I) \in Seq(Row)
      /\ \A i \in 1..Len(Picked(rows, I)) : Picked(rows, I)[i] \in where
  <2>1. /\ Picked(rows, I) \in Seq(Row)
        /\ Len(Picked(rows, I)) = Cardinality(I)
        /\ \A n \in 1..Cardinality(I) :
              NthOf(I, n) \in I /\ Picked(rows, I)[n] = rows[NthOf(I, n)]
    BY <1>1, PickedSeq
  <2> QED
    BY <1>2, <2>1
<1> QED
  BY <1>3 DEF Matching, I

(* The record of a change is a record.                                     *)
LEMMA ChangeType ==
    ASSUME NEW tb \in Table, NEW row \in Row, NEW new \in Row
    PROVE  /\ KeyOf(row) \in Key \cup {EmptyKey}
           /\ Change(Insert, tb, KeyOf(row), NoRow, row) \in Record
           /\ Change(Delete, tb, KeyOf(row), row, NoRow) \in Record
           /\ UpdateRecord(tb, row, new) \in Record
<1>1. \A r \in Row : KeyOf(r) \in Key \cup {EmptyKey} /\ r # NoRow
  BY RowsAssumption DEF KeyOf, Row
<1>2. ASSUME NEW type \in {Insert, Update, Delete}, NEW key \in Key \cup {EmptyKey},
             NEW old \in Row \cup {NoRow}, NEW after \in Row \cup {NoRow},
             type = Insert <=> old = NoRow
      PROVE  Change(type, tb, key, old, after) \in Record
  BY <1>2 DEF Change, Record
<1>3. Insert # Update /\ Insert # Delete
  BY DEF Insert, Update, Delete
<1> QED
  BY <1>1, <1>2, <1>3 DEF UpdateRecord

(* What any writing statement does: rows for its table, records about it.  *)
Executes(t, tb) ==
    \E rows \in Seq(Row), recs \in Seq(Record) :
        /\ \A i \in 1..Len(recs) : recs[i].table = tb
        /\ Execute(t, tb, rows, recs)

(* An insert.                                                              *)
LEMMA InsertExecutes ==
    ASSUME TypeOK, NEW t, NEW tb \in Table, NEW row \in Row, ExecuteInsert(t, tb, row)
    PROVE  Executes(t, tb)
<1> DEFINE recs == <<Change(Insert, tb, KeyOf(row), NoRow, row)>>
<1>1. storage[tb] \in Seq(Row)
  BY DEF ExecuteInsert, TypeOK, Tables
<1>2. Append(storage[tb], row) \in Seq(Row)
  BY <1>1, AppendProperties
<1>3. recs \in Seq(Record)
  BY ChangeType
<1>4. Execute(t, tb, Append(storage[tb], row), recs)
  BY DEF ExecuteInsert
<1>5. \A i \in 1..Len(recs) : recs[i].table = tb
  BY DEF Change
<1> QED
  BY <1>2, <1>3, <1>4, <1>5 DEF Executes

(* An update of a column to a value the column may hold.                   *)
LEMMA UpdateExecutes ==
    ASSUME TypeOK, NEW t, NEW tb \in Table, NEW where \in SUBSET Row,
           NEW col, NEW x, ExecuteUpdate(t, tb, where, col, x),
           \A row \in Row : Assigned(row, col, x) \in Row
    PROVE  Executes(t, tb)
<1> DEFINE rows == storage[tb]
           hits == Matching(rows, where)
           left == [i \in 1..Len(rows) |->
                      IF rows[i] \in where THEN Assigned(rows[i], col, x) ELSE rows[i]]
           recs == [i \in 1..Len(hits) |->
                      UpdateRecord(tb, hits[i], Assigned(hits[i], col, x))]
<1>1. rows \in Seq(Row)
  BY DEF ExecuteUpdate, TypeOK, Tables
<1>2. hits \in Seq(Row) /\ Len(hits) \in Nat /\ \A i \in 1..Len(hits) : hits[i] \in Row
  <2> HIDE DEF rows
  <2>1. hits \in Seq(Row)
    BY <1>1, MatchingType
  <2> HIDE DEF hits
  <2> QED
    BY <2>1, LenProperties, ElementOfSeq
<1>3. left \in Seq(Row)
  <2> HIDE DEF rows
  <2>1. Len(rows) \in Nat /\ \A i \in 1..Len(rows) : rows[i] \in Row
    BY <1>1, LenProperties, ElementOfSeq
  <2>2. left \in [1..Len(rows) -> Row]
    BY <2>1
  <2> QED
    BY <2>1, <2>2, SeqDef
<1>4. recs \in Seq(Record)
  <2> HIDE DEF hits
  <2>1. \A i \in 1..Len(hits) : UpdateRecord(tb, hits[i], Assigned(hits[i], col, x)) \in Record
    BY <1>2, ChangeType
  <2>2. recs \in [1..Len(hits) -> Record]
    BY <2>1
  <2> QED
    BY <1>2, <2>2, SeqDef
<1>5. Execute(t, tb, left, recs)
  BY DEF ExecuteUpdate
<1>6. \A i \in 1..Len(recs) : recs[i].table = tb
  BY <1>2 DEF UpdateRecord, Change
<1> HIDE DEF left, recs
<1> QED
  BY <1>3, <1>4, <1>5, <1>6 DEF Executes

(* A delete.                                                               *)
LEMMA DeleteExecutes ==
    ASSUME TypeOK, NEW t, NEW tb \in Table, NEW where \in SUBSET Row,
           ExecuteDelete(t, tb, where)
    PROVE  Executes(t, tb)
<1> DEFINE rows == storage[tb]
           hits == Matching(rows, where)
           left == Matching(rows, Row \ where)
           recs == [i \in 1..Len(hits) |->
                      Change(Delete, tb, KeyOf(hits[i]), hits[i], NoRow)]
<1>1. rows \in Seq(Row)
  BY DEF ExecuteDelete, TypeOK, Tables
<1>2. left \in Seq(Row)
  <2> HIDE DEF rows
  <2> QED
    BY <1>1, MatchingType
<1>3. hits \in Seq(Row) /\ Len(hits) \in Nat /\ \A i \in 1..Len(hits) : hits[i] \in Row
  <2> HIDE DEF rows
  <2>1. hits \in Seq(Row)
    BY <1>1, MatchingType
  <2> HIDE DEF hits
  <2> QED
    BY <2>1, LenProperties, ElementOfSeq
<1>4. recs \in Seq(Record)
  <2> HIDE DEF hits
  <2>1. \A i \in 1..Len(hits) : Change(Delete, tb, KeyOf(hits[i]), hits[i], NoRow) \in Record
    BY <1>3, ChangeType
  <2>2. recs \in [1..Len(hits) -> Record]
    BY <2>1
  <2> QED
    BY <1>3, <2>2, SeqDef
<1>5. Execute(t, tb, left, recs)
  BY DEF ExecuteDelete
<1>6. \A i \in 1..Len(recs) : recs[i].table = tb
  BY <1>3 DEF Change
<1> HIDE DEF left, recs
<1> QED
  BY <1>2, <1>4, <1>5, <1>6 DEF Executes

(* The log records of a transaction are log records.                       *)
LEMMA DataType ==
    ASSUME TypeOK, NEW t \in Begun
    PROVE  /\ Data(t) \in Seq(LogRec)
           /\ Len(Data(t)) = Len(txns[t].log)
           /\ \A type \in {"Begin", "Commit", "Abort"} :
                Mark(t, type) \in LogRec /\ Append(Data(t), Mark(t, type)) \in Seq(LogRec)
<1>1. t \in Nat
  <2>1. Len(txns) \in Nat
    BY LenProperties DEF TypeOK
  <2> QED
    BY <2>1 DEF Begun
<1>2. Len(txns[t].log) \in Nat
  BY TxnType, LenProperties
<1>3. \A i \in 1..Len(txns[t].log) :
        [txn |-> t, type |-> "Data", change |-> txns[t].log[i]] \in LogRec
  BY <1>1, TxnType DEF LogRec
<1>4. Data(t) \in [1..Len(txns[t].log) -> LogRec]
  BY <1>3 DEF Data
<1>5. Data(t) \in Seq(LogRec)
  BY <1>2, <1>4, SeqDef
<1>6. \A type \in {"Begin", "Commit", "Abort"} : Mark(t, type) \in LogRec
  BY <1>1 DEF Mark, LogRec
<1>7. Len(Data(t)) = Len(txns[t].log)
  BY <1>2 DEF Data
<1> QED
  BY <1>5, <1>6, <1>7, AppendProperties

(* The steps of Next, the statements reduced to what they execute.         *)
LEMMA StepKinds ==
    ASSUME TypeOK, [Next]_vars
    PROVE  \/ Begin
           \/ \E t \in Begun, r \in Resource, m \in LM!LockMode : Acquire(t, r, m)
           \/ \E t \in ActiveTxns : Commit(t)
           \/ \E t \in ActiveTxns : Rollback(t)
           \/ \E t \in Writers, tb \in Table : Executes(t, tb)
           \/ \E tb \in Table : ExecuteCreateTable(tb)
           \/ UNCHANGED vars
<1>1. ASSUME NEW t \in Begun, NEW r \in Resource, NEW m \in Modes, Acquire(t, r, m)
      PROVE  \E u \in Begun, q \in Resource, n \in LM!LockMode : Acquire(u, q, n)
  <2>1. m \in LM!LockMode
    BY TransactionsAssumption DEF LM!LockMode, LM!Shared, LM!Exclusive
  <2> QED
    BY <1>1, <2>1
<1>2. \A where \in Predicate : where \in SUBSET Row
  BY DEF Predicate
<1>3. ASSUME NEW t \in Writers, NEW tb \in Table, NEW where \in Predicate, NEW v \in Val,
             ExecuteUpdate(t, tb, where, "val", v)
      PROVE  Executes(t, tb)
  <2>1. \A row \in Row : Assigned(row, "val", v) \in Row
    BY DEF Assigned, Row
  <2> QED
    BY <1>2, <1>3, <2>1, UpdateExecutes
<1>4. ASSUME NEW t \in Writers, NEW tb \in Table, NEW where \in Predicate, NEW k \in Key,
             ExecuteUpdate(t, tb, where, "id", k)
      PROVE  Executes(t, tb)
  <2>1. \A row \in Row : Assigned(row, "id", k) \in Row
    BY DEF Assigned, Row
  <2> QED
    BY <1>2, <1>4, <2>1, UpdateExecutes
<1>5. ASSUME NEW t \in Writers, NEW tb \in Table, NEW where \in Predicate,
             ExecuteDelete(t, tb, where)
      PROVE  Executes(t, tb)
  BY <1>2, <1>5, DeleteExecutes
<1>6. ASSUME NEW t \in Writers, NEW tb \in Table, NEW row \in Row,
             ExecuteInsert(t, tb, row)
      PROVE  Executes(t, tb)
  BY <1>6, InsertExecutes
<1> QED
  BY <1>1, <1>3, <1>4, <1>5, <1>6
     DEF Next, AcquireDenied, EndThrows, WriteThrows, CreateThrows

(* Types are kept.                                                         *)
LEMMA TypeStep ==
    ASSUME TypeOK, [Next]_vars
    PROVE  TypeOK'
<1>1. CASE Begin
  <2>1. Len(txns) \in Nat
    BY LenProperties DEF TypeOK
  <2>2. [status |-> Active, log |-> <<>>] \in TxnRec
    BY EmptySeq DEF TxnRec
  <2>3. Mark(Len(txns) + 1, "Begin") \in LogRec
    BY <2>1 DEF Mark, LogRec
  <2>4. txns' \in Seq(TxnRec) /\ appended' \in Seq(LogRec)
    BY <1>1, <2>2, <2>3, AppendProperties DEF Begin, TypeOK
  <2> QED
    BY <1>1, <2>4 DEF Begin, TypeOK
<1>2. ASSUME NEW t \in Begun, NEW r \in Resource, NEW m \in LM!LockMode, Acquire(t, r, m)
      PROVE  TypeOK'
  <2>1. t \in Nat
    <3>1. Len(txns) \in Nat
      BY LenProperties DEF TypeOK
    <3> QED
      BY <3>1 DEF Begun
  <2>2. [holder |-> t, mode |-> m] \in Entry
    BY <2>1 DEF Entry
  <2>3. locks' \in [Resource -> SUBSET Entry]
    BY <1>2, <2>2 DEF Acquire, LM!Entered, TypeOK
  <2> QED
    BY <1>2, <2>3 DEF Acquire, TypeOK, wal
<1>3. ASSUME NEW t \in ActiveTxns, NEW outcome \in {"Commit", "Abort"},
             NEW status \in {Committed, Aborted},
             storage' \in Tables, locks' = LM!Released(t),
             txns' = [txns EXCEPT ![t].status = status],
             AppendAndFlush(Append(Data(t), Mark(t, outcome)))
      PROVE  TypeOK'
  <2>1. t \in Begun /\ t \in 1..Len(txns)
    BY DEF ActiveTxns, Begun
  <2>2. txns' \in Seq(TxnRec)
    <3>1. txns[t] \in TxnRec
      BY <2>1, TxnType
    <3>2. [txns[t] EXCEPT !.status = status] \in TxnRec
      BY <3>1 DEF TxnRec
    <3>3. txns' = [txns EXCEPT ![t] = [txns[t] EXCEPT !.status = status]]
      BY <1>3
    <3> QED
      BY <2>1, <3>2, <3>3, ExceptSeq DEF TypeOK
  <2>3. appended' \in Seq(LogRec)
    BY <1>3, <2>1, DataType, ConcatProperties DEF AppendAndFlush, TypeOK
  <2>4. locks' \in [Resource -> SUBSET Entry]
    BY <1>3 DEF LM!Released, TypeOK
  <2> QED
    BY <1>3, <2>2, <2>3, <2>4 DEF TypeOK
<1>4. ASSUME NEW t \in ActiveTxns, Commit(t) PROVE TypeOK'
  BY <1>3, <1>4 DEF Commit, TypeOK
<1>5. ASSUME NEW t \in ActiveTxns, Rollback(t) PROVE TypeOK'
  BY <1>3, <1>5, UndoneType DEF Rollback, ActiveTxns
<1>6. ASSUME NEW t \in Writers, NEW tb \in Table, Executes(t, tb) PROVE TypeOK'
  BY <1>6, ExecuteType DEF Executes
<1>7. ASSUME NEW tb \in Table, ExecuteCreateTable(tb) PROVE TypeOK'
  BY <1>7, PutType, EmptySeq DEF ExecuteCreateTable, TypeOK, wal
<1>8. CASE UNCHANGED vars
  BY <1>8 DEF vars, wal, TypeOK
<1> QED
  BY <1>1, <1>2, <1>4, <1>5, <1>6, <1>7, <1>8, StepKinds

(* The tables, transactions, locks and log records stay what they are.     *)
THEOREM TypeCorrect == Spec => []TypeOK
<1>1. Init => TypeOK
  <2> SUFFICES ASSUME Init PROVE TypeOK
    OBVIOUS
  <2>1. storage \in [Preloaded -> Seq(Row)] /\ Preloaded \in SUBSET Table
    BY TransactionsAssumption DEF Init
  <2>2. txns \in Seq(TxnRec) /\ appended \in Seq(LogRec)
    BY EmptySeq DEF Init
  <2>3. locks \in [Resource -> SUBSET Entry]
    BY DEF Init
  <2> QED
    BY <2>1, <2>2, <2>3 DEF TypeOK, Tables
<1>2. TypeOK /\ [Next]_vars => TypeOK'
  BY TypeStep
<1> QED
  BY <1>1, <1>2, PTL DEF Spec

------------------------------------------------------------------------------
(* A step changes the status of at most one transaction, and only a begin  *)
(* adds one.                                                               *)
LEMMA StatusKept ==
    ASSUME TypeOK, NEW t, NEW tb \in Table, Executes(t, tb)
    PROVE  /\ Len(txns') = Len(txns)
           /\ \A u \in Begun : IsActive(u)' <=> IsActive(u)
           /\ ActiveTxns' = ActiveTxns
           /\ locks' = locks /\ wal' = wal
<1>1. PICK rows \in Seq(Row), recs \in Seq(Record) : Execute(t, tb, rows, recs)
  BY DEF Executes
<1>2. txns \in Seq(TxnRec) /\ DOMAIN txns = Begun
  BY LenProperties DEF TypeOK, Begun
<1>3. /\ Len(txns') = Len(txns)
      /\ \A u \in Begun : txns'[u].status = txns[u].status
  <2>1. CASE Logs(t)
    <3>1. t \in Begun /\ txns' = [txns EXCEPT ![t].log = @ \o recs]
      BY <1>1, <2>1 DEF Logs, IsActive, Execute
    <3>2. Len(txns') = Len(txns)
      BY <1>2, <3>1
    <3>3. \A u \in Begun : txns'[u].status = txns[u].status
      <4>1. \A u \in Begun : txns[u] \in TxnRec
        BY TxnType
      <4> QED
        BY <1>2, <3>1, <4>1 DEF TxnRec
    <3> QED
      BY <3>2, <3>3
  <2>2. CASE ~Logs(t)
    BY <1>1, <2>2 DEF Execute
  <2> QED
    BY <2>1, <2>2
<1>4. Begun' = Begun
  BY <1>3 DEF Begun
<1>5. \A u \in Begun : IsActive(u)' <=> IsActive(u)
  BY <1>3, <1>4 DEF IsActive
<1>6. ActiveTxns' = ActiveTxns
  BY <1>3, <1>4 DEF ActiveTxns
<1> QED
  BY <1>1, <1>3, <1>5, <1>6 DEF Execute, wal

(* The end of a transaction, seen from the others.                         *)
LEMMA StatusEnds ==
    ASSUME TypeOK, NEW t \in ActiveTxns, NEW status \in {Committed, Aborted},
           txns' = [txns EXCEPT ![t].status = status]
    PROVE  /\ Len(txns') = Len(txns) /\ Begun' = Begun
           /\ \A u \in Begun : /\ txns'[u].log = txns[u].log
                               /\ txns'[u].status = IF u = t THEN status ELSE txns[u].status
                               /\ IsActive(u)' <=> IsActive(u) /\ u # t
           /\ ActiveTxns' = ActiveTxns \ {t}
<1>1. txns \in Seq(TxnRec) /\ DOMAIN txns = Begun /\ t \in Begun
  BY LenProperties DEF TypeOK, Begun, ActiveTxns
<1>2. Len(txns') = Len(txns) /\ Begun' = Begun
  BY <1>1 DEF Begun
<1>3. \A u \in Begun : txns[u] \in TxnRec
  BY TxnType
<1>4. \A u \in Begun : /\ txns'[u].log = txns[u].log
                       /\ txns'[u].status = IF u = t THEN status ELSE txns[u].status
  BY <1>1, <1>3 DEF TxnRec
<1>5. status # Active
  BY DEF Committed, Aborted, Active
<1>6. \A u \in Begun : IsActive(u)' <=> IsActive(u) /\ u # t
  BY <1>2, <1>4, <1>5 DEF IsActive
<1>7. ActiveTxns' = ActiveTxns \ {t}
  BY <1>2, <1>4, <1>5 DEF ActiveTxns
<1> QED
  BY <1>2, <1>4, <1>6, <1>7

(* A begin adds an active transaction with an empty log.                   *)
LEMMA BeginAdds ==
    ASSUME TypeOK, Begin
    PROVE  /\ Len(txns) \in Nat /\ Len(txns') = Len(txns) + 1
           /\ Begun' = Begun \cup {Len(txns) + 1} /\ Len(txns) + 1 \notin Begun
           /\ \A u \in Begun : txns'[u] = txns[u] /\ (IsActive(u)' <=> IsActive(u))
           /\ txns'[Len(txns) + 1] = [status |-> Active, log |-> <<>>]
           /\ ActiveTxns' = ActiveTxns \cup {Len(txns) + 1}
<1> DEFINE n == Len(txns)
           new == [status |-> Active, log |-> <<>>]
<1>1. new \in TxnRec /\ txns \in Seq(TxnRec) /\ n \in Nat
  BY EmptySeq, LenProperties DEF TxnRec, TypeOK
<1>2. txns' = Append(txns, new)
  BY DEF Begin
<1>3. /\ Len(txns') = n + 1
      /\ \A u \in 1..n : txns'[u] = txns[u]
      /\ txns'[n + 1] = new
  BY <1>1, <1>2, AppendProperties
<1>4. Begun' = Begun \cup {n + 1} /\ n + 1 \notin Begun
  BY <1>1, <1>3 DEF Begun
<1>5. \A u \in Begun : txns'[u] = txns[u] /\ (IsActive(u)' <=> IsActive(u))
  BY <1>3, <1>4 DEF IsActive, Begun
<1>6. ActiveTxns' = ActiveTxns \cup {n + 1}
  BY <1>3, <1>4, <1>5 DEF ActiveTxns, Begun
<1> QED
  BY <1>1, <1>3, <1>4, <1>5, <1>6

(* LocksOfActive is kept: only an active transaction enters a lock, and    *)
(* the end of one takes all its entries away.                              *)
LEMMA LocksStep ==
    ASSUME LockFirst, TypeOK, LocksOfActive, [Next]_vars
    PROVE  LocksOfActive'
<1>1. CASE Begin
  <2>1. \A u \in Begun : IsActive(u)' <=> IsActive(u)
    BY <1>1, BeginAdds
  <2>2. locks' = locks
    BY <1>1 DEF Begin
  <2> QED
    BY <2>1, <2>2 DEF LocksOfActive, IsActive
<1>2. ASSUME NEW t \in Begun, NEW r \in Resource, NEW m \in LM!LockMode, Acquire(t, r, m)
      PROVE  LocksOfActive'
  <2>1. \A u : IsActive(u)' <=> IsActive(u)
    BY <1>2 DEF Acquire, IsActive, Begun
  <2>2. \A q \in Resource : \A e \in locks'[q] : e \in locks[q] \/ e.holder = t
    BY <1>2 DEF Acquire, LM!Entered, TypeOK
  <2>3. IsActive(t)
    BY <1>2 DEF Acquire
  <2> QED
    BY <2>1, <2>2, <2>3 DEF LocksOfActive
<1>3. ASSUME NEW t \in ActiveTxns, NEW status \in {Committed, Aborted},
             txns' = [txns EXCEPT ![t].status = status], locks' = LM!Released(t)
      PROVE  LocksOfActive'
  <2>1. \A u \in Begun : IsActive(u)' <=> IsActive(u) /\ u # t
    BY <1>3, StatusEnds
  <2>2. \A q \in Resource : \A e \in locks'[q] : e \in locks[q] /\ e.holder # t
    BY <1>3 DEF LM!Released
  <2> QED
    BY <2>1, <2>2 DEF LocksOfActive, IsActive
<1>4. ASSUME NEW t \in ActiveTxns, Commit(t) PROVE LocksOfActive'
  BY <1>3, <1>4 DEF Commit
<1>5. ASSUME NEW t \in ActiveTxns, Rollback(t) PROVE LocksOfActive'
  BY <1>3, <1>5 DEF Rollback
<1>6. ASSUME NEW t \in Writers, NEW tb \in Table, Executes(t, tb) PROVE LocksOfActive'
  BY <1>6, StatusKept DEF LocksOfActive, IsActive
<1>7. ASSUME NEW tb \in Table, ExecuteCreateTable(tb) PROVE LocksOfActive'
  BY <1>7 DEF ExecuteCreateTable, LocksOfActive, IsActive, Begun
<1>8. CASE UNCHANGED vars
  BY <1>8 DEF vars, LocksOfActive, IsActive, Begun
<1> QED
  BY <1>1, <1>2, <1>4, <1>5, <1>6, <1>7, <1>8, StepKinds

(* Locks end with their transaction (txn_manager.h:64, 125), for clients   *)
(* that ask for locks only in open transactions.                           *)
THEOREM LocksEnd == ASSUME LockFirst PROVE Spec => []LocksOfActive
<1>1. Init => LocksOfActive
  BY DEF Init, LocksOfActive
<1>2. TypeOK /\ LocksOfActive /\ [Next]_vars => LocksOfActive'
  BY LocksStep
<1> QED
  BY <1>1, <1>2, TypeCorrect, PTL DEF Spec

------------------------------------------------------------------------------
(* Why write sets are disjoint: an open transaction still holds, exclusive,*)
(* every id that its log is about ...                                      *)
WritesLocked ==
    \A t \in ActiveTxns : \A i \in 1..Len(txns[t].log) :
        \A k \in Touches(txns[t].log[i]) :
            /\ k \in Key
            /\ [holder |-> t, mode |-> LM!Exclusive] \in locks[<<txns[t].log[i].table, k>>]

(* ... and exclusive means alone.                                          *)
LockInv == LM!NoConflict /\ WritesLocked

LEMMA LockInvSuffices ==
    ASSUME TypeOK, LockInv
    PROVE  WriteSetsDisjoint
<1> SUFFICES ASSUME NEW t \in ActiveTxns, NEW u \in ActiveTxns, t # u,
                    NEW tb \in Table, NEW k,
                    k \in KeysWritten(t, tb), k \in KeysWritten(u, tb)
             PROVE  FALSE
  BY DEF WriteSetsDisjoint
<1>1. ASSUME NEW x \in {t, u}
      PROVE  k \in Key /\ [holder |-> x, mode |-> LM!Exclusive] \in locks[<<tb, k>>]
  <2>1. PICK i \in 1..Len(txns[x].log) :
          txns[x].log[i].table = tb /\ k \in Touches(txns[x].log[i])
    BY <1>1 DEF KeysWritten
  <2> QED
    BY <2>1 DEF LockInv, WritesLocked
<1>2. <<tb, k>> \in Resource
  BY <1>1 DEF Resource
<1> QED
  BY <1>1, <1>2 DEF LockInv, LM!NoConflict, LM!Shared, LM!Exclusive

(* A granted request conflicts with nothing, so NoConflict is kept.        *)
LEMMA ConflictStep ==
    ASSUME TypeOK, LM!NoConflict, NEW t \in Begun, NEW r \in Resource,
           NEW m \in LM!LockMode, Acquire(t, r, m)
    PROVE  LM!NoConflict'
<1> DEFINE new == [holder |-> t, mode |-> m]
<1> SUFFICES ASSUME NEW q \in Resource, NEW d \in locks'[q], NEW e \in locks'[q],
                    d.holder # e.holder
             PROVE  d.mode = LM!Shared /\ e.mode = LM!Shared
  BY DEF LM!NoConflict
<1>1. \A x \in locks'[q] : x \in locks[q] \/ (q = r /\ x = new)
  BY DEF Acquire, LM!Entered, TypeOK
<1>2. \A x \in locks[r] : x.holder # t => m # LM!Exclusive /\ x.mode # LM!Exclusive
  BY DEF Acquire, LM!CanGrant, LM!Clash
<1>3. \A x \in locks[r] : x.mode \in LM!LockMode
  BY DEF TypeOK, Entry
<1>4. CASE d \in locks[q] /\ e \in locks[q]
  BY <1>4 DEF LM!NoConflict
<1>5. CASE q = r /\ d = new /\ e \in locks[q]
  BY <1>2, <1>3, <1>5 DEF LM!LockMode
<1>6. CASE q = r /\ e = new /\ d \in locks[q]
  BY <1>2, <1>3, <1>6 DEF LM!LockMode
<1> QED
  BY <1>1, <1>4, <1>5, <1>6

(* A statement of a client that locked what it writes.                     *)
LEMMA WritesStep ==
    ASSUME LockFirst, TypeOK, WritesLocked, NEW t, NEW tb \in Table, Executes(t, tb)
    PROVE  WritesLocked'
<1>1. PICK rows \in Seq(Row), recs \in Seq(Record) :
        /\ \A i \in 1..Len(recs) : recs[i].table = tb
        /\ Execute(t, tb, rows, recs)
  BY DEF Executes
<1>2. t \in Begun /\ IsActive(t) /\ txns' = [txns EXCEPT ![t].log = @ \o recs]
  BY <1>1 DEF Execute, ClientLocked, Logs, IsActive
<1>3. ActiveTxns' = ActiveTxns /\ locks' = locks
  BY StatusKept
<1>4. txns \in Seq(TxnRec) /\ DOMAIN txns = Begun
  BY LenProperties DEF TypeOK, Begun
<1>5. \A u \in Begun : txns'[u].log = IF u = t THEN txns[t].log \o recs ELSE txns[u].log
  <2>1. \A u \in Begun : txns[u] \in TxnRec
    BY TxnType
  <2> QED
    BY <1>2, <1>4, <2>1 DEF TxnRec
<1>6. \A i \in 1..Len(recs) : \A k \in Touches(recs[i]) :
         /\ k \in Key
         /\ [holder |-> t, mode |-> LM!Exclusive] \in locks[<<recs[i].table, k>>]
  BY <1>1 DEF Execute, ClientLocked
<1> DEFINE Held(u, rec) == \A k \in Touches(rec) :
              /\ k \in Key
              /\ [holder |-> u, mode |-> LM!Exclusive] \in locks[<<rec.table, k>>]
<1>7. \A u \in ActiveTxns : \A i \in 1..Len(txns[u].log) : Held(u, txns[u].log[i])
  BY DEF WritesLocked
<1>8. \A i \in 1..Len(recs) : Held(t, recs[i])
  BY <1>6
<1> HIDE DEF Held
<1>9. ASSUME NEW u \in ActiveTxns, NEW i \in 1..Len(txns'[u].log)
      PROVE  Held(u, txns'[u].log[i])
  <2>1. u \in Begun
    BY DEF ActiveTxns
  <2>2. CASE u # t
    BY <1>5, <1>7, <1>9, <2>1, <2>2
  <2>3. CASE u = t
    <3> DEFINE log == txns[t].log
    <3>1. log \in Seq(Record) /\ txns'[t].log = log \o recs
      BY <1>2, <1>5, TxnType
    <3> HIDE DEF log
    <3>2. Len(log) \in Nat /\ Len(recs) \in Nat /\ i \in 1..(Len(log) + Len(recs))
      BY <1>9, <2>3, <3>1, LenProperties, ConcatProperties
    <3>3. (log \o recs)[i] = IF i <= Len(log) THEN log[i] ELSE recs[i - Len(log)]
      BY <3>1, <3>2, ConcatProperties
    <3>4. CASE i <= Len(log)
      BY <1>7, <2>3, <3>1, <3>2, <3>3, <3>4 DEF log
    <3>5. CASE ~(i <= Len(log))
      <4>1. i - Len(log) \in 1..Len(recs)
        BY <3>2, <3>5
      <4> QED
        BY <1>8, <2>3, <3>1, <3>3, <3>5, <4>1
    <3> QED
      BY <3>4, <3>5
  <2> QED
    BY <2>2, <2>3
<1> QED
  BY <1>3, <1>9 DEF WritesLocked, Held

(* LockInv is kept by every step.                                          *)
LEMMA LockInvStep ==
    ASSUME LockFirst, TypeOK, LockInv, [Next]_vars
    PROVE  LockInv'
<1> USE DEF LockInv
<1>1. CASE Begin
  <2>1. locks' = locks
    BY <1>1 DEF Begin
  <2>2. WritesLocked'
    <3> SUFFICES ASSUME NEW t \in ActiveTxns', NEW i \in 1..Len(txns'[t].log),
                        NEW k \in Touches(txns'[t].log[i])
                 PROVE  /\ k \in Key
                        /\ [holder |-> t, mode |-> LM!Exclusive]
                             \in locks[<<txns'[t].log[i].table, k>>]
      BY <2>1 DEF WritesLocked
    <3>1. CASE t = Len(txns) + 1
      <4>1. Len(txns'[t].log) = 0
        BY <1>1, <3>1, BeginAdds
      <4> QED
        BY <4>1
    <3>2. CASE t \in ActiveTxns
      <4>1. txns'[t] = txns[t]
        BY <1>1, <3>2, BeginAdds DEF ActiveTxns
      <4> QED
        BY <3>2, <4>1 DEF WritesLocked
    <3> QED
      BY <1>1, <3>1, <3>2, BeginAdds
  <2> QED
    BY <2>1, <2>2 DEF LM!NoConflict
<1>2. ASSUME NEW t \in Begun, NEW r \in Resource, NEW m \in LM!LockMode, Acquire(t, r, m)
      PROVE  LockInv'
  <2>1. ActiveTxns' = ActiveTxns /\ txns' = txns
    BY <1>2 DEF Acquire, ActiveTxns, Begun
  <2>2. \A q \in Resource : locks[q] \subseteq locks'[q]
    BY <1>2 DEF Acquire, LM!Entered, TypeOK
  <2>3. \A u \in ActiveTxns : \A i \in 1..Len(txns[u].log) : txns[u].log[i].table \in Table
    BY TxnType DEF ActiveTxns, Record
  <2>4. WritesLocked'
    BY <2>1, <2>2, <2>3 DEF WritesLocked, Resource
  <2> QED
    BY <1>2, <2>4, ConflictStep
<1>3. ASSUME NEW t \in ActiveTxns, NEW status \in {Committed, Aborted},
             txns' = [txns EXCEPT ![t].status = status], locks' = LM!Released(t)
      PROVE  LockInv'
  <2>1. /\ ActiveTxns' = ActiveTxns \ {t}
        /\ \A u \in Begun : txns'[u].log = txns[u].log
    BY <1>3, StatusEnds
  <2>2. \A q \in Resource : locks'[q] = {e \in locks[q] : e.holder # t}
    BY <1>3 DEF LM!Released
  <2>3. \A u \in ActiveTxns : /\ u \in Begun
                              /\ \A i \in 1..Len(txns[u].log) : txns[u].log[i].table \in Table
    BY TxnType DEF ActiveTxns, Record
  <2>4. WritesLocked'
    BY <2>1, <2>2, <2>3 DEF WritesLocked, Resource
  <2>5. LM!NoConflict'
    BY <2>2 DEF LM!NoConflict
  <2> QED
    BY <2>4, <2>5
<1>4. ASSUME NEW t \in ActiveTxns, Commit(t) PROVE LockInv'
  BY <1>3, <1>4 DEF Commit
<1>5. ASSUME NEW t \in ActiveTxns, Rollback(t) PROVE LockInv'
  BY <1>3, <1>5 DEF Rollback
<1>6. ASSUME NEW t \in Writers, NEW tb \in Table, Executes(t, tb) PROVE LockInv'
  <2>1. locks' = locks
    BY <1>6, StatusKept
  <2> QED
    BY <1>6, <2>1, WritesStep DEF LM!NoConflict
<1>7. ASSUME NEW tb \in Table, ExecuteCreateTable(tb) PROVE LockInv'
  BY <1>7 DEF ExecuteCreateTable, WritesLocked, LM!NoConflict, ActiveTxns, Begun
<1>8. CASE UNCHANGED vars
  BY <1>8 DEF vars, WritesLocked, LM!NoConflict, ActiveTxns, Begun
<1> QED
  BY <1>1, <1>2, <1>4, <1>5, <1>6, <1>7, <1>8, StepKinds

(* Two open transactions of clients that lock what they write never have   *)
(* writes on the same id of a table (executor.cpp:187-268 itself does not  *)
(* lock), whatever statements they interleave.                             *)
THEOREM WritesDisjoint == ASSUME LockFirst PROVE Spec => []WriteSetsDisjoint
<1>1. Init => LockInv
  BY DEF Init, LockInv, LM!NoConflict, WritesLocked, ActiveTxns, Begun
<1>2. TypeOK /\ LockInv /\ [Next]_vars => LockInv'
  BY LockInvStep
<1>3. TypeOK /\ LockInv => WriteSetsDisjoint
  BY LockInvSuffices
<1> QED
  BY <1>1, <1>2, <1>3, TypeCorrect, PTL DEF Spec

------------------------------------------------------------------------------
(* The records of transaction t among those handed to the log.             *)
Positions(t) == {i \in DOMAIN appended : appended[i].txn = t}
Submitted(t) == Picked(appended, Positions(t))

(* A transaction that is still open has submitted its begin and no more;   *)
(* nobody has submitted anything in the name of one not yet begun.         *)
SubmittedInv ==
    /\ \A i \in DOMAIN appended : appended[i].txn \in Begun
    /\ \A t \in ActiveTxns : Submitted(t) = <<Mark(t, "Begin")>>
    /\ EndedLogSubmitted

(* Records appended for t are the last of t, and change nothing for others.*)
LEMMA SubmitsOwn ==
    ASSUME TypeOK, NEW recs \in Seq(LogRec), NEW t,
           \A i \in 1..Len(recs) : recs[i].txn = t,
           appended' = appended \o recs
    PROVE  /\ Submitted(t)' = Submitted(t) \o recs
           /\ \A u : u # t => Submitted(u)' = Submitted(u)
           /\ \A i \in DOMAIN appended' : appended'[i].txn = t
                                          \/ \E j \in DOMAIN appended : appended'[i] = appended[j]
<1>1. PICK n \in Nat, m \in Nat : n = Len(appended) /\ m = Len(recs)
  BY LenProperties DEF TypeOK
<1>2. appended \in Seq(LogRec) /\ DOMAIN appended = 1..n
  BY <1>1, LenProperties DEF TypeOK
<1>3. /\ DOMAIN appended' = 1..(n + m)
      /\ \A i \in 1..n : appended'[i] = appended[i]
      /\ \A i \in (n + 1)..(n + m) : appended'[i] = recs[i - n]
  <2>1. /\ appended' \in Seq(LogRec) /\ Len(appended') = n + m
        /\ \A i \in 1..(n + m) : appended'[i] = IF i <= n THEN appended[i] ELSE recs[i - n]
    BY <1>1, <1>2, ConcatProperties
  <2>2. DOMAIN appended' = 1..(n + m)
    BY <2>1, LenProperties
  <2>3. \A i \in 1..n : i \in 1..(n + m) /\ i <= n
    BY <1>1
  <2>4. \A i \in (n + 1)..(n + m) : i \in 1..(n + m) /\ ~(i <= n)
    BY <1>1
  <2> QED
    BY <2>1, <2>2, <2>3, <2>4
<1>4. \A i \in (n + 1)..(n + m) : appended'[i].txn = t
  <2>1. \A i \in (n + 1)..(n + m) : i - n \in 1..m
    BY <1>1
  <2> QED
    BY <1>1, <1>3, <2>1
<1>5. 1..(n + m) = 1..n \cup (n + 1)..(n + m)
  <2>1. \A i \in 1..(n + m) : i \in 1..n \/ i \in (n + 1)..(n + m)
    BY <1>1
  <2>2. \A i \in 1..n : i \in 1..(n + m)
    BY <1>1
  <2>3. \A i \in (n + 1)..(n + m) : i \in 1..(n + m)
    BY <1>1
  <2> QED
    BY <2>1, <2>2, <2>3
<1>6. \A u : Positions(u) \in SUBSET (1..n)
  BY <1>2 DEF Positions
<1>7. Submitted(t)' = Submitted(t) \o recs
  <2>1. Positions(t)' = Positions(t) \cup (n + 1)..(n + m)
    BY <1>2, <1>3, <1>4, <1>5 DEF Positions
  <2>2. Picked(appended \o recs, Positions(t) \cup (n + 1)..(n + m))
          = Picked(appended, Positions(t)) \o recs
    BY <1>1, <1>2, <1>6, PickedAll
  <2> QED
    BY <2>1, <2>2 DEF Submitted
<1>8. ASSUME NEW u, u # t PROVE Submitted(u)' = Submitted(u)
  <2>1. Positions(u)' = Positions(u)
    BY <1>2, <1>3, <1>4, <1>5, <1>8 DEF Positions
  <2>2. \A i \in Positions(u) : appended'[i] = appended[i]
    BY <1>3, <1>6
  <2>3. Picked(appended', Positions(u)) = Picked(appended, Positions(u))
    BY <1>1, <1>6, <2>2, PickedSame
  <2> QED
    BY <2>1, <2>3 DEF Submitted
<1> QED
  BY <1>2, <1>3, <1>4, <1>5, <1>7, <1>8

(* A begin submits the first record of its transaction.                    *)
LEMMA SubmittedBegin ==
    ASSUME TypeOK, SubmittedInv, Begin
    PROVE  SubmittedInv'
<1>0. PICK t : t = Len(txns) + 1
  OBVIOUS
<1> DEFINE recs == <<Mark(t, "Begin")>>
<1>1. /\ Begun' = Begun \cup {t} /\ t \notin Begun
      /\ \A u \in Begun : txns'[u] = txns[u] /\ (IsActive(u)' <=> IsActive(u))
      /\ ActiveTxns' = ActiveTxns \cup {t}
  BY <1>0, BeginAdds
<1>2. IsActive(t)'
  BY <1>0, <1>1, BeginAdds DEF IsActive
<1>3. t \in Nat
  <2>1. Len(txns) \in Nat
    BY LenProperties DEF TypeOK
  <2> QED
    BY <1>0, <2>1
<1>4. Mark(t, "Begin") \in LogRec /\ Mark(t, "Begin").txn = t
  BY <1>3 DEF Mark, LogRec
<1>5. recs \in Seq(LogRec) /\ Len(recs) = 1 /\ \A i \in 1..Len(recs) : recs[i].txn = t
  BY <1>4
<1>6. appended' = appended \o recs
  BY <1>0, <1>4, AppendIsConcat DEF Begin, TypeOK
<1> HIDE DEF recs
<1>7. /\ Submitted(t)' = Submitted(t) \o recs
      /\ \A u : u # t => Submitted(u)' = Submitted(u)
      /\ \A i \in DOMAIN appended' : appended'[i].txn = t
                                     \/ \E j \in DOMAIN appended : appended'[i] = appended[j]
  BY <1>5, <1>6, SubmitsOwn
<1>8. Submitted(t) = <<>>
  <2>1. Positions(t) = {}
    BY <1>1 DEF Positions, SubmittedInv
  <2>2. Submitted(t) = [n \in 1..0 |-> appended[NthOf({}, n)]]
    BY <2>1, FS_EmptySet DEF Submitted, Picked
  <2> QED
    BY <2>2
<1>9. Submitted(t)' = <<Mark(t, "Begin")>>
  BY <1>5, <1>7, <1>8, ConcatEmptySeq DEF recs
<1>10. \A i \in DOMAIN appended' : appended'[i].txn \in Begun'
  BY <1>1, <1>7 DEF SubmittedInv
<1>11. \A u \in ActiveTxns' : Submitted(u)' = <<Mark(u, "Begin")>>
  BY <1>1, <1>7, <1>9 DEF SubmittedInv
<1>12. EndedLogSubmitted'
  <2> SUFFICES ASSUME NEW u \in Begun', ~IsActive(u)'
               PROVE  Submitted(u)' = (<<Mark(u, "Begin")>> \o Data(u)
                        \o <<Mark(u, IF txns[u].status = Committed THEN "Commit" ELSE "Abort")>>)'
    BY DEF EndedLogSubmitted, Submitted, Positions
  <2>1. u # t /\ u \in Begun /\ ~IsActive(u) /\ txns'[u] = txns[u]
    BY <1>1, <1>2
  <2>2. Data(u)' = Data(u)
    BY <2>1 DEF Data
  <2>3. Submitted(u) = <<Mark(u, "Begin")>> \o Data(u)
                        \o <<Mark(u, IF txns[u].status = Committed THEN "Commit" ELSE "Abort")>>
    BY <2>1 DEF SubmittedInv, EndedLogSubmitted, Submitted, Positions
  <2> QED
    BY <1>7, <2>1, <2>2, <2>3 DEF Mark
<1> QED
  BY <1>10, <1>11, <1>12 DEF SubmittedInv

(* A commit or a rollback submits the writes and the outcome.              *)
LEMMA SubmittedEnd ==
    ASSUME TypeOK, SubmittedInv, NEW t \in ActiveTxns, NEW outcome, NEW status,
           \/ outcome = "Commit" /\ status = Committed
           \/ outcome = "Abort" /\ status = Aborted,
           txns' = [txns EXCEPT ![t].status = status],
           AppendAndFlush(Append(Data(t), Mark(t, outcome)))
    PROVE  SubmittedInv'
<1> DEFINE mark == Mark(t, outcome)
           recs == Append(Data(t), mark)
<1>1. /\ t \in Begun /\ IsActive(t) /\ outcome \in {"Begin", "Commit", "Abort"}
      /\ status \in {Committed, Aborted}
  BY DEF ActiveTxns, IsActive
<1>2. /\ Begun' = Begun
      /\ \A u \in Begun : /\ txns'[u].log = txns[u].log
                          /\ txns'[u].status = IF u = t THEN status ELSE txns[u].status
                          /\ IsActive(u)' <=> IsActive(u) /\ u # t
      /\ ActiveTxns' = ActiveTxns \ {t}
  BY <1>1, StatusEnds
<1>3. Data(t) \in Seq(LogRec) /\ mark \in LogRec /\ recs \in Seq(LogRec)
  BY <1>1, DataType
<1>4. \A i \in 1..Len(recs) : recs[i].txn = t
  <2>1. PICK n \in Nat : n = Len(txns[t].log) /\ n = Len(Data(t)) /\ Len(recs) = n + 1
    BY <1>1, <1>3, DataType, TxnType, LenProperties, AppendProperties
  <2>2. \A i \in 1..n : recs[i] = Data(t)[i] /\ Data(t)[i].txn = t
    BY <1>3, <2>1, AppendProperties DEF Data
  <2>3. recs[n + 1] = mark /\ mark.txn = t
    BY <1>3, <2>1, AppendProperties DEF Mark
  <2>4. \A i \in 1..(n + 1) : i \in 1..n \/ i = n + 1
    BY <2>1
  <2> HIDE DEF recs, mark
  <2> QED
    BY <2>1, <2>2, <2>3, <2>4
<1>5. appended' = appended \o recs
  BY DEF AppendAndFlush
<1> HIDE DEF recs
<1>6. /\ Submitted(t)' = Submitted(t) \o recs
      /\ \A u : u # t => Submitted(u)' = Submitted(u)
      /\ \A i \in DOMAIN appended' : appended'[i].txn = t
                                     \/ \E j \in DOMAIN appended : appended'[i] = appended[j]
  BY <1>3, <1>4, <1>5, SubmitsOwn
<1>7. \A i \in DOMAIN appended' : appended'[i].txn \in Begun'
  BY <1>1, <1>2, <1>6 DEF SubmittedInv
<1>8. \A u \in ActiveTxns' : Submitted(u)' = <<Mark(u, "Begin")>>
  BY <1>2, <1>6 DEF SubmittedInv
<1>9. Submitted(t)' = <<Mark(t, "Begin")>> \o Data(t) \o <<mark>>
  <2> DEFINE first == <<Mark(t, "Begin")>>
             last  == <<mark>>
  <2>1. Submitted(t) = first
    BY DEF SubmittedInv
  <2>2. recs = Data(t) \o last
    BY <1>3, AppendIsConcat DEF recs
  <2>3. first \in Seq(LogRec) /\ last \in Seq(LogRec)
    <3>1. Mark(t, "Begin") \in LogRec
      BY <1>1, DataType
    <3> QED
      BY <1>3, <3>1
  <2> HIDE DEF first, last
  <2>4. first \o (Data(t) \o last) = (first \o Data(t)) \o last
    BY <1>3, <2>3, ConcatAssociative
  <2> QED
    BY <1>6, <2>1, <2>2, <2>4 DEF first, last
<1>10. \A u \in Begun : Data(u)' = Data(u)
  BY <1>2 DEF Data
<1>11. EndedLogSubmitted'
  <2> SUFFICES ASSUME NEW u \in Begun', ~IsActive(u)'
               PROVE  Submitted(u)' = (<<Mark(u, "Begin")>> \o Data(u)
                        \o <<Mark(u, IF txns[u].status = Committed THEN "Commit" ELSE "Abort")>>)'
    BY DEF EndedLogSubmitted, Submitted, Positions
  <2>1. u \in Begun /\ Data(u)' = Data(u)
    BY <1>2, <1>10
  <2>2. CASE u = t
    <3>1. txns'[t].status = status
      BY <1>1, <1>2
    <3>2. outcome = IF txns'[t].status = Committed THEN "Commit" ELSE "Abort"
      BY <3>1 DEF Committed, Aborted
    <3> QED
      BY <1>9, <2>1, <2>2, <3>2 DEF Mark
  <2>3. CASE u # t
    <3>1. ~IsActive(u) /\ txns'[u].status = txns[u].status
      BY <1>2, <2>1, <2>3
    <3>2. Submitted(u) = <<Mark(u, "Begin")>> \o Data(u)
                        \o <<Mark(u, IF txns[u].status = Committed THEN "Commit" ELSE "Abort")>>
      BY <2>1, <3>1 DEF SubmittedInv, EndedLogSubmitted, Submitted, Positions
    <3> QED
      BY <1>6, <2>1, <2>3, <3>1, <3>2 DEF Mark
  <2> QED
    BY <2>2, <2>3
<1> QED
  BY <1>7, <1>8, <1>11 DEF SubmittedInv

(* A statement submits nothing, and adds to the log of an open transaction *)
(* only (the active() tests of executor.cpp:198, 229, 256).                *)
LEMMA SubmittedExecute ==
    ASSUME TypeOK, SubmittedInv, NEW t, NEW tb \in Table, Executes(t, tb)
    PROVE  SubmittedInv'
<1>1. /\ Len(txns') = Len(txns) /\ Begun' = Begun
      /\ \A u \in Begun : IsActive(u)' <=> IsActive(u)
      /\ ActiveTxns' = ActiveTxns
      /\ appended' = appended
  BY StatusKept DEF Begun, wal
<1>2. \A u \in Begun : ~IsActive(u) => txns'[u] = txns[u]
  <2>1. PICK rows \in Seq(Row), recs \in Seq(Record) : Execute(t, tb, rows, recs)
    BY DEF Executes
  <2>2. txns' = txns \/ (IsActive(t) /\ txns' = [txns EXCEPT ![t].log = @ \o recs])
    BY <2>1 DEF Execute, Logs
  <2>3. DOMAIN txns = Begun
    BY LenProperties DEF TypeOK, Begun
  <2> QED
    BY <2>2, <2>3
<1>3. \A u : Submitted(u)' = Submitted(u)
  BY <1>1 DEF Submitted, Positions
<1>4. EndedLogSubmitted'
  <2> SUFFICES ASSUME NEW u \in Begun', ~IsActive(u)'
               PROVE  Submitted(u)' = (<<Mark(u, "Begin")>> \o Data(u)
                        \o <<Mark(u, IF txns[u].status = Committed THEN "Commit" ELSE "Abort")>>)'
    BY DEF EndedLogSubmitted, Submitted, Positions
  <2>1. u \in Begun /\ ~IsActive(u) /\ txns'[u] = txns[u]
    BY <1>1, <1>2
  <2>2. Submitted(u) = <<Mark(u, "Begin")>> \o Data(u)
                        \o <<Mark(u, IF txns[u].status = Committed THEN "Commit" ELSE "Abort")>>
    BY <2>1 DEF SubmittedInv, EndedLogSubmitted, Submitted, Positions
  <2>3. Data(u)' = Data(u)
    BY <2>1 DEF Data
  <2> QED
    BY <1>3, <2>1, <2>2, <2>3 DEF Mark
<1> QED
  BY <1>1, <1>3, <1>4 DEF SubmittedInv, Mark

(* SubmittedInv is kept by every step.                                     *)
LEMMA SubmittedStep ==
    ASSUME TypeOK, SubmittedInv, [Next]_vars
    PROVE  SubmittedInv'
<1>1. ASSUME NEW t \in ActiveTxns, Commit(t) PROVE SubmittedInv'
  BY <1>1, SubmittedEnd DEF Commit
<1>2. ASSUME NEW t \in ActiveTxns, Rollback(t) PROVE SubmittedInv'
  BY <1>2, SubmittedEnd DEF Rollback
<1>3. ASSUME txns' = txns, appended' = appended PROVE SubmittedInv'
  BY <1>3 DEF SubmittedInv, EndedLogSubmitted, Submitted, Positions, Data, Mark,
              ActiveTxns, Begun, IsActive
<1>4. ASSUME NEW t \in Begun, NEW r \in Resource, NEW m \in LM!LockMode, Acquire(t, r, m)
      PROVE  SubmittedInv'
  BY <1>3, <1>4 DEF Acquire, wal
<1>5. ASSUME NEW tb \in Table, ExecuteCreateTable(tb) PROVE SubmittedInv'
  BY <1>3, <1>5 DEF ExecuteCreateTable, wal
<1>6. CASE UNCHANGED vars
  BY <1>3, <1>6 DEF vars, wal
<1> QED
  BY <1>1, <1>2, <1>4, <1>5, <1>6, SubmittedBegin, SubmittedExecute, StepKinds

(* Once a transaction has ended, what the log was given of it is its       *)
(* begin, its writes in order and its outcome, and no statement issued     *)
(* through the ended transaction adds a write the log will never see.      *)
THEOREM LogComplete == Spec => []EndedLogSubmitted
<1>1. Init => SubmittedInv
  BY DEF Init, SubmittedInv, EndedLogSubmitted, Begun, ActiveTxns
<1>2. TypeOK /\ SubmittedInv /\ [Next]_vars => SubmittedInv'
  BY SubmittedStep
<1>3. SubmittedInv => EndedLogSubmitted
  BY DEF SubmittedInv
<1> QED
  BY <1>1, <1>2, <1>3, TypeCorrect, PTL DEF Spec

------------------------------------------------------------------------------
(* The rows whose id is not one of W.                                      *)
Others(rows, W) == Picked(rows, {i \in DOMAIN rows : KeyOf(rows[i]) \notin W})

(* Erasing the rows of an id in W leaves them.                             *)
LEMMA EraseSpares ==
    ASSUME NEW rows \in Seq(Row), NEW W, NEW k \in W
    PROVE  Others(EraseId(rows, k), W) = Others(rows, W)
<1> DEFINE I == {i \in DOMAIN rows : rows[i].id = NoId \/ rows[i].id # k}
           K == {i \in DOMAIN rows : KeyOf(rows[i]) \notin W}
           left == Picked(rows, I)
           J == {n \in DOMAIN left : KeyOf(left[n]) \notin W}
<1>1. I \in SUBSET (1..Len(rows))
  BY LenProperties
<1>2. K \in SUBSET I
  BY DEF KeyOf
<1> HIDE DEF I
<1>3. DOMAIN left = 1..Cardinality(I)
  BY DEF Picked
<1>4. \A n \in 1..Cardinality(I) : NthOf(I, n) \in I /\ left[n] = rows[NthOf(I, n)]
  BY <1>1, PickedSeq
<1>5. J \in SUBSET (1..Cardinality(I))
  BY <1>3
<1>6. \A n \in 1..Cardinality(I) : n \in J <=> NthOf(I, n) \in K
  <2>1. \A i \in I : i \in DOMAIN rows
    BY DEF I
  <2> QED
    BY <1>3, <1>4, <2>1
<1> HIDE DEF K, J
<1>7. Picked(left, J) = Picked(rows, K)
  BY <1>1, <1>2, <1>5, <1>6, PickedTwice
<1> QED
  BY <1>7 DEF Others, EraseId, I, J, K

(* Putting a row of an id in W over another leaves them.                   *)
LEMMA ReplaceSpares ==
    ASSUME NEW rows \in Seq(Row), NEW W, NEW i \in 1..Len(rows), NEW row \in Row,
           KeyOf(rows[i]) \in W, KeyOf(row) \in W
    PROVE  Others([rows EXCEPT ![i] = row], W) = Others(rows, W)
<1> DEFINE left == [rows EXCEPT ![i] = row]
           K == {j \in DOMAIN rows : KeyOf(rows[j]) \notin W}
<1>1. PICK n \in Nat : n = Len(rows) /\ DOMAIN rows = 1..n
  BY LenProperties
<1>2. DOMAIN left = DOMAIN rows
  OBVIOUS
<1>3. \A j \in DOMAIN rows : left[j] = IF j = i THEN row ELSE rows[j]
  OBVIOUS
<1>4. {j \in DOMAIN left : KeyOf(left[j]) \notin W} = K
  BY <1>2, <1>3
<1>5. K \in SUBSET (1..n) /\ \A j \in K : left[j] = rows[j]
  BY <1>1, <1>3
<1> HIDE DEF K
<1>6. Picked(left, K) = Picked(rows, K)
  BY <1>5, PickedSame
<1> QED
  BY <1>4, <1>6 DEF Others, K

(* One round of the undo loop leaves the rows of the ids its record is not *)
(* about.                                                                  *)
LEMMA UndoSpares ==
    ASSUME NEW rec \in Record, NEW st \in Tables, NEW tb \in DOMAIN st, NEW W,
           rec.table = tb => Touches(rec) \subseteq W
    PROVE  /\ tb \in DOMAIN UndoChange(rec, st)
           /\ Others(UndoChange(rec, st)[tb], W) = Others(st[tb], W)
<1> DEFINE rows == RowsOf(st, rec.table)
           i    == SelectInSeq(rows, LAMBDA row : row.id # NoId /\ row.id = rec.key)
           left == IF rec.type = Insert THEN EraseId(rows, rec.key)
                   ELSE IF i = 0 THEN rows ELSE [rows EXCEPT ![i] = rec.old]
<1>1. UndoChange(rec, st) = Put(st, rec.table, left)
  BY DEF UndoChange
<1>2. tb \in DOMAIN UndoChange(rec, st)
  BY <1>1 DEF Put
<1>3. CASE rec.table # tb
  BY <1>1, <1>3 DEF Put
<1>4. CASE rec.table = tb
  <2>1. rows = st[tb] /\ rows \in Seq(Row)
    <3>1. rows = st[tb]
      BY <1>4 DEF RowsOf
    <3>2. rec.table \in Table
      BY DEF Record
    <3> QED
      BY <3>1, <3>2, RowsOfType
  <2>2. UndoChange(rec, st)[tb] = left
    BY <1>1, <1>4 DEF Put
  <2>3. rec.key \in W
    BY <1>4 DEF Touches
  <2>4. CASE rec.type = Insert
    <3> HIDE DEF rows
    <3> QED
      BY <1>2, <2>1, <2>2, <2>3, <2>4, EraseSpares
  <2>5. CASE rec.type # Insert /\ i = 0
    <3> HIDE DEF rows, i
    <3> QED
      BY <1>2, <2>1, <2>2, <2>5
  <2>6. CASE rec.type # Insert /\ i # 0
    <3>1. rec.old # NoRow /\ rec.old \in Row /\ KeyOf(rec.old) \in W
      BY <1>4, <2>6 DEF Record, Touches
    <3>2. i \in 1..Len(rows) /\ KeyOf(rows[i]) \in W
      <4> DEFINE I == {j \in 1..Len(rows) : rows[j].id # NoId /\ rows[j].id = rec.key}
      <4>1. i = IF I # {} THEN Min(I) ELSE 0
        BY DEF SelectInSeq
      <4>2. I \in SUBSET Nat
        OBVIOUS
      <4>3. Min(I) \in I /\ i = Min(I)
        <5> HIDE DEF I, i
        <5> QED
          BY <2>6, <4>1, <4>2, MinIsLeast
      <4>4. i \in I
        BY <4>3
      <4> QED
        BY <2>3, <4>4 DEF KeyOf
    <3> HIDE DEF rows, i
    <3>3. Others([rows EXCEPT ![i] = rec.old], W) = Others(rows, W)
      BY <2>1, <3>1, <3>2, ReplaceSpares
    <3> QED
      BY <1>2, <2>1, <2>2, <2>6, <3>3
  <2> QED
    BY <2>4, <2>5, <2>6
<1> QED
  BY <1>2, <1>3, <1>4

(* The whole rollback does.                                                *)
LEMMA UndoneSpares ==
    ASSUME TypeOK, NEW t \in ActiveTxns, NEW tb \in DOMAIN storage
    PROVE  Others(Undone(t)[tb], KeysWritten(t, tb)) = Others(storage[tb], KeysWritten(t, tb))
<1> DEFINE log == txns[t].log
           W == KeysWritten(t, tb)
           P == {st \in Tables : /\ tb \in DOMAIN st
                                 /\ Others(st[tb], W) = Others(storage[tb], W)}
<1>1. log \in Seq(Record) /\ \A i \in 1..Len(log) : log[i] \in Record
  BY TxnType DEF ActiveTxns
<1>2. \A i \in 1..Len(log) : log[i].table = tb => Touches(log[i]) \subseteq W
  BY DEF KeysWritten
<1>3. storage \in P
  BY DEF TypeOK
<1>4. \A i \in 1..Len(log), st \in P : UndoChange(log[i], st) \in P
  <2> TAKE i \in 1..Len(log), st \in P
  <2>1. PICK rec \in Record : rec = log[i] /\ (rec.table = tb => Touches(rec) \subseteq W)
    BY <1>1, <1>2
  <2>2. st \in Tables /\ tb \in DOMAIN st /\ Others(st[tb], W) = Others(storage[tb], W)
    OBVIOUS
  <2> HIDE DEF W
  <2>3. UndoChange(rec, st) \in Tables
    BY <2>2, UndoType
  <2>4. /\ tb \in DOMAIN UndoChange(rec, st)
        /\ Others(UndoChange(rec, st)[tb], W) = Others(st[tb], W)
    BY <2>1, <2>2, UndoSpares
  <2> QED
    BY <2>1, <2>2, <2>3, <2>4
<1> HIDE DEF P
<1>5. Undone(t) \in P
  BY <1>1, <1>3, <1>4, UndoKeeps DEF Undone
<1> QED
  BY <1>5 DEF P

(* Whatever clients do, without locks, with ids given twice, changed or    *)
(* left out: a rollback leaves the rows whose id its transaction has not   *)
(* written as they are and in their order (txn_manager.h:74-94).           *)
THEOREM RollbackIsLocal == Spec => RollbackSpares
<1>1. TypeOK /\ [Next]_vars =>
        [\A t \in ActiveTxns : Rollback(t) =>
           \A tb \in DOMAIN storage :
              LET Spared(rows) ==
                    Picked(rows, {i \in DOMAIN rows :
                                     KeyOf(rows[i]) \notin KeysWritten(t, tb)})
              IN  Spared(storage'[tb]) = Spared(storage[tb])]_vars
  <2> SUFFICES ASSUME TypeOK, NEW t \in ActiveTxns, Rollback(t), NEW tb \in DOMAIN storage
               PROVE  Others(storage'[tb], KeysWritten(t, tb))
                        = Others(storage[tb], KeysWritten(t, tb))
    BY DEF Others
  <2> QED
    BY UndoneSpares DEF Rollback
<1> QED
  BY <1>1, TypeCorrect, PTL DEF Spec, RollbackSpares

------------------------------------------------------------------------------
(* The atomic store.  For careful clients that do not delete, a table is a *)
(* function from ids to rows, and every record of a write log says what    *)
(* its ids were and became.                                                *)
RowOf(rows, k) ==
    IF \E i \in 1..Len(rows) : rows[i].id = k
      THEN rows[CHOOSE i \in 1..Len(rows) : rows[i].id = k] ELSE NoRow

OldOf(rec, k) == IF rec.old # NoRow /\ rec.old.id = k THEN rec.old ELSE NoRow
NewOf(rec, k) == IF rec.new # NoRow /\ rec.new.id = k THEN rec.new ELSE NoRow

(* The records of t about id k, and what k is after the first i records    *)
(* of t: what the next one about it says it was, or what the table says.   *)
Touching(t, tb, k) ==
    {i \in DOMAIN txns[t].log : txns[t].log[i].table = tb /\ k \in Touches(txns[t].log[i])}

AfterFirst(t, tb, k, i) ==
    LET later == {j \in Touching(t, tb, k) : j > i}
    IN  IF later = {} THEN RowOf(RowsOf(storage, tb), k) ELSE OldOf(txns[t].log[Min(later)], k)

(* Ids are unique, records are of inserts and updates, and each record     *)
(* about an id goes on where the one before it left off.                   *)
Unique == \A tb \in DOMAIN storage : DistinctIds(storage[tb])

CarefulRecord(rec) ==
    /\ rec.type # Delete
    /\ rec.new \in Row /\ rec.new.id = rec.key /\ rec.key \in Key
    /\ rec.old # NoRow => rec.old.id \in Key

CarefulLogs == \A t \in ActiveTxns : \A i \in 1..Len(txns[t].log) : CarefulRecord(txns[t].log[i])

Chained ==
    \A t \in ActiveTxns, tb \in Table, k \in Key : \A i \in Touching(t, tb, k) :
        NewOf(txns[t].log[i], k) = AfterFirst(t, tb, k, i)

(* Every transaction in the vector has left a begin in the log.            *)
Counted == Len(txns) <= EverBegun /\ Len(txns) <= MaxTxn

AtomicInv == Unique /\ CarefulLogs /\ Chained /\ Counted

(* In a table with unique ids an id has one row ...                        *)
LEMMA RowOfHeld ==
    ASSUME NEW rows, DistinctIds(rows), NEW i \in 1..Len(rows)
    PROVE  RowOf(rows, rows[i].id) = rows[i]
<1>1. \A j \in 1..Len(rows) : rows[j].id = rows[i].id => j = i
  BY DEF DistinctIds
<1> QED
  BY <1>1 DEF RowOf

(* ... or none.                                                            *)
LEMMA RowOfNone ==
    ASSUME NEW rows, NEW k, \A i \in 1..Len(rows) : rows[i].id # k
    PROVE  RowOf(rows, k) = NoRow
BY DEF RowOf

(* Two tables with unique ids that hold the same rows of an id agree on it.*)
LEMMA RowOfSame ==
    ASSUME NEW rows, NEW left, DistinctIds(rows), DistinctIds(left), NEW k,
           \A i \in 1..Len(rows) : rows[i].id = k =>
              \E j \in 1..Len(left) : left[j] = rows[i],
           \A j \in 1..Len(left) : left[j].id = k =>
              \E i \in 1..Len(rows) : left[j] = rows[i]
    PROVE  RowOf(left, k) = RowOf(rows, k)
<1>1. CASE \E i \in 1..Len(rows) : rows[i].id = k
  <2>1. PICK i \in 1..Len(rows) : rows[i].id = k
    BY <1>1
  <2>2. PICK j \in 1..Len(left) : left[j] = rows[i]
    BY <2>1
  <2>3. RowOf(rows, k) = rows[i] /\ RowOf(left, k) = left[j]
    BY <2>1, <2>2, RowOfHeld
  <2> QED
    BY <2>2, <2>3
<1>2. CASE \A i \in 1..Len(rows) : rows[i].id # k
  <2>1. \A j \in 1..Len(left) : left[j].id # k
    BY <1>2
  <2> QED
    BY <1>2, <2>1, RowOfNone
<1> QED
  BY <1>1, <1>2

(* RowOf finds a row with the id, or nothing.                              *)
LEMMA RowOfType ==
    ASSUME NEW rows \in Seq(Row), NEW k
    PROVE  /\ RowOf(rows, k) \in Row \cup {NoRow}
           /\ RowOf(rows, k) # NoRow =>
                \E i \in 1..Len(rows) : rows[i] = RowOf(rows, k) /\ rows[i].id = k
BY ElementOfSeq DEF RowOf

(* A collecting loop takes no position twice.                              *)
LEMMA NthInjective ==
    ASSUME NEW N \in Nat, NEW I \in SUBSET (1..N),
           NEW n \in 1..Cardinality(I), NEW m \in 1..Cardinality(I),
           NthOf(I, n) = NthOf(I, m)
    PROVE  n = m
<1>1. CountBelow(I, NthOf(I, n)) = n - 1 /\ CountBelow(I, NthOf(I, m)) = m - 1
  BY NthThere
<1>2. Cardinality(I) \in Nat
  BY PositionsFinite
<1>3. n \in Int /\ m \in Int /\ n - 1 = m - 1
  BY <1>1, <1>2
<1> QED
  BY <1>3

(* Erasing an id from a table with unique ids.                             *)
LEMMA EraseRow ==
    ASSUME NEW rows \in Seq(Row), DistinctIds(rows), NEW k \in Key
    PROVE  /\ DistinctIds(EraseId(rows, k))
           /\ RowOf(EraseId(rows, k), k) = NoRow
           /\ \A q \in Key : q # k => RowOf(EraseId(rows, k), q) = RowOf(rows, q)
<1> DEFINE I == {i \in DOMAIN rows : rows[i].id = NoId \/ rows[i].id # k}
<1>0. Len(rows) \in Nat /\ DOMAIN rows = 1..Len(rows)
  BY LenProperties
<1>1. I \in SUBSET (1..Len(rows))
  BY <1>0
<1>2. \A i \in 1..Len(rows) : i \in I <=> rows[i].id # k
  BY <1>0, RowsAssumption
<1> HIDE DEF I
<1>3. PICK left \in Seq(Row) : left = Picked(rows, I)
  BY <1>1, PickedSeq
<1>4. /\ Len(left) = Cardinality(I)
      /\ \A n \in 1..Len(left) : NthOf(I, n) \in I /\ left[n] = rows[NthOf(I, n)]
      /\ \A i \in I : \E n \in 1..Len(left) : NthOf(I, n) = i
  BY <1>1, <1>3, PickedSeq
<1>5. \A n, m \in 1..Len(left) : NthOf(I, n) = NthOf(I, m) => n = m
  BY <1>0, <1>1, <1>4, NthInjective
<1>6. DistinctIds(left)
  <2>1. \A n \in 1..Len(left) : left[n].id # NoId
    BY <1>1, <1>4 DEF DistinctIds
  <2>2. ASSUME NEW n \in 1..Len(left), NEW m \in 1..Len(left), left[n].id = left[m].id
        PROVE  n = m
    <3>1. /\ NthOf(I, n) \in 1..Len(rows) /\ NthOf(I, m) \in 1..Len(rows)
          /\ left[n] = rows[NthOf(I, n)] /\ left[m] = rows[NthOf(I, m)]
      BY <1>1, <1>4
    <3>2. NthOf(I, n) = NthOf(I, m)
      BY <2>2, <3>1 DEF DistinctIds
    <3> QED
      BY <1>5, <3>2
  <2> QED
    BY <2>1, <2>2 DEF DistinctIds
<1>7. RowOf(left, k) = NoRow
  <2>1. \A n \in 1..Len(left) : left[n].id # k
    BY <1>1, <1>2, <1>4
  <2> QED
    BY <2>1, RowOfNone
<1>8. ASSUME NEW q \in Key, q # k
      PROVE  RowOf(left, q) = RowOf(rows, q)
  <2>1. \A i \in 1..Len(rows) : rows[i].id = q => \E n \in 1..Len(left) : left[n] = rows[i]
    BY <1>2, <1>4, <1>8
  <2>2. \A n \in 1..Len(left) : \E i \in 1..Len(rows) : left[n] = rows[i]
    BY <1>1, <1>4
  <2> QED
    BY <1>6, <2>1, <2>2, RowOfSame
<1> QED
  BY <1>3, <1>6, <1>7, <1>8 DEF EraseId, I

(* Putting an old row back over the row of its record.                     *)
LEMMA ReplaceRow ==
    ASSUME NEW rows \in Seq(Row), DistinctIds(rows), NEW i \in 1..Len(rows),
           NEW row \in Row, row.id \in Key,
           \A j \in 1..Len(rows) : j # i => rows[j].id # row.id
    PROVE  /\ DistinctIds([rows EXCEPT ![i] = row])
           /\ RowOf([rows EXCEPT ![i] = row], row.id) = row
           /\ row.id # rows[i].id => RowOf([rows EXCEPT ![i] = row], rows[i].id) = NoRow
           /\ \A q \in Key : q \notin {row.id, rows[i].id} =>
                RowOf([rows EXCEPT ![i] = row], q) = RowOf(rows, q)
<1>1. PICK left \in Seq(Row) : left = [rows EXCEPT ![i] = row]
  BY ExceptSeq
<1>2. /\ Len(left) = Len(rows)
      /\ \A j \in 1..Len(left) : left[j] = IF j = i THEN row ELSE rows[j]
  BY <1>1, LenProperties
<1>3. DistinctIds(left)
  BY <1>2, RowsAssumption DEF DistinctIds
<1>4. left[i] = row /\ RowOf(left, row.id) = row
  BY <1>2, <1>3, RowOfHeld
<1>5. ASSUME row.id # rows[i].id
      PROVE  RowOf(left, rows[i].id) = NoRow
  <2>1. \A j \in 1..Len(left) : left[j].id # rows[i].id
    BY <1>2, <1>5 DEF DistinctIds
  <2> QED
    BY <2>1, RowOfNone
<1>6. ASSUME NEW q \in Key, q \notin {row.id, rows[i].id}
      PROVE  RowOf(left, q) = RowOf(rows, q)
  <2>1. \A j \in 1..Len(rows) : rows[j].id = q => left[j] = rows[j]
    BY <1>2, <1>6
  <2>2. \A j \in 1..Len(left) : left[j].id = q => left[j] = rows[j]
    BY <1>2, <1>6
  <2> QED
    BY <1>2, <1>3, <2>1, <2>2, RowOfSame
<1> QED
  BY <1>1, <1>3, <1>4, <1>5, <1>6

(* What one round of the undo loop makes of the rows of its table.         *)
UndoneRows(rec, rows) ==
    LET i == SelectInSeq(rows, LAMBDA row : row.id # NoId /\ row.id = rec.key)
    IN  IF rec.type = Insert THEN EraseId(rows, rec.key)
        ELSE IF i = 0 THEN rows ELSE [rows EXCEPT ![i] = rec.old]

(* If the ids of a record are what it made of them, they are what they     *)
(* were before it when it is undone, and the others are what they are.     *)
LEMMA UndoRow ==
    ASSUME NEW rows \in Seq(Row), DistinctIds(rows),
           NEW rec \in Record, CarefulRecord(rec),
           \A k \in Touches(rec) : RowOf(rows, k) = NewOf(rec, k)
    PROVE  /\ DistinctIds(UndoneRows(rec, rows))
           /\ \A k \in Touches(rec) : RowOf(UndoneRows(rec, rows), k) = OldOf(rec, k)
           /\ \A k \in Key : k \notin Touches(rec) =>
                RowOf(UndoneRows(rec, rows), k) = RowOf(rows, k)
<1>1. rec.key \in Key /\ rec.key \in Touches(rec) /\ rec.key # NoId
  BY RowsAssumption DEF CarefulRecord, Touches
<1>2. CASE rec.type = Insert
  <2>1. rec.old = NoRow /\ Touches(rec) = {rec.key}
    BY <1>2 DEF Record, Touches
  <2>2. UndoneRows(rec, rows) = EraseId(rows, rec.key)
    BY <1>2 DEF UndoneRows
  <2>3. OldOf(rec, rec.key) = NoRow
    BY <2>1 DEF OldOf
  <2> QED
    BY <1>1, <2>1, <2>2, <2>3, EraseRow
<1>3. CASE rec.type # Insert
  <2> DEFINE I == {j \in 1..Len(rows) : rows[j].id # NoId /\ rows[j].id = rec.key}
             i == SelectInSeq(rows, LAMBDA row : row.id # NoId /\ row.id = rec.key)
  <2>1. rec.old \in Row /\ rec.old # NoRow /\ rec.old.id \in Key /\ rec.old.id # NoId
    BY <1>3, RowsAssumption DEF Record, CarefulRecord
  <2>2. Touches(rec) = {rec.key, rec.old.id}
    BY <2>1 DEF Touches, KeyOf
  <2>3. rec.new # NoRow /\ rec.new.id = rec.key
    BY RowsAssumption DEF CarefulRecord, Row
  <2>4. RowOf(rows, rec.key) = rec.new
    BY <1>1, <2>3 DEF NewOf
  <2>5. I # {} /\ I \in SUBSET Nat
    <3>1. \E j \in 1..Len(rows) : rows[j].id = rec.key
      BY <2>3, <2>4 DEF RowOf
    <3>2. I # {}
      BY <1>1, <3>1
    <3>3. \A j \in 1..Len(rows) : j \in Nat
      OBVIOUS
    <3> QED
      BY <3>2, <3>3
  <2>6. i = Min(I)
    <3>1. i = IF I # {} THEN Min(I) ELSE 0
      BY DEF SelectInSeq
    <3> HIDE DEF i, I
    <3> QED
      BY <2>5, <3>1
  <2>7. i \in I
    <3> HIDE DEF i, I
    <3> QED
      BY <2>5, <2>6, MinIsLeast
  <2>8. i \in 1..Len(rows) /\ rows[i].id = rec.key /\ i # 0
    <3>1. \A j \in I : j \in 1..Len(rows) /\ rows[j].id = rec.key /\ j # 0
      OBVIOUS
    <3> HIDE DEF i, I
    <3> QED
      BY <2>7, <3>1
  <2>9. UndoneRows(rec, rows) = [rows EXCEPT ![i] = rec.old]
    <3>1. UndoneRows(rec, rows) = IF rec.type = Insert THEN EraseId(rows, rec.key)
                                  ELSE IF i = 0 THEN rows ELSE [rows EXCEPT ![i] = rec.old]
      BY DEF UndoneRows
    <3> HIDE DEF i
    <3> QED
      BY <1>3, <2>8, <3>1
  <2> HIDE DEF i, I
  <2>10. \A j \in 1..Len(rows) : j # i => rows[j].id # rec.old.id
    <3>1. CASE rec.old.id = rec.key
      BY <2>8, <3>1 DEF DistinctIds
    <3>2. CASE rec.old.id # rec.key
      <4>1. RowOf(rows, rec.old.id) = NoRow
        BY <2>2, <2>3, <3>2 DEF NewOf
      <4>2. \A j \in 1..Len(rows) : rows[j] # NoRow
        <5>1. \A j \in 1..Len(rows) : rows[j] \in Row
          BY ElementOfSeq
        <5> QED
          BY <5>1, RowsAssumption DEF Row
      <4>3. \A j \in 1..Len(rows) : rows[j].id # rec.old.id
        BY <4>1, <4>2, RowOfHeld
      <4> QED
        BY <4>3
    <3> QED
      BY <3>1, <3>2
  <2>11. /\ DistinctIds([rows EXCEPT ![i] = rec.old])
         /\ RowOf([rows EXCEPT ![i] = rec.old], rec.old.id) = rec.old
         /\ rec.old.id # rec.key => RowOf([rows EXCEPT ![i] = rec.old], rec.key) = NoRow
         /\ \A q \in Key : q \notin {rec.old.id, rec.key} =>
              RowOf([rows EXCEPT ![i] = rec.old], q) = RowOf(rows, q)
    <3>1. PICK old \in Row : old = rec.old
      BY <2>1
    <3>2. old.id \in Key /\ \A j \in 1..Len(rows) : j # i => rows[j].id # old.id
      BY <2>1, <2>10, <3>1
    <3>3. /\ DistinctIds([rows EXCEPT ![i] = old])
          /\ RowOf([rows EXCEPT ![i] = old], old.id) = old
          /\ old.id # rows[i].id => RowOf([rows EXCEPT ![i] = old], rows[i].id) = NoRow
          /\ \A q \in Key : q \notin {old.id, rows[i].id} =>
               RowOf([rows EXCEPT ![i] = old], q) = RowOf(rows, q)
      BY <2>8, <3>2, ReplaceRow
    <3> QED
      BY <2>8, <3>1, <3>3
  <2>12. OldOf(rec, rec.old.id) = rec.old /\ (rec.old.id # rec.key => OldOf(rec, rec.key) = NoRow)
    BY <2>1 DEF OldOf
  <2> QED
    BY <2>2, <2>9, <2>11, <2>12
<1> QED
  BY <1>2, <1>3

(* Where the records about an id are.                                      *)
LEMMA TouchingType ==
    ASSUME TypeOK, NEW t \in Begun, NEW tb, NEW k
    PROVE  /\ Len(txns[t].log) \in Nat
           /\ Touching(t, tb, k) \in SUBSET (1..Len(txns[t].log))
           /\ k \in KeysWritten(t, tb) <=> Touching(t, tb, k) # {}
<1>1. txns[t].log \in Seq(Record)
  BY TxnType
<1>2. Len(txns[t].log) \in Nat /\ DOMAIN txns[t].log = 1..Len(txns[t].log)
  BY <1>1, LenProperties
<1> QED
  BY <1>2 DEF Touching, KeysWritten

(* The value of an id before a record: what the record says it was, or     *)
(* what it is after it if the record is not about it.                      *)
LEMMA BeforeRecord ==
    ASSUME TypeOK, NEW t \in Begun, NEW i \in 1..Len(txns[t].log), NEW tb, NEW k
    PROVE  AfterFirst(t, tb, k, i - 1) =
             IF txns[t].log[i].table = tb /\ k \in Touches(txns[t].log[i])
               THEN OldOf(txns[t].log[i], k) ELSE AfterFirst(t, tb, k, i)
<1> DEFINE Now   == {j \in Touching(t, tb, k) : j > i - 1}
           Later == {j \in Touching(t, tb, k) : j > i}
<1>1. Touching(t, tb, k) \in SUBSET (1..Len(txns[t].log)) /\ Len(txns[t].log) \in Nat
  BY TouchingType
<1>2. DOMAIN txns[t].log = 1..Len(txns[t].log)
  BY TxnType, LenProperties
<1>3. \A j \in Touching(t, tb, k) : j \in Nat /\ (j > i - 1 <=> j > i \/ j = i)
  BY <1>1
<1>4. CASE txns[t].log[i].table = tb /\ k \in Touches(txns[t].log[i])
  <2>1. i \in Touching(t, tb, k) /\ i \in Nat
    BY <1>2, <1>4 DEF Touching
  <2>2. i \in Now /\ \A j \in Now : i <= j
    BY <1>3, <2>1
  <2>3. Now \in SUBSET Nat
    BY <1>3
  <2>4. AfterFirst(t, tb, k, i - 1) =
          IF Now = {} THEN RowOf(RowsOf(storage, tb), k) ELSE OldOf(txns[t].log[Min(Now)], k)
    BY DEF AfterFirst
  <2> HIDE DEF Now
  <2>5. Min(Now) \in Now /\ Min(Now) <= i
    BY <2>2, <2>3, MinIsLeast
  <2>6. i <= Min(Now) /\ Min(Now) \in Nat
    BY <2>2, <2>3, <2>5
  <2>7. Min(Now) = i
    BY <2>1, <2>5, <2>6
  <2> QED
    BY <1>4, <2>2, <2>4, <2>7
<1>5. CASE ~(txns[t].log[i].table = tb /\ k \in Touches(txns[t].log[i]))
  <2>1. i \notin Touching(t, tb, k)
    BY <1>5 DEF Touching
  <2>2. Now = Later
    BY <1>3, <2>1
  <2>3. AfterFirst(t, tb, k, i - 1) =
          IF Now = {} THEN RowOf(RowsOf(storage, tb), k) ELSE OldOf(txns[t].log[Min(Now)], k)
    BY DEF AfterFirst
  <2>4. AfterFirst(t, tb, k, i) =
          IF Later = {} THEN RowOf(RowsOf(storage, tb), k) ELSE OldOf(txns[t].log[Min(Later)], k)
    BY DEF AfterFirst
  <2> HIDE DEF Now, Later
  <2> QED
    BY <1>5, <2>2, <2>3, <2>4
<1> QED
  BY <1>4, <1>5

(* After all its records an id is what the table says.                     *)
LEMMA AfterAll ==
    ASSUME TypeOK, NEW t \in Begun, NEW tb, NEW k
    PROVE  AfterFirst(t, tb, k, Len(txns[t].log)) = RowOf(RowsOf(storage, tb), k)
<1>1. Touching(t, tb, k) \in SUBSET (1..Len(txns[t].log)) /\ Len(txns[t].log) \in Nat
  BY TouchingType
<1>2. {j \in Touching(t, tb, k) : j > Len(txns[t].log)} = {}
  BY <1>1
<1> QED
  BY <1>2 DEF AfterFirst

(* What RowsOf finds in tables with unique ids has unique ids.             *)
LEMMA UniqueRows ==
    ASSUME Unique, NEW tb
    PROVE  DistinctIds(RowsOf(storage, tb))
<1>1. DistinctIds(<<>>)
  BY DEF DistinctIds
<1> QED
  BY <1>1 DEF Unique, RowsOf

(* The rollback of a careful transaction gives every id the value it had   *)
(* before the first record about it.                                       *)
LEMMA UndoneBack ==
    ASSUME TypeOK, Unique, CarefulLogs, Chained, NEW t \in ActiveTxns
    PROVE  /\ Undone(t) \in Tables
           /\ \A tb \in Table : DistinctIds(RowsOf(Undone(t), tb))
           /\ \A tb \in Table, k \in Key :
                RowOf(RowsOf(Undone(t), tb), k) = AfterFirst(t, tb, k, 0)
<1> DEFINE log == txns[t].log
           n == Len(log)
           Good(st, i) == /\ st \in Tables
                          /\ \A tb \in Table : DistinctIds(RowsOf(st, tb))
                          /\ \A tb \in Table, k \in Key :
                               RowOf(RowsOf(st, tb), k) = AfterFirst(t, tb, k, i)
           P == [i \in 0..n |-> {st \in Tables : Good(st, i)}]
<1>1. t \in Begun /\ log \in Seq(Record) /\ n \in Nat
  BY TxnType, LenProperties DEF ActiveTxns
<1>2. \A i \in 0..n : \A st : st \in P[i] <=> Good(st, i)
  OBVIOUS
<1>3. /\ 0 \in 0..n /\ n \in 0..n
      /\ \A i \in 1..n : i \in 0..n /\ i - 1 \in 0..n
  BY <1>1
<1> HIDE DEF P
<1>4. storage \in P[n]
  <2>1. Good(storage, n)
    BY <1>1, UniqueRows, AfterAll DEF TypeOK
  <2> QED
    BY <1>2, <1>3, <2>1
<1>5. ASSUME NEW i \in 1..n, NEW st \in P[i] PROVE UndoChange(log[i], st) \in P[i - 1]
  <2>1. PICK rec \in Record : rec = log[i] /\ CarefulRecord(rec)
    BY <1>1, ElementOfSeq DEF CarefulLogs
  <2>2. Good(st, i)
    BY <1>2, <1>3
  <2>3. rec.table \in Table
    BY DEF Record
  <2> DEFINE rows == RowsOf(st, rec.table)
             left == UndoneRows(rec, rows)
  <2>4. rows \in Seq(Row) /\ DistinctIds(rows)
    BY <2>2, <2>3, RowsOfType
  <2>5. Touches(rec) \subseteq Key
    BY <2>1, RowsAssumption DEF Touches, CarefulRecord, KeyOf
  <2>6. \A k \in Touches(rec) : RowOf(rows, k) = NewOf(rec, k)
    <3> SUFFICES ASSUME NEW k \in Touches(rec)
                 PROVE  RowOf(rows, k) = NewOf(rec, k)
      OBVIOUS
    <3>1. i \in Touching(t, rec.table, k)
      BY <1>1, <2>1, LenProperties DEF Touching
    <3>2. NewOf(rec, k) = AfterFirst(t, rec.table, k, i)
      BY <2>1, <2>3, <2>5, <3>1 DEF Chained
    <3> QED
      BY <2>2, <2>3, <2>5, <3>2
  <2>7. /\ DistinctIds(left)
        /\ \A k \in Touches(rec) : RowOf(left, k) = OldOf(rec, k)
        /\ \A k \in Key : k \notin Touches(rec) => RowOf(left, k) = RowOf(rows, k)
    <3> HIDE DEF rows
    <3> QED
      BY <2>1, <2>4, <2>6, UndoRow
  <2>8. UndoChange(rec, st) = Put(st, rec.table, left)
    BY DEF UndoChange, UndoneRows
  <2>9. \A tb : RowsOf(UndoChange(rec, st), tb) = IF tb = rec.table THEN left ELSE RowsOf(st, tb)
    BY <2>8 DEF RowsOf, Put
  <2>10. UndoChange(rec, st) \in Tables
    BY <2>2, UndoType
  <2> HIDE DEF left
  <2>11. ASSUME NEW tb \in Table, NEW k \in Key
         PROVE  RowOf(RowsOf(UndoChange(rec, st), tb), k) = AfterFirst(t, tb, k, i - 1)
    <3>1. AfterFirst(t, tb, k, i - 1) =
            IF rec.table = tb /\ k \in Touches(rec) THEN OldOf(rec, k)
                                                     ELSE AfterFirst(t, tb, k, i)
      BY <1>1, <2>1, BeforeRecord
    <3>2. RowOf(RowsOf(st, tb), k) = AfterFirst(t, tb, k, i)
      BY <2>2
    <3>3. CASE tb # rec.table
      BY <2>9, <3>1, <3>2, <3>3
    <3>4. CASE tb = rec.table
      BY <2>7, <2>9, <3>1, <3>2, <3>4
    <3> QED
      BY <3>3, <3>4
  <2>12. Good(UndoChange(rec, st), i - 1)
    BY <2>2, <2>7, <2>9, <2>10, <2>11
  <2> QED
    BY <1>2, <1>3, <2>1, <2>12
<1>6. Undone(t) \in P[0]
  <2> HIDE DEF n
  <2>1. FoldRight(UndoChange, log, storage) \in P[0]
    BY <1>1, <1>4, <1>5, UndoPasses DEF n
  <2> QED
    BY <2>1 DEF Undone
<1> QED
  BY <1>2, <1>3, <1>6

(* What a statement of a careful client does to the rows old of a table:   *)
(* it leaves rows with unique ids, and its records, no two about one id,   *)
(* say what their ids were and became; no other id changes.                *)
Rewrites(tb, old, rows, recs) ==
    /\ rows \in Seq(Row) /\ recs \in Seq(Record) /\ DistinctIds(rows)
    /\ \A i \in 1..Len(recs) : recs[i].table = tb /\ CarefulRecord(recs[i])
    /\ \A i \in 1..Len(recs) : \A k \in Touches(recs[i]) :
          OldOf(recs[i], k) = RowOf(old, k) /\ NewOf(recs[i], k) = RowOf(rows, k)
    /\ \A i, j \in 1..Len(recs) : \A k : k \in Touches(recs[i]) /\ k \in Touches(recs[j]) => i = j
    /\ \A k \in Key : (\A i \in 1..Len(recs) : k \notin Touches(recs[i]))
                         => RowOf(rows, k) = RowOf(old, k)

CarefulExecutes(t, tb) ==
    \E rows \in Seq(Row), recs \in Seq(Record) :
        /\ Rewrites(tb, RowsOf(storage, tb), rows, recs)
        /\ Execute(t, tb, rows, recs)

(* An insert does so.                                                      *)
LEMMA InsertRewrites ==
    ASSUME NEW tb \in Table, NEW old \in Seq(Row), DistinctIds(old), NEW row \in Row,
           DistinctIds(Append(old, row))
    PROVE  Rewrites(tb, old, Append(old, row),
                    <<Change(Insert, tb, KeyOf(row), NoRow, row)>>)
<1> DEFINE rec  == Change(Insert, tb, KeyOf(row), NoRow, row)
           recs == <<rec>>
<1>1. PICK rows \in Seq(Row) : rows = Append(old, row)
  BY AppendProperties
<1>2. PICK n \in Nat : n = Len(old)
  BY LenProperties
<1>3. /\ Len(rows) = n + 1 /\ rows[n + 1] = row
      /\ \A i \in 1..n : rows[i] = old[i]
  BY <1>1, <1>2, AppendProperties
<1>4. /\ n + 1 \in 1..Len(rows) /\ \A i \in 1..n : i \in 1..Len(rows) /\ i # n + 1
      /\ \A i \in 1..Len(rows) : i \in 1..n \/ i = n + 1
  BY <1>2, <1>3
<1>5. row.id # NoId /\ \A i \in 1..n : old[i].id # row.id
  BY <1>1, <1>3, <1>4 DEF DistinctIds
<1>6. row.id \in Key /\ KeyOf(row) = row.id
  BY <1>5 DEF Row, KeyOf
<1>7. rec \in Record /\ recs \in Seq(Record) /\ Len(recs) = 1 /\ recs[1] = rec
  BY ChangeType
<1>8. /\ rec.table = tb /\ rec.key = row.id /\ rec.old = NoRow /\ rec.new = row
      /\ rec.type = Insert /\ Touches(rec) = {row.id}
  BY <1>6 DEF Change, Touches
<1>9. row # NoRow
  BY RowsAssumption DEF Row
<1>10. CarefulRecord(rec)
  BY <1>6, <1>8 DEF CarefulRecord, Insert, Delete
<1>11. OldOf(rec, row.id) = NoRow /\ RowOf(old, row.id) = NoRow
  BY <1>2, <1>5, <1>8, RowOfNone DEF OldOf
<1>12. NewOf(rec, row.id) = row /\ RowOf(rows, row.id) = row
  BY <1>1, <1>3, <1>4, <1>8, <1>9, RowOfHeld DEF NewOf
<1>13. ASSUME NEW k \in Key, k # row.id PROVE RowOf(rows, k) = RowOf(old, k)
  <2>1. \A i \in 1..Len(old) : old[i].id = k => \E j \in 1..Len(rows) : rows[j] = old[i]
    BY <1>2, <1>3, <1>4
  <2>2. \A j \in 1..Len(rows) : rows[j].id = k => \E i \in 1..Len(old) : rows[j] = old[i]
    BY <1>2, <1>3, <1>4, <1>13
  <2> QED
    BY <1>1, <2>1, <2>2, RowOfSame
<1> HIDE DEF rec
<1>14. \A i \in 1..Len(recs) : i = 1 /\ recs[i] = rec
  BY <1>7
<1>15. 1 \in 1..Len(recs)
  BY <1>7
<1> HIDE DEF recs
<1>16. Rewrites(tb, old, rows, recs)
  BY <1>1, <1>7, <1>8, <1>10, <1>11, <1>12, <1>13, <1>14, <1>15 DEF Rewrites
<1> QED
  BY <1>1, <1>16 DEF rec, recs

(* An update that changes the rows at the positions I, one to one with its *)
(* records, does so: it changes no id, or only one row.                    *)
LEMMA UpdateRewrites ==
    ASSUME NEW tb \in Table, NEW old \in Seq(Row), DistinctIds(old),
           NEW rows \in Seq(Row), DistinctIds(rows), Len(rows) = Len(old),
           NEW I \in SUBSET (1..Len(old)),
           \A i \in 1..Len(old) : i \notin I => rows[i] = old[i],
           \/ \A i \in I : rows[i].id = old[i].id
           \/ \A i, j \in I : i = j,
           NEW recs \in Seq(Record), NEW at \in [1..Len(recs) -> I],
           \A n \in 1..Len(recs) : recs[n] = UpdateRecord(tb, old[at[n]], rows[at[n]]),
           \A n, m \in 1..Len(recs) : at[n] = at[m] => n = m,
           \A i \in I : \E n \in 1..Len(recs) : at[n] = i
    PROVE  Rewrites(tb, old, rows, recs)
<1>1. /\ \A i \in 1..Len(old) : old[i] \in Row /\ rows[i] \in Row
      /\ \A i \in 1..Len(old) : old[i].id # NoId /\ rows[i].id # NoId
      /\ \A i \in I : i \in 1..Len(old) /\ i \in 1..Len(rows)
  BY ElementOfSeq DEF DistinctIds
<1>2. \A i \in 1..Len(old) : /\ old[i].id \in Key /\ rows[i].id \in Key
                             /\ old[i] # NoRow /\ rows[i] # NoRow
                             /\ KeyOf(old[i]) = old[i].id /\ KeyOf(rows[i]) = rows[i].id
  BY <1>1, RowsAssumption DEF Row, KeyOf
<1>3. /\ \A i, j \in 1..Len(old) : old[i].id = old[j].id => i = j
      /\ \A i, j \in 1..Len(old) : rows[i].id = rows[j].id => i = j
  BY DEF DistinctIds
<1>4. ASSUME NEW n \in 1..Len(recs)
      PROVE  /\ at[n] \in I
             /\ recs[n].table = tb /\ recs[n].type = Update
             /\ recs[n].key = rows[at[n]].id
             /\ recs[n].old = old[at[n]] /\ recs[n].new = rows[at[n]]
             /\ Touches(recs[n]) = {rows[at[n]].id, old[at[n]].id}
  <2>1. at[n] \in I /\ at[n] \in 1..Len(old)
    BY <1>1
  <2>2. recs[n] = Change(Update, tb, rows[at[n]].id, old[at[n]], rows[at[n]])
    BY <1>2, <2>1 DEF UpdateRecord
  <2>3. /\ recs[n].table = tb /\ recs[n].type = Update
        /\ recs[n].key = rows[at[n]].id
        /\ recs[n].old = old[at[n]] /\ recs[n].new = rows[at[n]]
    BY <2>2 DEF Change
  <2> QED
    BY <1>2, <2>1, <2>3 DEF Touches
<1>5. ASSUME NEW n \in 1..Len(recs) PROVE CarefulRecord(recs[n])
  <2>1. at[n] \in 1..Len(old)
    BY <1>1, <1>4
  <2> QED
    BY <1>1, <1>2, <1>4, <2>1 DEF CarefulRecord, Update, Delete
<1>6. ASSUME NEW n \in 1..Len(recs), NEW k \in Touches(recs[n])
      PROVE  OldOf(recs[n], k) = RowOf(old, k) /\ NewOf(recs[n], k) = RowOf(rows, k)
  <2>1. PICK p \in I : p = at[n]
    BY <1>4
  <2>2. p \in 1..Len(old) /\ p \in 1..Len(rows)
    BY <1>1
  <2>3. /\ recs[n].old = old[p] /\ recs[n].new = rows[p]
        /\ old[p] # NoRow /\ rows[p] # NoRow
    <3>1. recs[n].old = old[at[n]] /\ recs[n].new = rows[at[n]]
      BY <1>4
    <3>2. recs[n].old = old[p] /\ recs[n].new = rows[p]
      BY <2>1, <3>1, Zenon
    <3>3. old[p] # NoRow /\ rows[p] # NoRow
      BY <1>2, <2>2
    <3> QED
      BY <3>2, <3>3
  <2>4. k = rows[p].id \/ k = old[p].id
    <3>1. Touches(recs[n]) = {rows[at[n]].id, old[at[n]].id}
      BY <1>4
    <3>2. k = rows[at[n]].id \/ k = old[at[n]].id
      BY <3>1, Zenon
    <3> QED
      BY <2>1, <3>2, Zenon
  <2>5. OldOf(recs[n], k) = RowOf(old, k)
    <3>1. CASE old[p].id = k
      <4>1. OldOf(recs[n], k) = recs[n].old
        BY <2>3, <3>1 DEF OldOf
      <4>2. RowOf(old, k) = old[p]
        BY <2>2, <3>1, RowOfHeld
      <4> QED
        BY <2>3, <4>1, <4>2
    <3>2. CASE old[p].id # k
      <4>1. \A q \in 1..Len(old) : old[q].id # k
        BY <1>1, <1>3, <2>2, <2>4, <3>2
      <4>2. OldOf(recs[n], k) = NoRow
        BY <2>3, <3>2 DEF OldOf
      <4> QED
        BY <4>1, <4>2, RowOfNone
    <3> QED
      BY <3>1, <3>2
  <2>6. NewOf(recs[n], k) = RowOf(rows, k)
    <3>1. CASE rows[p].id = k
      <4>1. NewOf(recs[n], k) = recs[n].new
        BY <2>3, <3>1 DEF NewOf
      <4>2. RowOf(rows, k) = rows[p]
        BY <2>2, <3>1, RowOfHeld
      <4> QED
        BY <2>3, <4>1, <4>2
    <3>2. CASE rows[p].id # k
      <4>1. \A q \in 1..Len(rows) : rows[q].id # k
        BY <1>1, <1>3, <2>2, <2>4, <3>2
      <4>2. NewOf(recs[n], k) = NoRow
        BY <2>3, <3>2 DEF NewOf
      <4> QED
        BY <4>1, <4>2, RowOfNone
    <3> QED
      BY <3>1, <3>2
  <2> QED
    BY <2>5, <2>6
<1>7. ASSUME NEW n \in 1..Len(recs), NEW m \in 1..Len(recs), NEW k,
             k \in Touches(recs[n]), k \in Touches(recs[m])
      PROVE  n = m
  <2>1. PICK p \in I, q \in I : p = at[n] /\ q = at[m]
    BY <1>4
  <2>2. k \in {rows[p].id, old[p].id} /\ k \in {rows[q].id, old[q].id}
    BY <1>4, <1>7, <2>1
  <2>3. p = q
    BY <1>1, <1>3, <2>2
  <2> QED
    BY <2>1, <2>3
<1>8. ASSUME NEW k \in Key, \A n \in 1..Len(recs) : k \notin Touches(recs[n])
      PROVE  RowOf(rows, k) = RowOf(old, k)
  <2>1. ASSUME NEW i \in I PROVE old[i].id # k /\ rows[i].id # k
    <3>1. PICK n \in 1..Len(recs) : at[n] = i
      OBVIOUS
    <3>2. Touches(recs[n]) = {rows[i].id, old[i].id}
      BY <1>4, <3>1
    <3> QED
      BY <1>8, <3>2
  <2>2. /\ \A i \in 1..Len(old) : old[i].id = k => rows[i] = old[i]
        /\ \A i \in 1..Len(rows) : rows[i].id = k => rows[i] = old[i]
    BY <2>1
  <2> QED
    BY <2>2, RowOfSame
<1> QED
  BY <1>4, <1>5, <1>6, <1>7, <1>8 DEF Rewrites

(* The inserts of clients that keep ids unique.                            *)
LEMMA InsertCareful ==
    ASSUME FreshIds, TypeOK, Unique, NEW t, NEW tb \in Table, NEW row \in Row,
           ExecuteInsert(t, tb, row)
    PROVE  CarefulExecutes(t, tb)
<1>1. PICK old \in Seq(Row) : old = storage[tb]
  BY DEF ExecuteInsert, TypeOK, Tables
<1>2. RowsOf(storage, tb) = old /\ DistinctIds(old)
  BY <1>1 DEF ExecuteInsert, RowsOf, Unique
<1>3. PICK recs : recs = <<Change(Insert, tb, KeyOf(row), NoRow, row)>>
  OBVIOUS
<1>4. Execute(t, tb, Append(old, row), recs)
  BY <1>1, <1>3 DEF ExecuteInsert
<1>5. DistinctIds(Append(old, row))
  BY <1>4 DEF Execute
<1>6. Rewrites(tb, old, Append(old, row), recs)
  BY <1>2, <1>3, <1>5, InsertRewrites
<1>7. Append(old, row) \in Seq(Row) /\ recs \in Seq(Record)
  BY <1>6 DEF Rewrites
<1> QED
  BY <1>2, <1>4, <1>6, <1>7 DEF CarefulExecutes

(* Their updates, of a column that is not the id or of the id.             *)
LEMMA UpdateCareful ==
    ASSUME FreshIds, TypeOK, Unique, NEW t, NEW tb \in Table, NEW where \in SUBSET Row,
           NEW col, NEW x, ExecuteUpdate(t, tb, where, col, x),
           \A row \in Row : Assigned(row, col, x) \in Row,
           \/ \A row \in Row : Assigned(row, col, x).id = row.id
           \/ \A row \in Row : Assigned(row, col, x).id = x
    PROVE  CarefulExecutes(t, tb)
<1>1. PICK old \in Seq(Row) : old = storage[tb]
  BY DEF ExecuteUpdate, TypeOK, Tables
<1>2. RowsOf(storage, tb) = old /\ DistinctIds(old)
  BY <1>1 DEF ExecuteUpdate, RowsOf, Unique
<1>3. PICK len \in Nat : len = Len(old) /\ DOMAIN old = 1..len
  BY LenProperties
<1>4. \A i \in 1..len : old[i] \in Row
  BY <1>3, ElementOfSeq
<1>5. PICK I \in SUBSET (1..len) : I = {i \in DOMAIN old : old[i] \in where}
  BY <1>3
<1>6. PICK hits \in Seq(Row) : hits = Matching(old, where)
  BY MatchingType
<1>7. hits = Picked(old, I)
  BY <1>5, <1>6 DEF Matching
<1>8. PICK c \in Nat : c = Cardinality(I)
  BY <1>3, <1>5, PositionsFinite
<1>9. /\ Len(hits) = c
      /\ \A n \in 1..c : NthOf(I, n) \in I /\ hits[n] = old[NthOf(I, n)]
      /\ \A i \in I : \E n \in 1..c : NthOf(I, n) = i
  BY <1>3, <1>7, <1>8, PickedSeq
<1> DEFINE after(i) == IF old[i] \in where THEN Assigned(old[i], col, x) ELSE old[i]
           record(n) == UpdateRecord(tb, hits[n], Assigned(hits[n], col, x))
<1>10. PICK rows : rows = [i \in 1..len |-> after(i)]
  OBVIOUS
<1>11. PICK recs : recs = [n \in 1..c |-> record(n)]
  OBVIOUS
<1>12. Execute(t, tb, rows, recs)
  BY <1>1, <1>3, <1>6, <1>9, <1>10, <1>11 DEF ExecuteUpdate
<1>13. \A i \in 1..len : rows[i] = after(i) /\ rows[i] \in Row
  <2>1. \A i \in 1..len : after(i) \in Row
    BY <1>4
  <2> HIDE DEF after
  <2> QED
    BY <1>10, <2>1
<1>14. rows \in Seq(Row) /\ Len(rows) = len
  <2>1. rows \in [1..len -> Row]
    BY <1>10, <1>13
  <2>2. rows \in Seq(Row)
    BY <2>1, SeqDef
  <2> QED
    BY <1>3, <2>1, <2>2, LenProperties
<1>15. \A i \in 1..len : i \in I <=> old[i] \in where
  BY <1>3, <1>5
<1>16. /\ \A i \in 1..len : i \notin I => rows[i] = old[i]
       /\ \A i \in I : rows[i] = Assigned(old[i], col, x)
  BY <1>13, <1>15
<1>17. DistinctIds(rows)
  BY <1>12 DEF Execute
<1>18. \/ \A i \in I : rows[i].id = old[i].id
       \/ \A i, j \in I : i = j
  <2>1. CASE \A row \in Row : Assigned(row, col, x).id = row.id
    BY <1>4, <1>5, <1>16, <2>1
  <2>2. CASE \A row \in Row : Assigned(row, col, x).id = x
    <3>1. \A i \in I : rows[i].id = x /\ i \in 1..Len(rows)
      BY <1>4, <1>5, <1>14, <1>16, <2>2
    <3>2. \A i, j \in I : i = j
      BY <1>17, <3>1 DEF DistinctIds
    <3> QED
      BY <3>2
  <2> QED
    BY <2>1, <2>2
<1>19. PICK at : at = [n \in 1..c |-> NthOf(I, n)]
  OBVIOUS
<1>20. \A n \in 1..c : at[n] = NthOf(I, n) /\ at[n] \in I
  BY <1>9, <1>19
<1>21. at \in [1..c -> I]
  BY <1>9, <1>19
<1>22. \A n \in 1..c : recs[n] = UpdateRecord(tb, old[at[n]], rows[at[n]])
  <2> TAKE n \in 1..c
  <2>1. recs[n] = UpdateRecord(tb, hits[n], Assigned(hits[n], col, x))
    BY <1>11
  <2>2. hits[n] = old[at[n]] /\ rows[at[n]] = Assigned(old[at[n]], col, x)
    BY <1>9, <1>16, <1>20
  <2> QED
    BY <2>1, <2>2, Zenon
<1>23. recs \in Seq(Record) /\ Len(recs) = c
  <2>1. \A n \in 1..c : recs[n] \in Record
    <3>1. \A n \in 1..c : old[at[n]] \in Row /\ rows[at[n]] \in Row
      BY <1>4, <1>5, <1>13, <1>20
    <3> QED
      BY <1>22, <3>1, ChangeType
  <2>2. recs = [n \in 1..c |-> recs[n]]
    BY <1>11
  <2>3. recs \in [1..c -> Record]
    BY <2>1, <2>2
  <2>4. recs \in Seq(Record)
    BY <2>3, SeqDef
  <2>5. Len(recs) = c
    BY <1>8, <1>11
  <2> QED
    BY <2>4, <2>5
<1>24. ASSUME NEW n \in 1..c, NEW m \in 1..c, at[n] = at[m] PROVE n = m
  <2>1. NthOf(I, n) = NthOf(I, m)
    BY <1>20, <1>24
  <2>2. n \in 1..Cardinality(I) /\ m \in 1..Cardinality(I)
    BY <1>8
  <2> QED
    BY <1>3, <1>5, <2>1, <2>2, NthInjective
<1>25. \A i \in I : \E n \in 1..c : at[n] = i
  BY <1>9, <1>20
<1>26. Rewrites(tb, old, rows, recs)
  <2>1. /\ Len(rows) = Len(old) /\ I \in SUBSET (1..Len(old))
        /\ at \in [1..Len(recs) -> I]
    BY <1>3, <1>5, <1>14, <1>21, <1>23
  <2>2. \A i \in 1..Len(old) : i \notin I => rows[i] = old[i]
    BY <1>3, <1>16
  <2>3. /\ \A n \in 1..Len(recs) : recs[n] = UpdateRecord(tb, old[at[n]], rows[at[n]])
        /\ \A n, m \in 1..Len(recs) : at[n] = at[m] => n = m
        /\ \A i \in I : \E n \in 1..Len(recs) : at[n] = i
    BY <1>22, <1>23, <1>24, <1>25
  <2> HIDE DEF after, record
  <2> QED
    BY <1>2, <1>14, <1>17, <1>18, <1>23, <2>1, <2>2, <2>3, UpdateRewrites, ZenonT(60)
<1> QED
  BY <1>2, <1>12, <1>14, <1>23, <1>26 DEF CarefulExecutes

(* The steps of careful clients that do not delete.                        *)
LEMMA CarefulSteps ==
    ASSUME FreshIds, ~Deletes, TypeOK, Unique, [Next]_vars
    PROVE  \/ Begin
           \/ \E t \in Begun, r \in Resource, m \in LM!LockMode : Acquire(t, r, m)
           \/ \E t \in ActiveTxns : Commit(t)
           \/ \E t \in ActiveTxns : Rollback(t)
           \/ \E t \in Writers, tb \in Table : CarefulExecutes(t, tb)
           \/ \E tb \in Table : ExecuteCreateTable(tb)
           \/ UNCHANGED vars
<1>1. ASSUME NEW t \in Begun, NEW r \in Resource, NEW m \in Modes, Acquire(t, r, m)
      PROVE  \E u \in Begun, q \in Resource, n \in LM!LockMode : Acquire(u, q, n)
  <2>1. m \in LM!LockMode
    BY TransactionsAssumption DEF LM!LockMode, LM!Shared, LM!Exclusive
  <2> QED
    BY <1>1, <2>1
<1>2. \A where \in Predicate : where \in SUBSET Row
  BY DEF Predicate
<1>3. ASSUME NEW t \in Writers, NEW tb \in Table, NEW where \in Predicate, NEW v \in Val,
             ExecuteUpdate(t, tb, where, "val", v)
      PROVE  CarefulExecutes(t, tb)
  <2>1. \A row \in Row : Assigned(row, "val", v) \in Row /\ Assigned(row, "val", v).id = row.id
    BY DEF Assigned, Row
  <2> QED
    BY <1>2, <1>3, <2>1, UpdateCareful
<1>4. ASSUME NEW t \in Writers, NEW tb \in Table, NEW where \in Predicate, NEW k \in Key,
             ExecuteUpdate(t, tb, where, "id", k)
      PROVE  CarefulExecutes(t, tb)
  <2>1. \A row \in Row : Assigned(row, "id", k) \in Row /\ Assigned(row, "id", k).id = k
    BY DEF Assigned, Row
  <2> QED
    BY <1>2, <1>4, <2>1, UpdateCareful
<1>5. ASSUME NEW t \in Writers, NEW tb \in Table, NEW row \in Row,
             ExecuteInsert(t, tb, row)
      PROVE  CarefulExecutes(t, tb)
  BY <1>5, InsertCareful
<1> QED
  BY <1>1, <1>3, <1>4, <1>5
     DEF Next, AcquireDenied, EndThrows, WriteThrows, CreateThrows, ExecuteDelete

(* A careful write of t, seen from the logs: the records are the last of t *)
(* and about ids that no other open transaction has written.               *)
Wrote(t, tb, rows, recs) ==
    /\ t \in ActiveTxns /\ tb \in Table
    /\ Rewrites(tb, RowsOf(storage, tb), rows, recs)
    /\ storage' = Put(storage, tb, rows)
    /\ Begun' = Begun /\ ActiveTxns' = ActiveTxns
    /\ \A u \in Begun : txns'[u].log = IF u = t THEN txns[t].log \o recs ELSE txns[u].log
    /\ \A u \in ActiveTxns : u # t =>
          \A i \in 1..Len(recs) : \A k \in Touches(recs[i]) : k \notin KeysWritten(u, tb)

LEMMA WritesCareful ==
    ASSUME LockFirst, TypeOK, LockInv, NEW t, NEW tb \in Table, CarefulExecutes(t, tb)
    PROVE  /\ \E rows \in Seq(Row), recs \in Seq(Record) : Wrote(t, tb, rows, recs)
           /\ Len(txns') = Len(txns) /\ appended' = appended
<1>1. PICK rows \in Seq(Row), recs \in Seq(Record) :
        /\ Rewrites(tb, RowsOf(storage, tb), rows, recs)
        /\ Execute(t, tb, rows, recs)
  BY DEF CarefulExecutes
<1>2. Executes(t, tb)
  BY <1>1 DEF Executes, Rewrites
<1>3. /\ t \in Begun /\ IsActive(t) /\ txns' = [txns EXCEPT ![t].log = @ \o recs]
      /\ storage' = Put(storage, tb, rows)
      /\ ClientLocked(t, tb, recs)
  BY <1>1 DEF Execute, ClientLocked, Logs, IsActive
<1>4. /\ ActiveTxns' = ActiveTxns /\ Len(txns') = Len(txns) /\ Begun' = Begun
      /\ appended' = appended
  BY <1>2, StatusKept DEF Begun, wal
<1>5. txns \in Seq(TxnRec) /\ DOMAIN txns = Begun
  BY LenProperties DEF TypeOK, Begun
<1>6. \A u \in Begun : txns'[u].log = IF u = t THEN txns[t].log \o recs ELSE txns[u].log
  <2>1. \A u \in Begun : txns[u] \in TxnRec
    BY TxnType
  <2> QED
    BY <1>3, <1>5, <2>1 DEF TxnRec
<1>7. ASSUME NEW u \in ActiveTxns, u # t, NEW i \in 1..Len(recs), NEW k \in Touches(recs[i]),
             k \in KeysWritten(u, tb)
      PROVE  FALSE
  <2>1. k \in Key /\ [holder |-> t, mode |-> LM!Exclusive] \in locks[<<tb, k>>]
    BY <1>3 DEF ClientLocked
  <2>2. PICK j \in 1..Len(txns[u].log) :
          txns[u].log[j].table = tb /\ k \in Touches(txns[u].log[j])
    BY <1>7 DEF KeysWritten
  <2>3. [holder |-> u, mode |-> LM!Exclusive] \in locks[<<tb, k>>]
    BY <2>2 DEF LockInv, WritesLocked
  <2>4. <<tb, k>> \in Resource
    BY <2>1 DEF Resource
  <2> QED
    BY <1>7, <2>1, <2>3, <2>4 DEF LockInv, LM!NoConflict, LM!Shared, LM!Exclusive
<1>8. t \in ActiveTxns
  BY <1>3 DEF ActiveTxns, IsActive
<1>9. Wrote(t, tb, rows, recs)
  BY <1>1, <1>3, <1>4, <1>6, <1>7, <1>8 DEF Wrote
<1> QED
  BY <1>4, <1>9

(* Only the rows of its table change, and only for the ids it is about.    *)
LEMMA WroteRows ==
    ASSUME NEW t, NEW tb, NEW rows, NEW recs, Wrote(t, tb, rows, recs)
    PROVE  /\ \A q : RowsOf(storage', q) = IF q = tb THEN rows ELSE RowsOf(storage, q)
           /\ \A q : \A k \in Key : (q = tb => \A i \in 1..Len(recs) : k \notin Touches(recs[i]))
                => RowOf(RowsOf(storage', q), k) = RowOf(RowsOf(storage, q), k)
<1>1. \A q : RowsOf(storage', q) = IF q = tb THEN rows ELSE RowsOf(storage, q)
  BY DEF Wrote, RowsOf, Put
<1>2. ASSUME NEW q, NEW k \in Key,
             q = tb => \A i \in 1..Len(recs) : k \notin Touches(recs[i])
      PROVE  RowOf(RowsOf(storage', q), k) = RowOf(RowsOf(storage, q), k)
  <2>1. CASE q # tb
    BY <1>1, <2>1
  <2>2. CASE q = tb
    <3>1. RowOf(rows, k) = RowOf(RowsOf(storage, tb), k)
      BY <1>2, <2>2 DEF Wrote, Rewrites
    <3> QED
      BY <1>1, <2>2, <3>1
  <2> QED
    BY <2>1, <2>2
<1> QED
  BY <1>1, <1>2

(* The positions that records after the first n take, about an id.         *)
Added(tb, recs, n, q, k) ==
    {j \in (n + 1)..(n + Len(recs)) : q = tb /\ k \in Touches(recs[j - n])}

(* The records that are about an id, after the write.                      *)
LEMMA WroteTouching ==
    ASSUME TypeOK, NEW t, NEW tb, NEW rows, NEW recs \in Seq(Record),
           Wrote(t, tb, rows, recs),
           NEW n \in Nat, n = Len(txns[t].log), NEW m \in Nat, m = Len(recs)
    PROVE  /\ \A j \in 1..n : txns'[t].log[j] = txns[t].log[j]
           /\ \A j \in 1..m : txns'[t].log[n + j] = recs[j]
           /\ \A q, k : Touching(t, q, k)' = Touching(t, q, k) \cup Added(tb, recs, n, q, k)
           /\ \A u \in Begun : u # t => \A q, k : Touching(u, q, k)' = Touching(u, q, k)
<1>1. PICK log \in Seq(Record) : log = txns[t].log
  BY TxnType DEF Wrote, ActiveTxns
<1>2. PICK new \in Seq(Record) : new = log \o recs
  BY <1>1, ConcatProperties
<1>3. txns'[t].log = new /\ t \in Begun
  BY <1>1, <1>2 DEF Wrote, ActiveTxns
<1>4. /\ Len(new) = n + m
      /\ \A j \in 1..(n + m) : new[j] = IF j <= n THEN log[j] ELSE recs[j - n]
  BY <1>1, <1>2, ConcatProperties
<1>5. \A j \in 1..n : new[j] = log[j]
  BY <1>4
<1>6. \A j \in 1..m : new[n + j] = recs[j]
  <2> TAKE j \in 1..m
  <2>1. n + j \in 1..(n + m) /\ ~(n + j <= n) /\ (n + j) - n = j
    OBVIOUS
  <2> QED
    BY <1>4, <2>1
<1>7. DOMAIN log = 1..n /\ DOMAIN new = 1..(n + m)
  BY <1>1, <1>4, LenProperties
<1>8. \A i \in 1..m : recs[i].table = tb
  BY DEF Wrote, Rewrites
<1>9. ASSUME NEW q, NEW k
      PROVE  Touching(t, q, k)' = Touching(t, q, k) \cup Added(tb, recs, n, q, k)
  <2>1. Touching(t, q, k)' = {j \in 1..(n + m) : new[j].table = q /\ k \in Touches(new[j])}
    BY <1>3, <1>7 DEF Touching
  <2>2. Touching(t, q, k) = {j \in 1..n : log[j].table = q /\ k \in Touches(log[j])}
    BY <1>1, <1>7 DEF Touching
  <2>3. ASSUME NEW j \in 1..(n + m)
        PROVE  j \in Touching(t, q, k)' <=>
                 \/ j \in Touching(t, q, k)
                 \/ j \in (n + 1)..(n + m) /\ q = tb /\ k \in Touches(recs[j - n])
    <3>1. CASE j <= n
      <4>1. j \in 1..n /\ j \notin (n + 1)..(n + m)
        BY <3>1
      <4> QED
        BY <1>5, <2>1, <2>2, <4>1
    <3>2. CASE ~(j <= n)
      <4>1. j \notin 1..n /\ j \in (n + 1)..(n + m) /\ j - n \in 1..m
        BY <3>2
      <4>2. new[j] = recs[j - n] /\ recs[j - n].table = tb
        BY <1>4, <1>8, <3>2, <4>1
      <4> QED
        BY <2>1, <2>2, <4>1, <4>2
    <3> QED
      BY <3>1, <3>2
  <2>4. \A j : j \in 1..n \/ j \in (n + 1)..(n + m) => j \in 1..(n + m)
    OBVIOUS
  <2>5. Added(tb, recs, n, q, k) =
          {j \in (n + 1)..(n + m) : q = tb /\ k \in Touches(recs[j - n])}
    BY DEF Added
  <2> QED
    BY <2>1, <2>2, <2>3, <2>4, <2>5
<1>10. ASSUME NEW u \in Begun, u # t, NEW q, NEW k
       PROVE  Touching(u, q, k)' = Touching(u, q, k)
  <2>1. txns'[u].log = txns[u].log
    BY <1>10 DEF Wrote
  <2> QED
    BY <2>1 DEF Touching
<1> QED
  BY <1>1, <1>3, <1>5, <1>6, <1>9, <1>10

(* The least of a set of positions is the one that Min finds.              *)
LEMMA MinIs ==
    ASSUME NEW s \in SUBSET Nat, NEW x \in s, \A y \in s : x <= y
    PROVE  Min(s) = x
<1>1. Min(s) \in s /\ Min(s) <= x
  BY MinIsLeast
<1>2. x <= Min(s) /\ x \in Nat /\ Min(s) \in Nat
  BY <1>1
<1> QED
  BY <1>1, <1>2

(* The write does not change what an id was before any earlier record.     *)
LEMMA AfterWrote ==
    ASSUME TypeOK, NEW t, NEW tb, NEW rows, NEW recs \in Seq(Record),
           Wrote(t, tb, rows, recs),
           NEW n \in Nat, n = Len(txns[t].log), NEW i \in 0..n, NEW q, NEW k \in Key
    PROVE  AfterFirst(t, q, k, i)' = AfterFirst(t, q, k, i)
<1>1. PICK m \in Nat : m = Len(recs)
  BY LenProperties
<1> DEFINE Old == {j \in Touching(t, q, k) : j > i}
           Now == {j \in Touching(t, q, k)' : j > i}
           New == Added(tb, recs, n, q, k)
<1>2. /\ \A j \in 1..n : txns'[t].log[j] = txns[t].log[j]
      /\ \A j \in 1..m : txns'[t].log[n + j] = recs[j]
      /\ Touching(t, q, k)' = Touching(t, q, k) \cup New
  BY <1>1, WroteTouching, SMTT(30)
<1>0. New = {j \in (n + 1)..(n + m) : q = tb /\ k \in Touches(recs[j - n])}
  BY <1>1 DEF Added
<1>3. t \in Begun
  BY DEF Wrote, ActiveTxns
<1>4. Touching(t, q, k) \in SUBSET (1..n)
  BY <1>3, TouchingType
<1>5. \A j \in New : j > i
  BY <1>0
<1>6. Now = Old \cup New
  BY <1>2, <1>5
<1>7. Old \in SUBSET (1..n) /\ Old \in SUBSET Nat /\ New \in SUBSET ((n + 1)..(n + m))
  BY <1>0, <1>4
<1>8. AfterFirst(t, q, k, i) = IF Old = {} THEN RowOf(RowsOf(storage, q), k)
                                           ELSE OldOf(txns[t].log[Min(Old)], k)
  BY DEF AfterFirst
<1>9. AfterFirst(t, q, k, i)' = IF Now = {} THEN RowOf(RowsOf(storage', q), k)
                                            ELSE OldOf(txns'[t].log[Min(Now)], k)
  BY DEF AfterFirst
<1>10. \A j \in New : q = tb /\ j - n \in 1..m /\ k \in Touches(recs[j - n]) /\ n + (j - n) = j
  <2>1. \A j \in (n + 1)..(n + m) : j - n \in 1..m /\ n + (j - n) = j
    OBVIOUS
  <2>2. \A j \in New : j \in (n + 1)..(n + m) /\ q = tb /\ k \in Touches(recs[j - n])
    BY <1>0, Zenon
  <2> HIDE DEF New
  <2> QED
    BY <2>1, <2>2
<1>11. Now \in SUBSET Nat
  <2>1. \A j \in New : j \in Nat
    BY <1>7
  <2> HIDE DEF Old, New, Now
  <2> QED
    BY <1>6, <1>7, <2>1
<1>12. CASE Old # {}
  <2>1. PICK x \in Old : x = Min(Old) /\ \A y \in Old : x <= y
    BY <1>7, <1>12, MinIsLeast
  <2>2. x \in 1..n
    BY <1>7, <2>1
  <2>3. \A y \in New : x <= y
    BY <1>7, <2>2
  <2> HIDE DEF Old, New, Now
  <2>4. x \in Now /\ \A y \in Now : x <= y
    BY <1>6, <2>1, <2>3
  <2>5. Min(Now) = x
    BY <1>11, <2>4, MinIs
  <2> QED
    BY <1>2, <1>8, <1>9, <1>12, <2>1, <2>2, <2>4, <2>5
<1>13. CASE Old = {} /\ New = {}
  <2>1. q = tb => \A j \in 1..m : k \notin Touches(recs[j])
    <3> SUFFICES ASSUME q = tb, NEW j \in 1..m, k \in Touches(recs[j]) PROVE FALSE
      OBVIOUS
    <3>1. n + j \in (n + 1)..(n + m) /\ (n + j) - n = j
      OBVIOUS
    <3>2. n + j \in New
      BY <1>0, <3>1
    <3> QED
      BY <1>13, <3>2
  <2>2. RowOf(RowsOf(storage', q), k) = RowOf(RowsOf(storage, q), k)
    BY <1>1, <2>1, WroteRows
  <2> HIDE DEF Old, New, Now
  <2> QED
    BY <1>6, <1>8, <1>9, <1>13, <2>2
<1>14. CASE Old = {} /\ New # {}
  <2> HIDE DEF Old, New, Now
  <2>1. Now # {} /\ Now = New
    BY <1>6, <1>14
  <2>2. PICK x \in New : x = Min(Now)
    BY <1>11, <2>1, MinIsLeast
  <2>3. q = tb /\ x - n \in 1..m /\ k \in Touches(recs[x - n]) /\ n + (x - n) = x
    BY <1>10
  <2>4. txns'[t].log[x] = recs[x - n]
    BY <1>2, <2>3
  <2>5. OldOf(recs[x - n], k) = RowOf(RowsOf(storage, tb), k)
    BY <1>1, <2>3 DEF Wrote, Rewrites
  <2> QED
    BY <1>8, <1>9, <1>14, <2>1, <2>2, <2>3, <2>4, <2>5
<1> QED
  BY <1>12, <1>13, <1>14

(* Nor does it change that for ids another open transaction has written.   *)
LEMMA AfterOther ==
    ASSUME TypeOK, NEW t, NEW tb, NEW rows, NEW recs \in Seq(Record),
           Wrote(t, tb, rows, recs),
           NEW u \in ActiveTxns, u # t, NEW q, NEW k \in Key, Touching(u, q, k) # {}, NEW i
    PROVE  AfterFirst(u, q, k, i)' = AfterFirst(u, q, k, i)
<1>1. u \in Begun
  BY DEF ActiveTxns
<1>2. k \in KeysWritten(u, q)
  BY <1>1, TouchingType
<1>3. q = tb => \A j \in 1..Len(recs) : k \notin Touches(recs[j])
  BY <1>2 DEF Wrote
<1>4. RowOf(RowsOf(storage', q), k) = RowOf(RowsOf(storage, q), k)
  BY <1>3, WroteRows
<1>5. txns'[u].log = txns[u].log
  BY <1>1 DEF Wrote
<1>6. Touching(u, q, k)' = Touching(u, q, k)
  BY <1>5 DEF Touching
<1> QED
  BY <1>4, <1>5, <1>6 DEF AfterFirst

(* A write of a careful client keeps the tables and the logs careful.      *)
LEMMA ChainedWrite ==
    ASSUME TypeOK, Unique, CarefulLogs, Chained, NEW t, NEW tb,
           NEW rows \in Seq(Row), NEW recs \in Seq(Record), Wrote(t, tb, rows, recs)
    PROVE  Unique' /\ CarefulLogs' /\ Chained'
<1>0. PICK n \in Nat, m \in Nat : n = Len(txns[t].log) /\ m = Len(recs)
  BY TxnType, LenProperties DEF Wrote, ActiveTxns
<1>1. /\ \A j \in 1..n : txns'[t].log[j] = txns[t].log[j]
      /\ \A j \in 1..m : txns'[t].log[n + j] = recs[j]
      /\ \A q, k : Touching(t, q, k)' = Touching(t, q, k) \cup Added(tb, recs, n, q, k)
  BY <1>0, WroteTouching, SMTT(30)
<1>2. /\ t \in ActiveTxns /\ t \in Begun /\ ActiveTxns' = ActiveTxns
      /\ \A u \in ActiveTxns : u \in Begun
  BY DEF Wrote, ActiveTxns
<1>3. Len(txns'[t].log) = n + m
  <2>1. txns[t].log \in Seq(Record) /\ txns'[t].log = txns[t].log \o recs
    BY <1>2, TxnType DEF Wrote
  <2> QED
    BY <1>0, <2>1, ConcatProperties
<1>4. \A u \in ActiveTxns : u # t => txns'[u].log = txns[u].log
  BY <1>2 DEF Wrote
<1>5. Unique'
  <2>1. storage' = Put(storage, tb, rows) /\ DistinctIds(rows)
    BY DEF Wrote, Rewrites
  <2> QED
    BY <2>1 DEF Unique, Put
<1>6. \A j \in 1..(n + m) : j \in 1..n \/ (j - n \in 1..m /\ n + (j - n) = j)
  OBVIOUS
<1>7. CarefulLogs'
  <2> SUFFICES ASSUME NEW u \in ActiveTxns, NEW i \in 1..Len(txns'[u].log)
               PROVE  CarefulRecord(txns'[u].log[i])
    BY <1>2 DEF CarefulLogs
  <2>1. CASE u # t
    BY <1>4, <2>1 DEF CarefulLogs
  <2>2. CASE u = t
    <3>1. \A j \in 1..m : CarefulRecord(recs[j])
      BY <1>0 DEF Wrote, Rewrites
    <3>2. \A j \in 1..n : CarefulRecord(txns[t].log[j])
      BY <1>0, <1>2 DEF CarefulLogs
    <3>3. i \in 1..(n + m)
      BY <1>3, <2>2
    <3> QED
      BY <1>1, <1>6, <2>2, <3>1, <3>2, <3>3
  <2> QED
    BY <2>1, <2>2
<1>8. Chained'
  <2> SUFFICES ASSUME NEW u \in ActiveTxns, NEW q \in Table, NEW k \in Key,
                      NEW i \in Touching(u, q, k)'
               PROVE  NewOf(txns'[u].log[i], k) = AfterFirst(u, q, k, i)'
    BY <1>2 DEF Chained
  <2>1. CASE u # t
    <3>1. Touching(u, q, k)' = Touching(u, q, k) /\ txns'[u].log = txns[u].log
      BY <1>0, <1>2, <1>4, <2>1, WroteTouching
    <3>2. AfterFirst(u, q, k, i)' = AfterFirst(u, q, k, i)
      <4>1. Touching(u, q, k) # {}
        BY <3>1
      <4> QED
        BY <2>1, <4>1, AfterOther
    <3> QED
      BY <3>1, <3>2 DEF Chained
  <2>2. CASE u = t /\ i \in Touching(t, q, k)
    <3>1. i \in 1..n
      BY <1>0, <1>2, <2>2, TouchingType
    <3>2. i \in 0..n
      BY <3>1
    <3>3. AfterFirst(t, q, k, i)' = AfterFirst(t, q, k, i)
      BY <1>0, <3>2, AfterWrote
    <3>4. NewOf(txns[t].log[i], k) = AfterFirst(t, q, k, i)
      BY <1>2, <2>2 DEF Chained
    <3> QED
      BY <1>1, <2>2, <3>1, <3>3, <3>4
  <2>3. CASE u = t /\ i \in Added(tb, recs, n, q, k)
    <3>1. /\ q = tb /\ k \in Touches(recs[i - n]) /\ i \in (n + 1)..(n + m)
      BY <1>0, <2>3 DEF Added
    <3>2. i - n \in 1..m /\ n + (i - n) = i /\ i \in Nat
      BY <3>1
    <3>3. NewOf(recs[i - n], k) = RowOf(rows, k)
      BY <1>0, <3>1, <3>2 DEF Wrote, Rewrites
    <3>4. {j \in Touching(t, q, k)' : j > i} = {}
      <4> SUFFICES ASSUME NEW j \in Touching(t, q, k)', j > i PROVE FALSE
        OBVIOUS
      <4>1. j \notin Touching(t, q, k)
        <5>1. Touching(t, q, k) \in SUBSET (1..n)
          BY <1>0, <1>2, TouchingType
        <5> QED
          BY <3>1, <5>1
      <4>2. j \in Added(tb, recs, n, q, k)
        BY <1>1, <4>1
      <4>3. j \in (n + 1)..(n + m) /\ k \in Touches(recs[j - n])
        BY <1>0, <4>2 DEF Added
      <4>4. j - n \in 1..m
        BY <4>3
      <4>5. j - n = i - n
        BY <1>0, <3>1, <3>2, <4>3, <4>4 DEF Wrote, Rewrites
      <4> QED
        BY <3>1, <4>3, <4>5
    <3>5. AfterFirst(t, q, k, i)' = RowOf(RowsOf(storage', q), k)
      BY <3>4 DEF AfterFirst
    <3>6. RowsOf(storage', q) = rows
      BY <3>1, WroteRows
    <3>7. txns'[t].log[i] = recs[i - n]
      BY <1>1, <3>2
    <3> QED
      BY <2>3, <3>3, <3>5, <3>6, <3>7
  <2>4. u = t => i \in Touching(t, q, k) \/ i \in Added(tb, recs, n, q, k)
    BY <1>1
  <2> QED
    BY <2>1, <2>2, <2>3, <2>4
<1> QED
  BY <1>5, <1>7, <1>8

(* So does a step that leaves the rows and the logs alone.                 *)
LEMMA ChainedQuiet ==
    ASSUME CarefulLogs, Chained,
           \A q \in Table : RowsOf(storage', q) = RowsOf(storage, q),
           \A u \in ActiveTxns' : \/ u \in ActiveTxns /\ txns'[u].log = txns[u].log
                                  \/ txns'[u].log = <<>>
    PROVE  CarefulLogs' /\ Chained'
<1>1. CarefulLogs'
  BY DEF CarefulLogs
<1>2. ASSUME NEW u \in ActiveTxns', NEW q \in Table, NEW k \in Key,
             NEW i \in Touching(u, q, k)'
      PROVE  NewOf(txns'[u].log[i], k) = AfterFirst(u, q, k, i)'
  <2>1. u \in ActiveTxns /\ txns'[u].log = txns[u].log
    BY <1>2 DEF Touching
  <2>2. Touching(u, q, k)' = Touching(u, q, k)
    BY <2>1 DEF Touching
  <2>3. AfterFirst(u, q, k, i)' = AfterFirst(u, q, k, i)
    BY <2>1, <2>2 DEF AfterFirst
  <2> QED
    BY <2>1, <2>2, <2>3 DEF Chained
<1> QED
  BY <1>1, <1>2 DEF Chained

(* A rollback leaves the ids as they are that its transaction has not      *)
(* written ...                                                             *)
LEMMA UndoneElsewhere ==
    ASSUME TypeOK, Unique, CarefulLogs, Chained, NEW t \in ActiveTxns,
           NEW q \in Table, NEW k \in Key, Touching(t, q, k) = {}
    PROVE  RowOf(RowsOf(Undone(t), q), k) = RowOf(RowsOf(storage, q), k)
<1>1. RowOf(RowsOf(Undone(t), q), k) = AfterFirst(t, q, k, 0)
  BY UndoneBack
<1>2. {j \in Touching(t, q, k) : j > 0} = {}
  OBVIOUS
<1> QED
  BY <1>1, <1>2 DEF AfterFirst

(* ... and so the logs of the others stay right.                           *)
LEMMA ChainedUndone ==
    ASSUME TypeOK, Unique, CarefulLogs, Chained, WriteSetsDisjoint,
           NEW t \in ActiveTxns, storage' = Undone(t),
           \A u \in ActiveTxns' : u \in ActiveTxns /\ u # t /\ txns'[u].log = txns[u].log
    PROVE  Unique' /\ CarefulLogs' /\ Chained'
<1>1. Unique'
  <2>1. \A tb \in Table : DistinctIds(RowsOf(Undone(t), tb))
    BY UndoneBack
  <2>2. Undone(t) \in Tables
    BY UndoneBack
  <2>3. \A tb \in DOMAIN Undone(t) : tb \in Table /\ RowsOf(Undone(t), tb) = Undone(t)[tb]
    BY <2>2 DEF Tables, RowsOf
  <2> QED
    BY <2>1, <2>3 DEF Unique
<1>2. CarefulLogs'
  BY DEF CarefulLogs
<1>3. ASSUME NEW u \in ActiveTxns', NEW q \in Table, NEW k \in Key,
             NEW i \in Touching(u, q, k)'
      PROVE  NewOf(txns'[u].log[i], k) = AfterFirst(u, q, k, i)'
  <2>1. u \in ActiveTxns /\ u # t /\ txns'[u].log = txns[u].log
    OBVIOUS
  <2>2. Touching(u, q, k)' = Touching(u, q, k)
    BY <2>1 DEF Touching
  <2>3. u \in Begun /\ t \in Begun
    BY <2>1 DEF ActiveTxns
  <2>4. k \in KeysWritten(u, q)
    BY <2>2, <2>3, TouchingType
  <2>5. k \notin KeysWritten(t, q)
    BY <2>1, <2>4 DEF WriteSetsDisjoint
  <2>6. Touching(t, q, k) = {}
    BY <2>3, <2>5, TouchingType
  <2>7. RowOf(RowsOf(storage', q), k) = RowOf(RowsOf(storage, q), k)
    BY <2>6, UndoneElsewhere
  <2>8. AfterFirst(u, q, k, i)' = AfterFirst(u, q, k, i)
    BY <2>1, <2>2, <2>7 DEF AfterFirst
  <2> QED
    BY <2>1, <2>2, <2>8 DEF Chained
<1> QED
  BY <1>1, <1>2, <1>3 DEF Chained

(* Records handed to the log never leave it, so the count of begins never  *)
(* falls.                                                                  *)
Begins == {i \in DOMAIN appended : appended[i].type = "Begin"}

LEMMA BeginsFinite ==
    ASSUME TypeOK
    PROVE  /\ Begins \in SUBSET (1..Len(appended)) /\ Len(appended) \in Nat
           /\ IsFiniteSet(Begins) /\ EverBegun \in Nat /\ EverBegun = Cardinality(Begins)
<1>1. Len(appended) \in Nat /\ DOMAIN appended = 1..Len(appended)
  BY LenProperties DEF TypeOK
<1>2. Begins \in SUBSET (1..Len(appended))
  BY <1>1 DEF Begins
<1> QED
  BY <1>1, <1>2, PositionsFinite DEF EverBegun, Begins

LEMMA CountedGrows ==
    ASSUME TypeOK, TypeOK', Counted, Len(txns') = Len(txns),
           NEW recs \in Seq(LogRec), appended' = appended \o recs
    PROVE  Counted'
<1>1. PICK n \in Nat : n = Len(appended)
  BY BeginsFinite
<1>2. DOMAIN appended = 1..n /\ appended \in Seq(LogRec)
  BY <1>1, LenProperties DEF TypeOK
<1>3. \A i \in 1..n : i \in DOMAIN appended' /\ appended'[i] = appended[i]
  <2>1. PICK m \in Nat : m = Len(recs)
    BY LenProperties
  <2>2. /\ Len(appended \o recs) = n + m /\ appended \o recs \in Seq(LogRec)
        /\ \A i \in 1..(n + m) : (appended \o recs)[i] = IF i <= n THEN appended[i] ELSE recs[i - n]
    BY <1>1, <1>2, <2>1, ConcatProperties
  <2>3. \A i \in 1..n : i \in 1..(n + m) /\ i <= n
    BY <2>1
  <2>4. DOMAIN appended' = 1..(n + m)
    BY <2>2, LenProperties
  <2> QED
    BY <2>2, <2>3, <2>4
<1>4. PICK B : B = Begins'
  OBVIOUS
<1>5. Begins \in SUBSET B
  BY <1>2, <1>3, <1>4 DEF Begins
<1>6. IsFiniteSet(B) /\ EverBegun' \in Nat /\ EverBegun' = Cardinality(B)
  <2>1. (TypeOK => IsFiniteSet(Begins) /\ EverBegun \in Nat /\ EverBegun = Cardinality(Begins))'
    BY BeginsFinite, PTL
  <2> QED
    BY <1>4, <2>1
<1>7. Cardinality(Begins) <= Cardinality(B)
  BY <1>5, <1>6, FS_Subset
<1>8. EverBegun <= EverBegun' /\ EverBegun \in Nat /\ Len(txns) \in Nat
  BY <1>6, <1>7, BeginsFinite, LenProperties DEF TypeOK
<1> QED
  BY <1>6, <1>8 DEF Counted

LEMMA CountedBegin ==
    ASSUME TypeOK, TypeOK', Counted, Begin
    PROVE  Counted'
<1>1. PICK n \in Nat : n = Len(appended)
  BY BeginsFinite
<1>2. DOMAIN appended = 1..n /\ appended \in Seq(LogRec)
  BY <1>1, LenProperties DEF TypeOK
<1>3. PICK new : new = Mark(Len(txns) + 1, "Begin")
  OBVIOUS
<1>4. Len(txns) \in Nat /\ Len(txns') = Len(txns) + 1
  BY BeginAdds
<1>5. new \in LogRec /\ new.type = "Begin"
  BY <1>3, <1>4 DEF Mark, LogRec
<1>6. /\ DOMAIN appended' = 1..(n + 1)
      /\ \A i \in 1..n : appended'[i] = appended[i]
      /\ appended'[n + 1] = new
  <2>1. appended' = Append(appended, new)
    BY <1>3 DEF Begin
  <2>2. appended' \in Seq(LogRec) /\ Len(appended') = n + 1
    BY <1>1, <1>2, <1>5, <2>1, AppendProperties
  <2>3. \A i \in 1..n : appended'[i] = appended[i]
    BY <1>1, <1>2, <1>5, <2>1, AppendProperties
  <2>4. appended'[n + 1] = new
    BY <1>1, <1>2, <1>5, <2>1, AppendProperties
  <2> QED
    BY <2>2, <2>3, <2>4, LenProperties
<1>7. PICK B : B = Begins'
  OBVIOUS
<1>8. B = Begins \cup {n + 1} /\ n + 1 \notin Begins
  <2>1. \A i : i \in 1..(n + 1) <=> i \in 1..n \/ i = n + 1
    BY <1>1
  <2>2. n + 1 \notin 1..n
    BY <1>1
  <2> QED
    BY <1>2, <1>5, <1>6, <1>7, <2>1, <2>2 DEF Begins
<1>9. EverBegun' = Cardinality(B)
  BY <1>7 DEF EverBegun, Begins
<1>10. Cardinality(B) = EverBegun + 1 /\ EverBegun \in Nat
  BY <1>8, BeginsFinite, FS_AddElement
<1>11. EverBegun < MaxTxn /\ MaxTxn \in Nat
  BY TransactionsAssumption DEF Begin
<1> QED
  BY <1>4, <1>9, <1>10, <1>11 DEF Counted

(* AtomicInv is kept by every step of careful clients that do not delete.  *)
LEMMA AtomicStep ==
    ASSUME LockFirst, FreshIds, ~Deletes, TypeOK, TypeOK', LockInv, AtomicInv, [Next]_vars
    PROVE  AtomicInv'
<1> USE DEF AtomicInv
<1>0. ASSUME Len(txns') = Len(txns), appended' = appended PROVE Counted'
  BY <1>0 DEF Counted, EverBegun
<1>1. CASE Begin
  <2>1. /\ storage' = storage
        /\ ActiveTxns' = ActiveTxns \cup {Len(txns) + 1}
        /\ \A u \in Begun : txns'[u] = txns[u]
        /\ txns'[Len(txns) + 1].log = <<>>
    <3>1. /\ ActiveTxns' = ActiveTxns \cup {Len(txns) + 1}
          /\ \A u \in Begun : txns'[u] = txns[u]
          /\ txns'[Len(txns) + 1] = [status |-> Active, log |-> <<>>]
      BY <1>1, BeginAdds
    <3>2. storage' = storage
      BY <1>1 DEF Begin
    <3> QED
      BY <3>1, <3>2
  <2>2. \A u \in ActiveTxns' : \/ u \in ActiveTxns /\ txns'[u].log = txns[u].log
                               \/ txns'[u].log = <<>>
    BY <2>1 DEF ActiveTxns
  <2>3. CarefulLogs' /\ Chained'
    BY <2>1, <2>2, ChainedQuiet
  <2> QED
    BY <1>1, <2>1, <2>3, CountedBegin DEF Unique
<1>2. ASSUME storage' = storage, txns' = txns, appended' = appended PROVE AtomicInv'
  <2>1. ActiveTxns' = ActiveTxns
    BY <1>2 DEF ActiveTxns, Begun
  <2>2. CarefulLogs' /\ Chained'
    BY <1>2, <2>1, ChainedQuiet
  <2> QED
    BY <1>0, <1>2, <2>2 DEF Unique
<1>3. ASSUME NEW t \in ActiveTxns, NEW outcome \in {"Commit", "Abort"},
             NEW status \in {Committed, Aborted},
             txns' = [txns EXCEPT ![t].status = status],
             AppendAndFlush(Append(Data(t), Mark(t, outcome)))
      PROVE  /\ Counted'
             /\ \A u \in ActiveTxns' : u \in ActiveTxns /\ u # t /\ txns'[u].log = txns[u].log
  <2>1. /\ Len(txns') = Len(txns) /\ ActiveTxns' = ActiveTxns \ {t}
        /\ \A u \in Begun : txns'[u].log = txns[u].log
    BY <1>3, StatusEnds
  <2>2. PICK recs \in Seq(LogRec) : recs = Append(Data(t), Mark(t, outcome))
    BY DataType DEF ActiveTxns
  <2>3. appended' = appended \o recs
    BY <1>3, <2>2 DEF AppendAndFlush
  <2> QED
    BY <2>1, <2>3, CountedGrows DEF ActiveTxns
<1>4. ASSUME NEW t \in ActiveTxns, Commit(t) PROVE AtomicInv'
  <2>1. /\ Counted'
        /\ \A u \in ActiveTxns' : u \in ActiveTxns /\ u # t /\ txns'[u].log = txns[u].log
    BY <1>3, <1>4 DEF Commit
  <2>2. storage' = storage
    BY <1>4 DEF Commit
  <2>3. CarefulLogs' /\ Chained'
    BY <2>1, <2>2, ChainedQuiet
  <2> QED
    BY <2>1, <2>2, <2>3 DEF Unique
<1>5. ASSUME NEW t \in ActiveTxns, Rollback(t) PROVE AtomicInv'
  <2>1. /\ Counted'
        /\ \A u \in ActiveTxns' : u \in ActiveTxns /\ u # t /\ txns'[u].log = txns[u].log
    BY <1>3, <1>5 DEF Rollback
  <2>2. WriteSetsDisjoint
    BY LockInvSuffices
  <2>3. Unique' /\ CarefulLogs' /\ Chained'
    BY <1>5, <2>1, <2>2, ChainedUndone DEF Rollback
  <2> QED
    BY <2>1, <2>3
<1>6. ASSUME NEW t \in Writers, NEW tb \in Table, CarefulExecutes(t, tb) PROVE AtomicInv'
  <2>1. PICK rows \in Seq(Row), recs \in Seq(Record) : Wrote(t, tb, rows, recs)
    BY <1>6, WritesCareful
  <2>2. Unique' /\ CarefulLogs' /\ Chained'
    BY <2>1, ChainedWrite
  <2>3. Len(txns') = Len(txns) /\ appended' = appended
    BY <1>6, WritesCareful
  <2> QED
    BY <1>0, <2>2, <2>3
<1>7. ASSUME NEW tb \in Table, ExecuteCreateTable(tb) PROVE AtomicInv'
  <2>1. /\ storage' = Put(storage, tb, <<>>) /\ tb \notin DOMAIN storage
        /\ txns' = txns /\ appended' = appended
    BY <1>7 DEF ExecuteCreateTable, wal
  <2>2. \A q : RowsOf(storage', q) = RowsOf(storage, q)
    BY <2>1 DEF RowsOf, Put
  <2>3. ActiveTxns' = ActiveTxns
    BY <2>1 DEF ActiveTxns, Begun
  <2>4. CarefulLogs' /\ Chained'
    BY <2>1, <2>2, <2>3, ChainedQuiet
  <2>5. DistinctIds(<<>>)
    BY DEF DistinctIds
  <2>6. Unique'
    BY <2>1, <2>5 DEF Unique, Put
  <2> QED
    BY <1>0, <2>1, <2>4, <2>6
<1>8. CASE UNCHANGED vars
  BY <1>2, <1>8 DEF vars, wal
<1>9. ASSUME NEW t \in Begun, NEW r \in Resource, NEW m \in LM!LockMode, Acquire(t, r, m)
      PROVE  AtomicInv'
  BY <1>2, <1>9 DEF Acquire, wal
<1> QED
  BY <1>1, <1>4, <1>5, <1>6, <1>7, <1>8, <1>9, CarefulSteps

------------------------------------------------------------------------------
(* What the store sees of a row.                                           *)
ValOf(row) == IF row = NoRow THEN Absent ELSE row.val

(* The value in the table ...                                              *)
LEMMA StoredIs ==
    ASSUME TypeOK, Unique, NEW tb \in Table, NEW k \in Key
    PROVE  /\ Stored(tb, k) = ValOf(RowOf(RowsOf(storage, tb), k))
           /\ Stored(tb, k) \in Val \cup {Absent}
<1>1. PICK rows \in Seq(Row) : rows = RowsOf(storage, tb)
  BY RowsOfType DEF TypeOK
<1>2. DistinctIds(rows)
  BY <1>1, UniqueRows
<1> DEFINE I == {i \in 1..Len(rows) : rows[i].id = k}
<1>3. Stored(tb, k) = IF I = {} THEN Absent ELSE rows[Min(I)].val
  <2>1. CASE tb \in DOMAIN storage
    <3>1. rows = storage[tb]
      BY <1>1, <2>1 DEF RowsOf
    <3> DEFINE i == SelectInSeq(rows, LAMBDA row : row.id = k)
    <3>2. Stored(tb, k) = IF i = 0 THEN Absent ELSE rows[i].val
      BY <2>1, <3>1 DEF Stored
    <3>3. i = IF I # {} THEN Min(I) ELSE 0
      BY DEF SelectInSeq
    <3>4. I \in SUBSET Nat /\ 0 \notin I
      OBVIOUS
    <3> HIDE DEF I, i
    <3>5. I # {} => Min(I) # 0
      BY <3>4, MinIsLeast
    <3> QED
      BY <3>2, <3>3, <3>5
  <2>2. CASE tb \notin DOMAIN storage
    <3>1. Stored(tb, k) = Absent
      BY <2>2 DEF Stored
    <3>2. Len(rows) = 0
      BY <1>1, <2>2 DEF RowsOf
    <3>3. I = {}
      BY <3>2
    <3> QED
      BY <3>1, <3>3
  <2> QED
    BY <2>1, <2>2
<1>4. CASE I = {}
  <2>1. \A i \in 1..Len(rows) : rows[i].id # k
    BY <1>4
  <2>2. RowOf(rows, k) = NoRow
    BY <2>1, RowOfNone
  <2> QED
    BY <1>1, <1>3, <1>4, <2>2 DEF ValOf
<1>5. CASE I # {}
  <2>1. I \in SUBSET Nat
    OBVIOUS
  <2>2. PICK i \in I : i = Min(I)
    <3> HIDE DEF I
    <3> QED
      BY <1>5, <2>1, MinIsLeast
  <2>3. i \in 1..Len(rows) /\ rows[i].id = k
    OBVIOUS
  <2>4. rows[i] \in Row /\ rows[i] # NoRow
    <3>1. rows[i] \in Row
      BY <2>3, ElementOfSeq
    <3> QED
      BY <3>1, RowsAssumption DEF Row
  <2>5. RowOf(rows, k) = rows[i]
    BY <1>2, <2>3, RowOfHeld
  <2> HIDE DEF I
  <2>6. Stored(tb, k) = rows[i].val /\ rows[i].val \in Val
    BY <1>3, <1>5, <2>2, <2>4 DEF Row
  <2> QED
    BY <1>1, <2>4, <2>5, <2>6 DEF ValOf
<1> QED
  BY <1>4, <1>5

(* ... and the one before the first change of a transaction.               *)
LEMMA BeforeIs ==
    ASSUME TypeOK, NEW t \in Begun, NEW tb, NEW k, Touching(t, tb, k) # {}
    PROVE  Before(t, tb, k) = ValOf(AfterFirst(t, tb, k, 0))
<1>1. PICK log \in Seq(Record) : log = txns[t].log
  BY TxnType
<1>2. Len(log) \in Nat /\ DOMAIN log = 1..Len(log)
  BY LenProperties
<1> DEFINE I == {i \in 1..Len(log) : log[i].table = tb /\ k \in Touches(log[i])}
           i == SelectInSeq(log, LAMBDA rec : rec.table = tb /\ k \in Touches(rec))
<1>3. Touching(t, tb, k) = I
  BY <1>1, <1>2 DEF Touching
<1>4. {j \in Touching(t, tb, k) : j > 0} = I
  BY <1>3
<1>5. i = IF I # {} THEN Min(I) ELSE 0
  BY DEF SelectInSeq
<1>6. Before(t, tb, k) = LET old == log[i].old
                         IN  IF old # NoRow /\ old.id = k THEN old.val ELSE Absent
  BY <1>1 DEF Before
<1> HIDE DEF I, i
<1>7. i = Min(I) /\ I # {}
  BY <1>3, <1>5
<1>8. AfterFirst(t, tb, k, 0) = OldOf(log[i], k)
  BY <1>1, <1>4, <1>7 DEF AfterFirst
<1>9. CASE log[i].old # NoRow /\ log[i].old.id = k
  BY <1>6, <1>8, <1>9 DEF OldOf, ValOf
<1>10. CASE ~(log[i].old # NoRow /\ log[i].old.id = k)
  BY <1>6, <1>8, <1>10 DEF OldOf, ValOf
<1> QED
  BY <1>9, <1>10

(* So the committed value of an id is the one before the changes of the    *)
(* open transaction that has written it, or else the one in the table.     *)
Seen ==
    \A tb \in Table, k \in Key :
        /\ Stored(tb, k) = ValOf(RowOf(RowsOf(storage, tb), k))
        /\ Stored(tb, k) \in Val \cup {Absent}
        /\ \A u \in ActiveTxns : k \in KeysWritten(u, tb)
             => Settled(tb, k) = ValOf(AfterFirst(u, tb, k, 0))
        /\ (\A u \in ActiveTxns : k \notin KeysWritten(u, tb))
             => Settled(tb, k) = Stored(tb, k)

LEMMA SeenHolds ==
    ASSUME TypeOK, Unique, WriteSetsDisjoint
    PROVE  Seen
<1> SUFFICES ASSUME NEW tb \in Table, NEW k \in Key
             PROVE  /\ \A u \in ActiveTxns : k \in KeysWritten(u, tb)
                         => Settled(tb, k) = ValOf(AfterFirst(u, tb, k, 0))
                    /\ (\A u \in ActiveTxns : k \notin KeysWritten(u, tb))
                         => Settled(tb, k) = Stored(tb, k)
  BY StoredIs DEF Seen
<1>1. ASSUME NEW u \in ActiveTxns, k \in KeysWritten(u, tb)
      PROVE  Settled(tb, k) = ValOf(AfterFirst(u, tb, k, 0))
  <2>1. PICK w \in ActiveTxns : /\ w = CHOOSE t \in ActiveTxns : k \in KeysWritten(t, tb)
                                /\ k \in KeysWritten(w, tb)
    BY <1>1
  <2>2. w = u
    BY <1>1, <2>1 DEF WriteSetsDisjoint
  <2>3. Settled(tb, k) = Before(u, tb, k)
    BY <1>1, <2>1, <2>2 DEF Settled
  <2>4. u \in Begun
    BY DEF ActiveTxns
  <2>5. Touching(u, tb, k) # {}
    BY <1>1, <2>4, TouchingType
  <2> QED
    BY <2>3, <2>4, <2>5, BeforeIs
<1>2. ASSUME \A u \in ActiveTxns : k \notin KeysWritten(u, tb)
      PROVE  Settled(tb, k) = Stored(tb, k)
  BY <1>2 DEF Settled
<1> QED
  BY <1>1, <1>2

(* The database is what its ids are.                                       *)
LEMMA DatabaseIs ==
    /\ Database = [id \in Resource |-> Settled(id[1], id[2])]
    /\ Database' = [id \in Resource |-> Settled(id[1], id[2])']
    /\ Pending = [u \in TxnId |-> [id \in Written(u) |-> Stored(id[1], id[2])]]
    /\ Pending' = [u \in TxnId |-> [id \in Written(u)' |-> Stored(id[1], id[2])']]
BY DEF Database, Pending

(* What an open transaction has written, before and after a step.          *)
LEMMA WrittenIs ==
    ASSUME NEW u, NEW tb \in Table, NEW k \in Key
    PROVE  /\ <<tb, k>> \in Written(u) <=> u \in ActiveTxns /\ k \in KeysWritten(u, tb)
           /\ <<tb, k>> \in Written(u)' <=> u \in ActiveTxns' /\ k \in KeysWritten(u, tb)'
           /\ <<tb, k>>[1] = tb /\ <<tb, k>>[2] = k
<1>1. <<tb, k>> \in Resource /\ <<tb, k>>[1] = tb /\ <<tb, k>>[2] = k
  BY DEF Resource
<1> QED
  BY <1>1 DEF Written

LEMMA ResourceIs ==
    ASSUME NEW id \in Resource
    PROVE  id[1] \in Table /\ id[2] \in Key /\ id = <<id[1], id[2]>>
BY DEF Resource

(* Two databases with the same values are one.                             *)
LEMMA DatabaseSame ==
    ASSUME \A tb \in Table, k \in Key : Settled(tb, k)' = Settled(tb, k)
    PROVE  Database' = Database
<1>1. ASSUME NEW id \in Resource PROVE Settled(id[1], id[2])' = Settled(id[1], id[2])
  BY ResourceIs
<1> QED
  BY <1>1, DatabaseIs

(* Two transactions with the same writes are one to the store.             *)
LEMMA PendingSame ==
    ASSUME NEW u,
           \A tb \in Table, k \in Key :
              /\ u \in ActiveTxns' /\ k \in KeysWritten(u, tb)'
                   <=> u \in ActiveTxns /\ k \in KeysWritten(u, tb)
              /\ u \in ActiveTxns /\ k \in KeysWritten(u, tb)
                   => Stored(tb, k)' = Stored(tb, k)
    PROVE  [id \in Written(u)' |-> Stored(id[1], id[2])'] =
             [id \in Written(u) |-> Stored(id[1], id[2])]
<1>1. \A id \in Resource : id \in Written(u)' <=> id \in Written(u)
  BY ResourceIs, WrittenIs
<1>2. Written(u) \subseteq Resource /\ Written(u)' \subseteq Resource
  BY DEF Written
<1>3. Written(u)' = Written(u)
  BY <1>1, <1>2
<1>4. ASSUME NEW id \in Written(u) PROVE Stored(id[1], id[2])' = Stored(id[1], id[2])
  <2>1. id \in Resource
    BY <1>2
  <2>2. id[1] \in Table /\ id[2] \in Key /\ u \in ActiveTxns /\ id[2] \in KeysWritten(u, id[1])
    BY <2>1, ResourceIs DEF Written
  <2> QED
    BY <2>2
<1> QED
  BY <1>3, <1>4

(* The ids a transaction has written are those its records are about.      *)
LEMMA SameLog ==
    ASSUME NEW u, NEW tb, txns'[u].log = txns[u].log
    PROVE  KeysWritten(u, tb)' = KeysWritten(u, tb)
BY DEF KeysWritten

(* A step that leaves rows and logs alone is none of the store.            *)
LEMMA StoreQuiet ==
    ASSUME Seen, Seen',
           \A q \in Table : RowsOf(storage', q) = RowsOf(storage, q),
           ActiveTxns \subseteq ActiveTxns',
           \A u \in ActiveTxns' : \/ u \in ActiveTxns /\ txns'[u].log = txns[u].log
                                  \/ u \notin ActiveTxns /\ txns'[u].log = <<>>
    PROVE  Database' = Database /\ Pending' = Pending
<1>1. \A tb \in Table, k \in Key : Stored(tb, k)' = Stored(tb, k)
  BY DEF Seen
<1>2. ASSUME NEW u, NEW tb \in Table
      PROVE  /\ u \in ActiveTxns => KeysWritten(u, tb)' = KeysWritten(u, tb)
             /\ u \in ActiveTxns' /\ u \notin ActiveTxns => KeysWritten(u, tb)' = {}
  <2>1. ASSUME u \in ActiveTxns PROVE KeysWritten(u, tb)' = KeysWritten(u, tb)
    <3>1. txns'[u].log = txns[u].log
      BY <2>1
    <3> QED
      BY <3>1, SameLog
  <2>2. ASSUME u \in ActiveTxns', u \notin ActiveTxns PROVE KeysWritten(u, tb)' = {}
    <3>1. Len(txns'[u].log) = 0
      BY <2>2
    <3> QED
      BY <3>1 DEF KeysWritten
  <2> QED
    BY <2>1, <2>2
<1>3. ASSUME NEW u \in ActiveTxns, NEW tb \in Table, NEW k \in Key
      PROVE  AfterFirst(u, tb, k, 0)' = AfterFirst(u, tb, k, 0)
  <2>1. txns'[u].log = txns[u].log
    OBVIOUS
  <2>2. Touching(u, tb, k)' = Touching(u, tb, k)
    BY <2>1 DEF Touching
  <2> QED
    BY <2>1, <2>2 DEF AfterFirst
<1>4. ASSUME NEW tb \in Table, NEW k \in Key PROVE Settled(tb, k)' = Settled(tb, k)
  <2>1. CASE \E u \in ActiveTxns : k \in KeysWritten(u, tb)
    <3>1. PICK u \in ActiveTxns : k \in KeysWritten(u, tb)
      BY <2>1
    <3>2. u \in ActiveTxns' /\ k \in KeysWritten(u, tb)'
      BY <1>2, <3>1
    <3>3. Settled(tb, k) = ValOf(AfterFirst(u, tb, k, 0))
      BY <3>1 DEF Seen
    <3>4. Settled(tb, k)' = ValOf(AfterFirst(u, tb, k, 0)')
      BY <3>2 DEF Seen, ValOf
    <3> QED
      BY <1>3, <3>3, <3>4
  <2>2. CASE \A u \in ActiveTxns : k \notin KeysWritten(u, tb)
    <3>1. \A u \in ActiveTxns' : k \notin KeysWritten(u, tb)'
      BY <1>2, <2>2
    <3>2. Settled(tb, k)' = Stored(tb, k)' /\ Settled(tb, k) = Stored(tb, k)
      BY <2>2, <3>1 DEF Seen
    <3> QED
      BY <1>1, <3>2
  <2> QED
    BY <2>1, <2>2
<1>5. Database' = Database
  BY <1>4, DatabaseSame
<1>6. ASSUME NEW u
      PROVE  [id \in Written(u)' |-> Stored(id[1], id[2])'] =
               [id \in Written(u) |-> Stored(id[1], id[2])]
  BY <1>1, <1>2, PendingSame
<1> QED
  BY <1>5, <1>6, DatabaseIs

(* The end of transaction t: its writes leave the pending ones, and its    *)
(* ids are worth what the table says; the others are worth what they were. *)
LEMMA StoreEnds ==
    ASSUME TypeOK, WriteSetsDisjoint, Seen, Seen', NEW t \in ActiveTxns,
           ActiveTxns' = ActiveTxns \ {t},
           \A u \in Begun : txns'[u].log = txns[u].log,
           \A tb \in Table, k \in Key : k \notin KeysWritten(t, tb)
             => RowOf(RowsOf(storage', tb), k) = RowOf(RowsOf(storage, tb), k)
    PROVE  /\ Pending' = [Pending EXCEPT ![t] = <<>>]
           /\ \A tb \in Table, k \in Key :
                Settled(tb, k)' = IF k \in KeysWritten(t, tb) THEN Stored(tb, k)'
                                                              ELSE Settled(tb, k)
<1>1. \A u \in ActiveTxns : u \in Begun /\ txns'[u].log = txns[u].log
  BY DEF ActiveTxns
<1>2. \A u \in ActiveTxns, tb \in Table : KeysWritten(u, tb)' = KeysWritten(u, tb)
  BY <1>1, SameLog
<1>3. ASSUME NEW tb \in Table, NEW k \in Key, k \notin KeysWritten(t, tb)
      PROVE  Stored(tb, k)' = Stored(tb, k)
  <2>1. RowOf(RowsOf(storage', tb), k) = RowOf(RowsOf(storage, tb), k)
    BY <1>3
  <2>2. Stored(tb, k)' = ValOf(RowOf(RowsOf(storage', tb), k))
    BY DEF Seen, ValOf
  <2> QED
    BY <2>1, <2>2 DEF Seen
<1>4. ASSUME NEW u \in ActiveTxns, u # t, NEW tb \in Table, NEW k \in Key,
             k \in KeysWritten(u, tb)
      PROVE  /\ k \notin KeysWritten(t, tb)
             /\ AfterFirst(u, tb, k, 0)' = AfterFirst(u, tb, k, 0)
  <2>1. k \notin KeysWritten(t, tb)
    BY <1>4 DEF WriteSetsDisjoint
  <2>2. RowOf(RowsOf(storage', tb), k) = RowOf(RowsOf(storage, tb), k)
    BY <2>1
  <2>3. txns'[u].log = txns[u].log
    BY <1>1
  <2>4. Touching(u, tb, k)' = Touching(u, tb, k)
    BY <2>3 DEF Touching
  <2> QED
    BY <2>1, <2>2, <2>3, <2>4 DEF AfterFirst
<1>5. ASSUME NEW tb \in Table, NEW k \in Key
      PROVE  Settled(tb, k)' = IF k \in KeysWritten(t, tb) THEN Stored(tb, k)'
                                                           ELSE Settled(tb, k)
  <2>1. CASE k \in KeysWritten(t, tb)
    <3>1. \A u \in ActiveTxns' : k \notin KeysWritten(u, tb)'
      BY <1>2, <1>4, <2>1
    <3> QED
      BY <2>1, <3>1 DEF Seen
  <2>2. CASE k \notin KeysWritten(t, tb) /\ \E u \in ActiveTxns : k \in KeysWritten(u, tb)
    <3>1. PICK u \in ActiveTxns : k \in KeysWritten(u, tb)
      BY <2>2
    <3>2. u # t /\ u \in ActiveTxns' /\ k \in KeysWritten(u, tb)'
      BY <1>2, <2>2, <3>1
    <3>3. Settled(tb, k) = ValOf(AfterFirst(u, tb, k, 0))
      BY <3>1 DEF Seen
    <3>4. Settled(tb, k)' = ValOf(AfterFirst(u, tb, k, 0)')
      BY <3>2 DEF Seen, ValOf
    <3>5. AfterFirst(u, tb, k, 0)' = AfterFirst(u, tb, k, 0)
      BY <1>4, <3>1, <3>2
    <3> QED
      BY <2>2, <3>3, <3>4, <3>5
  <2>3. CASE \A u \in ActiveTxns : k \notin KeysWritten(u, tb)
    <3>1. \A u \in ActiveTxns' : k \notin KeysWritten(u, tb)'
      BY <1>2, <2>3
    <3>2. Settled(tb, k)' = Stored(tb, k)' /\ Settled(tb, k) = Stored(tb, k)
      BY <2>3, <3>1 DEF Seen
    <3>3. k \notin KeysWritten(t, tb)
      BY <2>3
    <3> QED
      BY <1>3, <3>2, <3>3
  <2> QED
    BY <2>1, <2>2, <2>3
<1>6. ASSUME NEW u, u # t
      PROVE  [id \in Written(u)' |-> Stored(id[1], id[2])'] =
               [id \in Written(u) |-> Stored(id[1], id[2])]
  <2>1. ASSUME NEW tb \in Table, NEW k \in Key
        PROVE  /\ u \in ActiveTxns' /\ k \in KeysWritten(u, tb)'
                    <=> u \in ActiveTxns /\ k \in KeysWritten(u, tb)
               /\ u \in ActiveTxns /\ k \in KeysWritten(u, tb)
                    => Stored(tb, k)' = Stored(tb, k)
    BY <1>2, <1>3, <1>4, <1>6
  <2> QED
    BY <2>1, PendingSame
<1>7. [id \in Written(t)' |-> Stored(id[1], id[2])'] = <<>>
  <2>1. Written(t)' = {}
    BY DEF Written
  <2> QED
    BY <2>1
<1>8. Pending' = [Pending EXCEPT ![t] = <<>>]
  BY <1>6, <1>7, DatabaseIs
<1> QED
  BY <1>5, <1>8

(* A commit publishes what its transaction has written, at once.           *)
LEMMA StoreCommit ==
    ASSUME TypeOK, WriteSetsDisjoint, Seen, Seen', NEW t \in ActiveTxns, t \in TxnId, Commit(t)
    PROVE  Store!Commit(t)
<1>1. /\ ActiveTxns' = ActiveTxns \ {t} /\ storage' = storage
      /\ \A u \in Begun : txns'[u].log = txns[u].log
  BY StatusEnds DEF Commit
<1>2. /\ Pending' = [Pending EXCEPT ![t] = <<>>]
      /\ \A tb \in Table, k \in Key :
           Settled(tb, k)' = IF k \in KeysWritten(t, tb) THEN Stored(tb, k)'
                                                         ELSE Settled(tb, k)
  BY <1>1, StoreEnds
<1>3. ASSUME NEW tb \in Table, NEW k \in Key PROVE Stored(tb, k)' = Stored(tb, k)
  <2>1. Stored(tb, k)' = ValOf(RowOf(RowsOf(storage', tb), k))
    BY DEF Seen, ValOf
  <2> QED
    BY <1>1, <2>1 DEF Seen
<1>4. /\ Pending[t] = [id \in Written(t) |-> Stored(id[1], id[2])]
      /\ DOMAIN Database = Resource /\ Written(t) \subseteq Resource
  BY DatabaseIs DEF Written
<1>5. ASSUME NEW id \in Resource
      PROVE  Settled(id[1], id[2])' = IF id \in Written(t) THEN Pending[t][id] ELSE Database[id]
  <2>1. id[1] \in Table /\ id[2] \in Key
    BY ResourceIs
  <2>2. id \in Written(t) <=> id[2] \in KeysWritten(t, id[1])
    BY DEF Written
  <2>3. id \in Written(t) => Pending[t][id] = Stored(id[1], id[2])
    BY <1>4
  <2>4. Database[id] = Settled(id[1], id[2])
    BY DatabaseIs
  <2> QED
    BY <1>2, <1>3, <2>1, <2>2, <2>3, <2>4
<1>6. Database' = Store!Overlay(Pending[t], Database)
  <2>1. Store!Overlay(Pending[t], Database) =
          [id \in Resource |-> IF id \in Written(t) THEN Pending[t][id] ELSE Database[id]]
    <3>1. DOMAIN Pending[t] = Written(t) /\ Written(t) \cup Resource = Resource
      BY <1>4
    <3> QED
      BY <1>4, <3>1 DEF Store!Overlay
  <2> QED
    BY <1>5, <2>1, DatabaseIs
<1> QED
  BY <1>2, <1>6 DEF Store!Commit

(* A rollback leaves the database as it was.                               *)
LEMMA StoreRollback ==
    ASSUME TypeOK, WriteSetsDisjoint, AtomicInv, Seen, Seen', NEW t \in ActiveTxns,
           Rollback(t)
    PROVE  Store!Rollback(t)
<1>1. /\ ActiveTxns' = ActiveTxns \ {t} /\ storage' = Undone(t) /\ t \in Begun
      /\ \A u \in Begun : txns'[u].log = txns[u].log
  BY StatusEnds DEF Rollback, ActiveTxns
<1>2. ASSUME NEW tb \in Table, NEW k \in Key, k \notin KeysWritten(t, tb)
      PROVE  RowOf(RowsOf(storage', tb), k) = RowOf(RowsOf(storage, tb), k)
  <2>1. Touching(t, tb, k) = {}
    BY <1>1, <1>2, TouchingType
  <2> QED
    BY <1>1, <2>1, UndoneElsewhere DEF AtomicInv
<1>3. /\ Pending' = [Pending EXCEPT ![t] = <<>>]
      /\ \A tb \in Table, k \in Key :
           Settled(tb, k)' = IF k \in KeysWritten(t, tb) THEN Stored(tb, k)'
                                                         ELSE Settled(tb, k)
  BY <1>1, <1>2, StoreEnds
<1>4. ASSUME NEW tb \in Table, NEW k \in Key PROVE Settled(tb, k)' = Settled(tb, k)
  <2>1. CASE k \in KeysWritten(t, tb)
    <3>1. Settled(tb, k) = ValOf(AfterFirst(t, tb, k, 0))
      BY <2>1 DEF Seen
    <3>2. RowOf(RowsOf(storage', tb), k) = AfterFirst(t, tb, k, 0)
      BY <1>1, UndoneBack DEF AtomicInv
    <3>3. Stored(tb, k)' = ValOf(RowOf(RowsOf(storage', tb), k))
      BY DEF Seen, ValOf
    <3> QED
      BY <1>3, <2>1, <3>1, <3>2, <3>3
  <2>2. CASE k \notin KeysWritten(t, tb)
    BY <1>3, <2>2
  <2> QED
    BY <2>1, <2>2
<1>5. Database' = Database
  BY <1>4, DatabaseSame
<1> QED
  BY <1>3, <1>5 DEF Store!Rollback

(* The ids that records are about.                                         *)
About(recs) == {k \in Key : \E i \in 1..Len(recs) : k \in Touches(recs[i])}

(* What a write changes of the ids that are written.                       *)
LEMMA WroteKeys ==
    ASSUME TypeOK, TypeOK', NEW t, NEW tb, NEW rows, NEW recs \in Seq(Record),
           Wrote(t, tb, rows, recs), NEW q \in Table, NEW k \in Key
    PROVE  /\ k \in KeysWritten(t, q)' <=>
                k \in KeysWritten(t, q) \/ (q = tb /\ k \in About(recs))
           /\ \A u \in ActiveTxns : u # t => KeysWritten(u, q)' = KeysWritten(u, q)
           /\ \A u \in ActiveTxns : u # t /\ k \in KeysWritten(u, q)
                => ~(q = tb /\ k \in About(recs))
<1>0. PICK n \in Nat, m \in Nat : n = Len(txns[t].log) /\ m = Len(recs)
  BY TxnType, LenProperties DEF Wrote, ActiveTxns
<1>1. t \in Begun /\ t \in Begun' /\ \A u \in ActiveTxns : u \in Begun
  BY DEF Wrote, ActiveTxns
<1>2. Touching(t, q, k)' = Touching(t, q, k) \cup Added(tb, recs, n, q, k)
  BY <1>0, WroteTouching
<1>3. k \in KeysWritten(t, q) <=> Touching(t, q, k) # {}
  BY <1>1, TouchingType
<1>4. k \in KeysWritten(t, q)' <=> Touching(t, q, k)' # {}
  <2>1. PICK log \in Seq(Record) : log = txns'[t].log
    <3>1. txns[t].log \in Seq(Record) /\ txns'[t].log = txns[t].log \o recs
      BY <1>1, TxnType DEF Wrote
    <3> QED
      BY <3>1, ConcatProperties
  <2>2. DOMAIN log = 1..Len(log)
    BY LenProperties
  <2> QED
    BY <2>1, <2>2 DEF KeysWritten, Touching
<1>5. Added(tb, recs, n, q, k) # {} <=> q = tb /\ k \in About(recs)
  <2>1. ASSUME NEW j \in Added(tb, recs, n, q, k) PROVE q = tb /\ k \in About(recs)
    <3>1. j \in (n + 1)..(n + m) /\ q = tb /\ k \in Touches(recs[j - n])
      BY <1>0 DEF Added
    <3>2. j - n \in 1..m
      BY <3>1
    <3> QED
      BY <1>0, <3>1, <3>2 DEF About
  <2>2. ASSUME q = tb, k \in About(recs) PROVE Added(tb, recs, n, q, k) # {}
    <3>1. PICK i \in 1..m : k \in Touches(recs[i])
      BY <1>0, <2>2 DEF About
    <3>2. n + i \in (n + 1)..(n + m) /\ (n + i) - n = i
      OBVIOUS
    <3>3. n + i \in Added(tb, recs, n, q, k)
      BY <1>0, <2>2, <3>1, <3>2 DEF Added
    <3> QED
      BY <3>3
  <2> QED
    BY <2>1, <2>2
<1>6. k \in KeysWritten(t, q)' <=> k \in KeysWritten(t, q) \/ (q = tb /\ k \in About(recs))
  BY <1>2, <1>3, <1>4, <1>5
<1>7. ASSUME NEW u \in ActiveTxns, u # t PROVE KeysWritten(u, q)' = KeysWritten(u, q)
  <2>1. txns'[u].log = txns[u].log
    BY <1>1, <1>7 DEF Wrote
  <2> QED
    BY <2>1, SameLog
<1>8. ASSUME NEW u \in ActiveTxns, u # t, k \in KeysWritten(u, q)
      PROVE  ~(q = tb /\ k \in About(recs))
  BY <1>8 DEF Wrote, About
<1> QED
  BY <1>6, <1>7, <1>8

(* A write is a write of the store, to the ids its records are about.      *)
LEMMA StoreWrite ==
    ASSUME TypeOK, TypeOK', Seen, Seen', NEW t \in TxnId, NEW tb \in Table, NEW rows,
           NEW recs \in Seq(Record), Wrote(t, tb, rows, recs)
    PROVE  \E w \in Store!Writes : Store!Write(t, w)
<1>0. t \in ActiveTxns /\ t \in Begun /\ ActiveTxns' = ActiveTxns
  BY DEF Wrote, ActiveTxns
<1>1. ASSUME NEW q \in Table, NEW k \in Key, ~(q = tb /\ k \in About(recs))
      PROVE  /\ RowOf(RowsOf(storage', q), k) = RowOf(RowsOf(storage, q), k)
             /\ Stored(q, k)' = Stored(q, k)
  <2>1. q = tb => \A i \in 1..Len(recs) : k \notin Touches(recs[i])
    BY <1>1 DEF About
  <2>2. RowOf(RowsOf(storage', q), k) = RowOf(RowsOf(storage, q), k)
    BY <2>1, WroteRows
  <2>3. Stored(q, k)' = ValOf(RowOf(RowsOf(storage', q), k))
    BY DEF Seen, ValOf
  <2> QED
    BY <2>2, <2>3 DEF Seen
<1>2. ASSUME NEW q \in Table, NEW k \in Key
      PROVE  AfterFirst(t, q, k, 0)' = AfterFirst(t, q, k, 0)
  <2>1. PICK n \in Nat : n = Len(txns[t].log)
    BY <1>0, TouchingType
  <2>2. 0 \in 0..n
    BY <2>1
  <2> QED
    BY <2>1, <2>2, AfterWrote
<1>3. ASSUME NEW q \in Table, NEW k \in Key PROVE Settled(q, k)' = Settled(q, k)
  <2>1. CASE k \in KeysWritten(t, q)'
    <3>1. Settled(q, k)' = ValOf(AfterFirst(t, q, k, 0)')
      BY <1>0, <2>1 DEF Seen, ValOf
    <3>2. Settled(q, k) = ValOf(AfterFirst(t, q, k, 0))
      <4>1. CASE k \in KeysWritten(t, q)
        BY <1>0, <4>1 DEF Seen
      <4>2. CASE k \notin KeysWritten(t, q)
        <5>1. q = tb /\ k \in About(recs)
          BY <2>1, <4>2, WroteKeys
        <5>2. \A u \in ActiveTxns : k \notin KeysWritten(u, q)
          BY <4>2, <5>1, WroteKeys
        <5>3. Settled(q, k) = ValOf(RowOf(RowsOf(storage, q), k))
          BY <5>2 DEF Seen
        <5>4. Touching(t, q, k) = {}
          BY <1>0, <4>2, TouchingType
        <5>5. {j \in Touching(t, q, k) : j > 0} = {}
          BY <5>4
        <5>6. AfterFirst(t, q, k, 0) = RowOf(RowsOf(storage, q), k)
          BY <5>5 DEF AfterFirst
        <5> QED
          BY <5>3, <5>6
      <4> QED
        BY <4>1, <4>2
    <3> QED
      BY <1>2, <3>1, <3>2
  <2>2. CASE k \notin KeysWritten(t, q)' /\ \E u \in ActiveTxns : k \in KeysWritten(u, q)
    <3>0. k \notin KeysWritten(t, q)
      BY <2>2, WroteKeys
    <3>1. PICK u \in ActiveTxns : k \in KeysWritten(u, q) /\ u # t
      BY <2>2, <3>0
    <3>2. KeysWritten(u, q)' = KeysWritten(u, q)
      BY <3>1, WroteKeys
    <3>3. Settled(q, k) = ValOf(AfterFirst(u, q, k, 0))
      BY <3>1 DEF Seen
    <3>4. Settled(q, k)' = ValOf(AfterFirst(u, q, k, 0)')
      BY <1>0, <3>1, <3>2 DEF Seen, ValOf
    <3>5. Touching(u, q, k) # {}
      BY <3>1, TouchingType DEF ActiveTxns
    <3>6. AfterFirst(u, q, k, 0)' = AfterFirst(u, q, k, 0)
      BY <3>1, <3>5, AfterOther
    <3> QED
      BY <3>3, <3>4, <3>6
  <2>3. CASE k \notin KeysWritten(t, q)' /\ \A u \in ActiveTxns : k \notin KeysWritten(u, q)
    <3>1. ~(q = tb /\ k \in About(recs))
      BY <2>3, WroteKeys
    <3>2. \A u \in ActiveTxns' : k \notin KeysWritten(u, q)'
      <4>1. \A u \in ActiveTxns : u # t => KeysWritten(u, q)' = KeysWritten(u, q)
        BY WroteKeys
      <4> QED
        BY <1>0, <2>3, <4>1
    <3>3. Settled(q, k)' = Stored(q, k)' /\ Settled(q, k) = Stored(q, k)
      BY <2>3, <3>2 DEF Seen
    <3> QED
      BY <1>1, <3>1, <3>3
  <2> QED
    BY <2>1, <2>2, <2>3
<1>4. Database' = Database
  BY <1>3, DatabaseSame
<1>5. ASSUME NEW u, u # t
      PROVE  [id \in Written(u)' |-> Stored(id[1], id[2])'] =
               [id \in Written(u) |-> Stored(id[1], id[2])]
  <2>1. ASSUME NEW q \in Table, NEW k \in Key
        PROVE  /\ u \in ActiveTxns' /\ k \in KeysWritten(u, q)'
                    <=> u \in ActiveTxns /\ k \in KeysWritten(u, q)
               /\ u \in ActiveTxns /\ k \in KeysWritten(u, q)
                    => Stored(q, k)' = Stored(q, k)
    <3>1. u \in ActiveTxns => KeysWritten(u, q)' = KeysWritten(u, q)
      BY <1>5, WroteKeys
    <3>2. u \in ActiveTxns /\ k \in KeysWritten(u, q) => ~(q = tb /\ k \in About(recs))
      BY <1>5, WroteKeys
    <3> QED
      BY <1>0, <1>1, <3>1, <3>2
  <2> QED
    BY <2>1, PendingSame
<1>6. PICK K : K = {id \in Resource : id[1] = tb /\ id[2] \in About(recs)}
  OBVIOUS
<1>7. PICK w : w = [id \in K |-> Stored(id[1], id[2])']
  OBVIOUS
<1>8. K \subseteq Resource
  BY <1>6
<1>9. \A id \in Resource : id \in Written(t)' <=> id \in K \/ id \in Written(t)
  <2> TAKE id \in Resource
  <2>1. id[1] \in Table /\ id[2] \in Key
    BY ResourceIs
  <2>2. id[2] \in KeysWritten(t, id[1])' <=>
          id[2] \in KeysWritten(t, id[1]) \/ (id[1] = tb /\ id[2] \in About(recs))
    BY <2>1, WroteKeys
  <2>3. id \in Written(t)' <=> id[2] \in KeysWritten(t, id[1])'
    BY <1>0 DEF Written
  <2>4. id \in Written(t) <=> id[2] \in KeysWritten(t, id[1])
    BY <1>0 DEF Written
  <2> QED
    BY <1>6, <2>2, <2>3, <2>4
<1>10. Written(t)' \subseteq Resource /\ Written(t) \subseteq Resource
  BY DEF Written
<1>11. Written(t)' = K \cup Written(t)
  BY <1>8, <1>9, <1>10
<1>12. ASSUME NEW id \in Written(t), id \notin K
       PROVE  Stored(id[1], id[2])' = Stored(id[1], id[2])
  <2>1. id \in Resource
    BY <1>10
  <2>2. id[1] \in Table /\ id[2] \in Key /\ ~(id[1] = tb /\ id[2] \in About(recs))
    BY <1>6, <1>12, <2>1, ResourceIs
  <2> QED
    BY <1>1, <2>2
<1>13. Pending[t] = [id \in Written(t) |-> Stored(id[1], id[2])]
  BY DatabaseIs
<1>14. [id \in Written(t)' |-> Stored(id[1], id[2])'] = Store!Overlay(w, Pending[t])
  <2>1. /\ DOMAIN w = K /\ \A id \in K : w[id] = Stored(id[1], id[2])'
        /\ DOMAIN Pending[t] = Written(t)
        /\ \A id \in Written(t) : Pending[t][id] = Stored(id[1], id[2])
    BY <1>7, <1>13
  <2>2. Store!Overlay(w, Pending[t]) =
          [id \in K \cup Written(t) |-> IF id \in K THEN w[id] ELSE Pending[t][id]]
    BY <2>1 DEF Store!Overlay
  <2>3. ASSUME NEW id \in K \cup Written(t)
        PROVE  Stored(id[1], id[2])' = IF id \in K THEN w[id] ELSE Pending[t][id]
    BY <1>12, <2>1
  <2> QED
    BY <1>11, <2>2, <2>3
<1>15. Pending' = [Pending EXCEPT ![t] = Store!Overlay(w, @)]
  <2>1. PICK o : o = Store!Overlay(w, Pending[t])
    OBVIOUS
  <2>2. Pending' = [Pending EXCEPT ![t] = o]
    BY <1>5, <1>14, <2>1, DatabaseIs
  <2> QED
    BY <2>1, <2>2
<1>16. w \in Store!Writes
  <2>1. \A id \in K : Stored(id[1], id[2])' \in Val \cup {Absent}
    <3> TAKE id \in K
    <3>1. id[1] \in Table /\ id[2] \in Key
      BY <1>8, ResourceIs
    <3> QED
      BY <3>1 DEF Seen, Absent
  <2>2. w \in [K -> Val \cup {Absent}]
    BY <1>7, <2>1
  <2> QED
    BY <1>8, <2>2 DEF Store!Writes
<1>17. ASSUME NEW u \in TxnId \ {t}, NEW id, id \in DOMAIN w, id \in DOMAIN Pending[u]
       PROVE  FALSE
  <2>1. id \in K /\ id \in Resource
    BY <1>7, <1>8, <1>17
  <2>2. id \in Written(u)
    BY <1>17, DatabaseIs
  <2>3. u \in ActiveTxns /\ id[2] \in KeysWritten(u, id[1])
    BY <2>2 DEF Written
  <2>4. id[1] \in Table /\ id[2] \in Key /\ id[1] = tb /\ id[2] \in About(recs)
    BY <1>6, <2>1, ResourceIs
  <2> QED
    BY <2>3, <2>4, WroteKeys
<1>18. Store!Write(t, w)
  BY <1>4, <1>15, <1>17 DEF Store!Write
<1> QED
  BY <1>16, <1>18

(* Every step of careful clients is a step of the store or none.           *)
LEMMA StoreStep ==
    ASSUME LockFirst, FreshIds, ~Deletes, TypeOK, TypeOK', LockInv,
           AtomicInv, Seen, Seen', [Next]_vars
    PROVE  [Store!Next]_(Store!vars)
<1>1. WriteSetsDisjoint
  BY LockInvSuffices
<1>2. \A t \in ActiveTxns : t \in TxnId
  <2>1. Len(txns) <= MaxTxn /\ Len(txns) \in Nat /\ MaxTxn \in Nat
    BY LenProperties, TransactionsAssumption DEF AtomicInv, Counted, TypeOK
  <2>2. \A t \in 1..Len(txns) : t \in 1..MaxTxn
    BY <2>1
  <2> QED
    BY <2>2 DEF ActiveTxns, Begun, TxnId
<1>3. ASSUME Database' = Database, Pending' = Pending PROVE [Store!Next]_(Store!vars)
  BY <1>3 DEF Store!vars
<1>4. CASE Begin
  <2>1. /\ ActiveTxns' = ActiveTxns \cup {Len(txns) + 1} /\ Len(txns) + 1 \notin Begun
        /\ \A u \in Begun : txns'[u] = txns[u]
        /\ txns'[Len(txns) + 1] = [status |-> Active, log |-> <<>>]
    BY <1>4, BeginAdds
  <2>2. storage' = storage
    BY <1>4 DEF Begin
  <2>3. \A u \in ActiveTxns' : \/ u \in ActiveTxns /\ txns'[u].log = txns[u].log
                               \/ u \notin ActiveTxns /\ txns'[u].log = <<>>
    BY <2>1 DEF ActiveTxns
  <2>4. Database' = Database /\ Pending' = Pending
    BY <2>1, <2>2, <2>3, StoreQuiet
  <2> QED
    BY <1>3, <2>4
<1>5. ASSUME txns' = txns, \A q \in Table : RowsOf(storage', q) = RowsOf(storage, q)
      PROVE  [Store!Next]_(Store!vars)
  <2>1. ActiveTxns' = ActiveTxns
    BY <1>5 DEF ActiveTxns, Begun
  <2>2. Database' = Database /\ Pending' = Pending
    BY <1>5, <2>1, StoreQuiet
  <2> QED
    BY <1>3, <2>2
<1>6. ASSUME NEW t \in ActiveTxns, Commit(t) PROVE [Store!Next]_(Store!vars)
  <2>1. t \in TxnId /\ Store!Commit(t)
    BY <1>1, <1>2, <1>6, StoreCommit
  <2> QED
    BY <2>1 DEF Store!Next
<1>7. ASSUME NEW t \in ActiveTxns, Rollback(t) PROVE [Store!Next]_(Store!vars)
  <2>1. t \in TxnId /\ Store!Rollback(t)
    BY <1>1, <1>2, <1>7, StoreRollback
  <2> QED
    BY <2>1 DEF Store!Next
<1>8. ASSUME NEW t \in Writers, NEW tb \in Table, CarefulExecutes(t, tb)
      PROVE  [Store!Next]_(Store!vars)
  <2>1. PICK rows \in Seq(Row), recs \in Seq(Record) : Wrote(t, tb, rows, recs)
    BY <1>8, WritesCareful
  <2>2. t \in TxnId
    BY <1>2, <2>1 DEF Wrote
  <2>3. \E w \in Store!Writes : Store!Write(t, w)
    BY <2>1, <2>2, StoreWrite
  <2> QED
    BY <2>2, <2>3 DEF Store!Next
<1>9. ASSUME NEW tb \in Table, ExecuteCreateTable(tb) PROVE [Store!Next]_(Store!vars)
  <2>1. \A q : RowsOf(storage', q) = RowsOf(storage, q)
    BY <1>9 DEF ExecuteCreateTable, RowsOf, Put
  <2>2. txns' = txns
    BY <1>9 DEF ExecuteCreateTable
  <2> QED
    BY <1>5, <2>1, <2>2
<1>10. ASSUME NEW t \in Begun, NEW r \in Resource, NEW m \in LM!LockMode, Acquire(t, r, m)
       PROVE  [Store!Next]_(Store!vars)
  BY <1>5, <1>10 DEF Acquire
<1>11. CASE UNCHANGED vars
  BY <1>5, <1>11 DEF vars
<1>12. Unique
  BY DEF AtomicInv
<1> QED
  BY <1>4, <1>6, <1>7, <1>8, <1>9, <1>10, <1>11, <1>12, CarefulSteps

(* For clients that lock what they write, keep ids present and unique and  *)
(* do not delete, the engine is an atomic store, whatever they interleave: *)
(* commit publishes all writes of a transaction at once and rollback       *)
(* (txn_manager.h:66-126) removes all of them and nobody else's.           *)
THEOREM AtomicStoreImplemented ==
    ASSUME LockFirst, FreshIds, ~Deletes PROVE Spec => ImplementsAtomicStore
<1>1. Init => LockInv
  BY DEF Init, LockInv, LM!NoConflict, WritesLocked, ActiveTxns, Begun
<1>2. Init /\ TypeOK => AtomicInv
  <2> SUFFICES ASSUME Init, TypeOK PROVE AtomicInv
    OBVIOUS
  <2>1. Len(txns) = 0 /\ ActiveTxns = {}
    BY DEF Init, ActiveTxns, Begun
  <2>2. Unique
    BY FreshAssumption DEF Init, Unique
  <2>3. CarefulLogs /\ Chained
    BY <2>1 DEF CarefulLogs, Chained
  <2>4. Counted
    BY <2>1, BeginsFinite, TransactionsAssumption DEF Counted
  <2> QED
    BY <2>2, <2>3, <2>4 DEF AtomicInv
<1>3. TypeOK /\ LockInv /\ AtomicInv => Seen
  BY LockInvSuffices, SeenHolds DEF AtomicInv
<1>4. Init /\ Seen => Store!Init
  <2> SUFFICES ASSUME Init, Seen PROVE Store!Init
    OBVIOUS
  <2>1. ActiveTxns = {}
    BY DEF Init, ActiveTxns, Begun
  <2>2. \A id \in Resource : Settled(id[1], id[2]) \in Val \cup {Absent}
    BY <2>1, ResourceIs DEF Seen
  <2>3. Database \in [Resource -> Val \cup {Absent}]
    BY <2>2, DatabaseIs
  <2>4. \A u \in TxnId : Written(u) = {}
    BY <2>1 DEF Written
  <2>5. Pending = [u \in TxnId |-> <<>>]
    BY <2>4, DatabaseIs
  <2> QED
    BY <2>3, <2>5 DEF Store!Init
<1>5. TypeOK /\ LockInv /\ [Next]_vars => LockInv'
  BY LockInvStep
<1>6. TypeOK /\ TypeOK' /\ LockInv /\ AtomicInv /\ [Next]_vars => AtomicInv'
  BY AtomicStep
<1>7. TypeOK /\ TypeOK' /\ LockInv /\ AtomicInv /\ Seen /\ Seen' /\ [Next]_vars
        => [Store!Next]_(Store!vars)
  BY StoreStep
<1> QED
  BY <1>1, <1>2, <1>3, <1>4, <1>5, <1>6, <1>7, TypeCorrect, PTL
     DEF Spec, ImplementsAtomicStore, Store!Spec
==============================================================================
