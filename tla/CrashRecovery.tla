---------------------------- MODULE CrashRecovery ----------------------------
(***************************************************************************)
(* Transactions with processes that end and start again.  Tables, open     *)
(* transactions and locks are memory and are lost; transaction ids start   *)
(* again at 1; only the log file stays.  A restarted program fills its     *)
(* tables as before and may call recover, which replays what readAll finds.*)
(*                                                                         *)
(* Because the stream of the log is in its failed state from the first     *)
(* moment (WAL.tla) the file never receives a record, and recover finds    *)
(* nothing.  What its two passes would do with the records handed to       *)
(* append is judged on that history, appended.                             *)
(***************************************************************************)
EXTENDS Transactions, Recovery

CONSTANT MaxRestarts    \* bound on the number of restarts

ASSUME RestartsAssumption == MaxRestarts \in Nat

VARIABLE restarts

crashVars == <<vars, restarts>>

Fresh == [tb \in Preloaded |-> InitialRows]

Restart ==
    /\ restarts < MaxRestarts
    /\ restarts' = restarts + 1
    /\ storage' = Fresh
    /\ txns' = <<>>
    /\ locks' = [r \in Resource |-> {}]
    /\ Log!Reopen
    /\ UNCHANGED appended

RecoverNow ==
    /\ ActiveTxns = {}
    /\ storage' = Recover(Log!ReadAll, storage)
    /\ Log!AfterRead
    /\ UNCHANGED <<txns, locks, appended, restarts>>

CrashInit == Init /\ restarts = 0

CrashNext ==
    \/ Next /\ UNCHANGED restarts
    \/ Restart
    \/ RecoverNow

CrashSpec == CrashInit /\ [][CrashNext]_crashVars

------------------------------------------------------------------------------
Value(st, tb, k) ==
    LET i == SelectInSeq(RowsOf(st, tb), LAMBDA row : row.id = k)
    IN  IF i = 0 THEN Absent ELSE st[tb][i].val

(* Ids some aborted transaction of the log has written.                    *)
AbortedIds ==
    UNION {{appended[i].change.table} \X Touches(appended[i].change) :
        i \in {j \in 1..Len(appended) : appended[j].type = "Data"
                 /\ appended[j].txn \notin CommittedIn(appended)}}

(* Replaying the log over the tables the program starts with rebuilds the  *)
(* committed value of every id that no aborted transaction has written:    *)
(* inserts, updates and deletes of any number of committed transactions,   *)
(* in the order of their commits, with other transactions still open.      *)
RecoverRebuilds ==
    restarts = 0 =>
        \A id \in Resource \ AbortedIds :
            Value(Recover(appended, Fresh), id[1], id[2]) = Database[id]

(* What id was ever worth to anybody but an aborted transaction.           *)
CommittedValues(id) ==
    {Absent, Value(Fresh, id[1], id[2])}
        \cup {appended[i].change.new.val : i \in
                {j \in 1..Len(appended) : /\ appended[j].type = "Data"
                                         /\ appended[j].txn \in CommittedIn(appended)
                                         /\ appended[j].change.table = id[1]
                                         /\ appended[j].change.key = id[2]
                                         /\ appended[j].change.new # NoRow}}

(* For the other ids the old images of aborted transactions overwrite what *)
(* was committed later (wal.cpp:177), and recovery may end with an earlier *)
(* value or none; but what only an aborted transaction has written, by     *)
(* however many changes to the same id, never comes back.                  *)
RecoverCommittedOnly ==
    restarts = 0 =>
        \A id \in Resource :
            Value(Recover(appended, Fresh), id[1], id[2]) \in CommittedValues(id)

(* Recovering twice, as after a crash during recovery, gives what          *)
(* recovering once does, up to the order of the rows (wal.cpp:148, "avoid  *)
(* duplicate rows on multiple recoveries").                                *)
RecoverIdempotent ==
    LET once  == Recover(appended, Fresh)
        twice == Recover(appended, once)
    IN  \A tb \in DOMAIN once : ToBag(twice[tb]) = ToBag(once[tb])
==============================================================================
