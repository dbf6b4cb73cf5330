-------------------------------- MODULE Query --------------------------------
(***************************************************************************)
(* A SELECT: the Volcano operators through which the executor pulls its    *)
(* rows one by one (src/hash_join.cpp, Executor::execute and the operators *)
(* of src/include).  A plan has the shape the optimizer gives it, bottom   *)
(* up: a scan or a hash join of two scans, Filter, Projection, Sort,       *)
(* Limit.  (The parser has no joins yet; a join plan is put together by    *)
(* hand.)  The tables exist: Executor::build throws for another one before *)
(* anything is done.                                                       *)
(*                                                                         *)
(* A step is one turn of the loop of the source, with the way of its row   *)
(* up to the results or the buffer of Sort.  The columns sorted by hold    *)
(* numbers, or nothing: mixed with other texts they make the comparison of *)
(* Sort no order at all, for which std::sort promises nothing.             *)
(***************************************************************************)
EXTENDS Expressions, Optimizer, Mvcc, Picks, SequencesExt, FiniteSetsExt

CONSTANTS Tables,     \* contents of the tables: [probe, build : Seq(rows)]
          Queries     \* what is executed, see Build

(* Executor::build: the operators a physical plan becomes.  An absent one  *)
(* is {} or <<>>; without a Projection every column stays, as with "*".    *)
(* snapshot holds the id of the executor's MvccSnapshot, if it has one.    *)
Build(plan, snapshot) ==
    LET Of(type) == {plan[i] : i \in {j \in DOMAIN plan : plan[j].type = type}}
    IN  [join     |-> {[build |-> n.buildKey, probe |-> n.probeKey] : n \in Of("HashJoin")},
         where    |-> {n.predicate : n \in Of("Filter")},
         columns  |-> IF Of("Projection") = {} THEN {"*"}
                      ELSE UNION {ToSet(n.columns) : n \in Of("Projection")},
         orderBy  |-> FlattenSeq([i \in DOMAIN plan |->
                         IF plan[i].type = "Sort" THEN plan[i].orderBy ELSE <<>>]),
         limit    |-> {n.count : n \in Of("Limit")},
         snapshot |-> snapshot]

(* The rows of a table are a vector.                                       *)
IsTables(t) == t.probe \in Seq(ToSet(t.probe)) /\ t.build \in Seq(ToSet(t.build))

(* A plan has one source; LIMIT is followed by digits (parser.cpp:237);    *)
(* transaction ids, which snapshots are taken at, begin with 1.            *)
IsQuery(q) ==
    /\ \A k, l \in q.join : k = l
    /\ q.where \subseteq Exprs
    /\ q.limit \subseteq Nat
    /\ q.snapshot \subseteq Nat \ {0}

ASSUME TablesAssumption == \A t \in Tables : IsTables(t)
ASSUME QueryAssumption == \A q \in Queries : IsQuery(q)

VARIABLES tables,     \* storage_
          query,      \* the operators
          phase,      \* how far execute has come
          cursor,     \* cursor_ of the scan on the probe side
          probeRow,   \* probeRow_ of the join
          matches,    \* currentMatches_
          at,         \* probeCursor_
          buffered,   \* buffered_ of Sort
          results     \* what execute has collected; seen_ is its length

vars == <<tables, query, phase, cursor, probeRow, matches, at, buffered, results>>

------------------------------------------------------------------------------
(* The operators.                                                          *)

(* Whether SeqScan returns the row.                                        *)
Scanned(row) == SeenUnder(query.snapshot, row)

(* Where the rows are that the build side hashes under a probe row's key.  *)
Hits(row) ==
    {j \in 1..Len(tables.build) : LET b == tables.build[j] IN
        /\ Scanned(b)
        /\ \E keys \in query.join :
             /\ keys.build \in DOMAIN b /\ keys.probe \in DOMAIN row
             /\ b[keys.build] = row[keys.probe]}

(* The rows of the hash table under the key of a probe row, as inserted.   *)
Bucket(row) == Picked(tables.build, Hits(row))

(* The joined row has the columns of both; the probe row's values count.   *)
Joined(probe, build) ==
    [col \in DOMAIN probe \cup DOMAIN build |->
        IF col \in DOMAIN probe THEN probe[col] ELSE build[col]]

Passes(row) == \A e \in query.where : Evaluate(e, row)

Projected(row) ==
    IF query.columns = {"*"} THEN row
    ELSE [col \in query.columns \cap DOMAIN row |-> row[col]]

(* The comparison of sortRows: the first clause that tells a and b apart.  *)
Less(a, b) ==
    \E i \in 1..Len(query.orderBy) :
        LET Of(row, j) == ValueOf(row, query.orderBy[j].column)
        IN  /\ \A j \in 1..(i - 1) : Same(Of(a, j), Of(b, j))
            /\ IF query.orderBy[i].ascending THEN Below(Of(a, i), Of(b, i))
                                             ELSE Below(Of(b, i), Of(a, i))

(* std::sort is not stable: any order without a pair in the wrong order.   *)
Orders(rows) ==
    {[i \in 1..Len(rows) |-> rows[p[i]]] :
       p \in {f \in [1..Len(rows) -> 1..Len(rows)] :
                /\ \A i, j \in 1..Len(rows) : f[i] = f[j] => i = j
                /\ \A i, j \in 1..Len(rows) : i < j => ~Less(rows[f[j]], rows[f[i]])}}

Sorts == query.orderBy # <<>>

(* fault: one row too many is pulled before the limit is noticed *)
LimitReached_Late == \E n \in query.limit : Len(results) > n

LimitReached == \E n \in query.limit : Len(results) >= n

------------------------------------------------------------------------------
(* The source hands a row to its parent: Filter drops it, or it goes on to *)
(* Projection and then into Sort's buffer, or into the results.            *)
Deliver(row) ==
    IF ~Passes(row) THEN UNCHANGED <<buffered, results>>
    ELSE IF Sorts THEN buffered' = Append(buffered, Projected(row)) /\ UNCHANGED results
    ELSE results' = Append(results, Projected(row)) /\ UNCHANGED buffered

(* The source is asked: by Sort when it opens, until there is no row left, *)
(* and otherwise by the loop of execute, as long as Limit lets it through. *)
Pulling == phase = "pull" /\ (Sorts \/ ~LimitReached)

AtEnd == cursor = Len(tables.probe) /\ at = Len(matches)

(* open of every operator.                                                 *)
Open ==
    /\ phase = "new"
    /\ phase' = "pull"
    /\ cursor' = 0
    /\ matches' = <<>>
    /\ at' = 0
    /\ buffered' = <<>>
    /\ UNCHANGED <<tables, query, probeRow, results>>

(* fault: Filter looks again at the row it has dropped *)
CursorAfter_Dropped(row) == IF Passes(row) THEN cursor + 1 ELSE cursor

CursorAfter(row) == cursor + 1

(* SeqScan::next.                                                          *)
ScanStep ==
    /\ Pulling
    /\ query.join = {}
    /\ cursor < Len(tables.probe)
    /\ LET row == tables.probe[cursor + 1]
       IN  /\ cursor' = CursorAfter(row)
           /\ IF Scanned(row) THEN Deliver(row) ELSE UNCHANGED <<buffered, results>>
    /\ UNCHANGED <<tables, query, phase, probeRow, matches, at>>

(* fault: a miss goes back to the first of the matches at hand *)
Probed_Rewinds(row) ==
    IF Scanned(row) /\ Bucket(row) # <<>>
    THEN probeRow' = row /\ matches' = Bucket(row) /\ at' = 0
    ELSE at' = 0 /\ UNCHANGED <<probeRow, matches>>

(* The lookup of a row of the probe side.  A row without a bucket leaves   *)
(* probe row, matches and cursor of the last hit behind.                   *)
Probed(row) ==
    IF Scanned(row) /\ Bucket(row) # <<>>
    THEN probeRow' = row /\ matches' = Bucket(row) /\ at' = 0
    ELSE UNCHANGED <<probeRow, matches, at>>

(* HashJoin::next goes on to the next row of the probe side.               *)
ProbeStep ==
    /\ Pulling
    /\ query.join # {}
    /\ at = Len(matches)
    /\ cursor < Len(tables.probe)
    /\ cursor' = cursor + 1
    /\ Probed(tables.probe[cursor + 1])
    /\ UNCHANGED <<tables, query, phase, buffered, results>>

(* HashJoin::next returns the probe row joined with the next match.        *)
EmitStep ==
    /\ Pulling
    /\ at < Len(matches)
    /\ at' = at + 1
    /\ Deliver(Joined(probeRow, matches[at + 1]))
    /\ UNCHANGED <<tables, query, phase, cursor, probeRow, matches>>

(* The end of Sort::open.                                                  *)
SortRows ==
    /\ Pulling
    /\ Sorts
    /\ AtEnd
    /\ buffered' \in Orders(buffered)
    /\ phase' = "serve"
    /\ UNCHANGED <<tables, query, cursor, probeRow, matches, at, results>>

(* Sort::next; its cursor_ is the number of results.                       *)
ServeStep ==
    /\ phase = "serve"
    /\ ~LimitReached
    /\ Len(results) < Len(buffered)
    /\ results' = Append(results, buffered[Len(results) + 1])
    /\ UNCHANGED <<tables, query, phase, cursor, probeRow, matches, at, buffered>>

(* The root answers nullopt, execute closes the operators and returns.     *)
Close ==
    /\ \/ phase = "pull" /\ ~Sorts /\ (LimitReached \/ AtEnd)
       \/ phase = "serve" /\ (LimitReached \/ Len(results) = Len(buffered))
    /\ phase' = "done"
    /\ UNCHANGED <<tables, query, cursor, probeRow, matches, at, buffered, results>>

Returned == phase = "done" /\ UNCHANGED vars

Init ==
    /\ tables \in Tables
    /\ query \in Queries
    /\ phase = "new"
    /\ cursor = 0 /\ probeRow = <<>> /\ matches = <<>> /\ at = 0
    /\ buffered = <<>>
    /\ results = <<>>

Next ==
    \/ Open
    \/ ScanStep
    \/ ProbeStep
    \/ EmitStep
    \/ SortRows
    \/ ServeStep
    \/ Close
    \/ Returned

(* One thread runs execute, and nothing makes it wait.                     *)
Spec == Init /\ [][Next]_vars /\ WF_vars(Next)

------------------------------------------------------------------------------
(* The relational answer.  A candidate is a row of the scanned table, or a *)
(* pair of rows with equal keys.                                           *)
Pairs == {<<i, j>> : i \in 1..Len(tables.probe), j \in 1..Len(tables.build)}

Equijoined(i, j, keys) ==
    LET p == tables.probe[i]
        b == tables.build[j]
    IN  keys.probe \in DOMAIN p /\ keys.build \in DOMAIN b /\ p[keys.probe] = b[keys.build]

Candidates ==
    IF query.join = {} THEN {<<i>> : i \in 1..Len(tables.probe)}
    ELSE {c \in Pairs : \A keys \in query.join : Equijoined(c[1], c[2], keys)}

Content(c) == IF Len(c) = 1 THEN tables.probe[c[1]]
              ELSE Joined(tables.probe[c[1]], tables.build[c[2]])

Answer == {c \in Candidates : Passes(Content(c))}

Asked(row) == Cardinality({c \in Answer : Projected(Content(c)) = row})
Given(row) == Cardinality({i \in 1..Len(results) : results[i] = row})

(* The optimizer puts Sort above Projection (optimizer.cpp:30-38), so only *)
(* columns that are selected can be sorted by.                             *)
SortsBySelected ==
    \/ query.columns = {"*"}
    \/ \A i \in 1..Len(query.orderBy) : query.orderBy[i].column \in query.columns

(* What execute returns is the relational answer: with every multiplicity, *)
(* in the order asked for, cut at the limit and not before, and a row that *)
(* is cut off belongs before none that is returned (the pipeline of        *)
(* optimizer.cpp:19-48 pulled by executor.cpp:172-185).                    *)
AnswerRelational == phase = "done" /\ SortsBySelected =>
    LET rows == {Projected(Content(c)) : c \in Answer}
    IN  /\ ToSet(results) \subseteq rows
        /\ \A row \in rows : Given(row) <= Asked(row)
        /\ Len(results) = Min({Cardinality(Answer)} \cup query.limit)
        /\ \A i, j \in 1..Len(results) : i < j => ~Less(results[j], results[i])
        /\ \A row \in rows : Given(row) < Asked(row) =>
             \A i \in 1..Len(results) : ~Less(row, results[i])

(* The candidates the source has gone through, and whether it stopped at c. *)
Rank(c)      == Cardinality({d \in Candidates : d[1] = c[1] /\ d[2] <= c[2]})
Pulled(c)    == c[1] < cursor \/ (c[1] = cursor /\ (Len(c) = 1 \/ Rank(c) <= at))
StoppedAt(c) == c[1] = cursor /\ (Len(c) = 1 \/ Rank(c) = at)

(* README.md:192: a query with LIMIT "scans just enough rows to satisfy    *)
(* the limit".  Without ORDER BY, the source is asked for the rows of the  *)
(* answer up to the limit, and for nothing behind the last of them.        *)
ScansJustEnough == phase = "done" /\ ~Sorts =>
    \A n \in query.limit :
        LET found == {c \in Answer : Pulled(c)}
        IN  /\ Cardinality(found) <= n
            /\ Cardinality(found) = n =>
                 IF n = 0 THEN cursor = 0 ELSE \E c \in found : StoppedAt(c)
==============================================================================
