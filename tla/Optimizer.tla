------------------------------ MODULE Optimizer ------------------------------
(***************************************************************************)
(* From a statement to a plan (src/src/optimizer.cpp).  A plan is written  *)
(* bottom up as the sequence of its nodes, for every node has one child;   *)
(* only a join has two, which are scans, and holds them itself.            *)
(***************************************************************************)
EXTENDS Naturals, Sequences

LogicalScan(table)     == [type |-> "Scan", tableName |-> table]
LogicalFilter(pred)    == [type |-> "Filter", predicate |-> pred]
LogicalProjection(cols) == [type |-> "Projection", columns |-> cols]
LogicalSort(order)     == [type |-> "Sort", orderBy |-> order]
LogicalLimit(n)        == [type |-> "Limit", count |-> n]
LogicalJoin(lk, rk, left, right) ==
    [type |-> "Join", leftKey |-> lk, rightKey |-> rk, children |-> <<left, right>>]

(* The node of an optional clause, which is a set of at most one value.    *)
Node(Constructor(_), clause) ==
    IF clause = {} THEN <<>> ELSE <<Constructor(CHOOSE x \in clause : TRUE)>>

BuildSelect(s) ==
    <<LogicalScan(s.table)>>
        \o Node(LogicalFilter, s.where)
        \o <<LogicalProjection(s.columns)>>
        \o (IF s.orderBy = <<>> THEN <<>> ELSE <<LogicalSort(s.orderBy)>>)
        \o Node(LogicalLimit, s.limit)

BuildInsert(s) == <<LogicalScan(s.table)>>

BuildDelete(s) == <<LogicalScan(s.table)>> \o Node(LogicalFilter, s.where)

BuildUpdate(s) == <<LogicalScan(s.table)>> \o Node(LogicalFilter, s.where)

(* toLogical throws for a statement that is none of these.                 *)
Plannable(s) == s.kind \in {"select", "insert", "delete", "update"}

ToLogical(s) == CASE s.kind = "select" -> BuildSelect(s)
                  [] s.kind = "insert" -> BuildInsert(s)
                  [] s.kind = "delete" -> BuildDelete(s)
                  [] s.kind = "update" -> BuildUpdate(s)

PhysicalSeqScan(table) == [type |-> "SeqScan", tableName |-> table]
PhysicalHashJoin(bk, pk, children) ==
    [type |-> "HashJoin", buildKey |-> bk, probeKey |-> pk, children |-> children]

(* buildPhysical chooses an algorithm for a scan and for a join, whose left *)
(* side becomes the side the hash table is built from; the other nodes     *)
(* stay what they are.                                                     *)
BuildPhysical(plan) ==
    LET SeqScan(n)  == PhysicalSeqScan(n.tableName)
        HashJoin(n) == PhysicalHashJoin(n.leftKey, n.rightKey,
                                        [i \in 1..2 |-> SeqScan(n.children[i])])
    IN  [i \in DOMAIN plan |-> CASE plan[i].type = "Scan" -> SeqScan(plan[i])
                                [] plan[i].type = "Join" -> HashJoin(plan[i])
                                [] OTHER -> plan[i]]
==============================================================================
