--------------------------- MODULE MCTransactions ---------------------------
(* Small instances of Transactions: two transactions on one preloaded      *)
(* table, so that their statements, locks, commits and rollbacks           *)
(* interleave in every order.                                              *)
EXTENDS Transactions

CONSTANTS k1, k2, v1, v2

OneRow == <<[id |-> k1, val |-> v1]>>
=============================================================================
