--------------------------- MODULE MCCrashRecovery ---------------------------
(* Small instances of CrashRecovery: two transactions on one preloaded     *)
(* table, and at most one restart.                                         *)
EXTENDS CrashRecovery

CONSTANTS k1, k2, v1, v2

OneRow == <<[id |-> k1, val |-> v1]>>
Plain  == [v \in Val |-> v]
=============================================================================
