------------------------------ MODULE AtomicStore ------------------------------
(***************************************************************************)
(* What transactions promise: a transaction collects its writes where      *)
(* nobody else can disturb them, commit makes all of them part of the      *)
(* database in one step, and rollback leaves no trace.  Two transactions   *)
(* never have writes on the same id at the same time.                      *)
(* Transactions.tla implements this for clients that lock what they write. *)
(***************************************************************************)


CONSTANTS Txn, Id, Val, Absent

VARIABLES db,         \* db[k]: the committed value of id k, or Absent
          pending     \* pending[t]: id |-> value t has written, or Absent

vars == <<db, pending>>

Writes == UNION {[K -> Val \cup {Absent}] : K \in SUBSET Id}

Overlay(f, g) == [k \in DOMAIN f \cup DOMAIN g |->
                    IF k \in DOMAIN f THEN f[k] ELSE g[k]]

Write(t, w) ==
    /\ \A u \in Txn \ {t} : DOMAIN w \cap DOMAIN pending[u] = {}
    /\ pending' = [pending EXCEPT ![t] = Overlay(w, @)]
    /\ UNCHANGED db

Commit(t) ==
    /\ db' = Overlay(pending[t], db)
    /\ pending' = [pending EXCEPT ![t] = <<>>]

Rollback(t) ==
    /\ pending' = [pending EXCEPT ![t] = <<>>]
    /\ UNCHANGED db

Init ==
    /\ db \in [Id -> Val \cup {Absent}]
    /\ pending = [t \in Txn |-> <<>>]

Next == \E t \in Txn :
    \/ \E w \in Writes : Write(t, w)
    \/ Commit(t)
    \/ Rollback(t)

Spec == Init /\ [][Next]_vars
==============================================================================
