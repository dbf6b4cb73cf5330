------------------------------ MODULE LockTable ------------------------------
(***************************************************************************)
(* What a lock manager with two modes promises its callers, without saying *)
(* how it keeps its books: every transaction owns each resource in at most *)
(* one mode, a request is answered at once, and it is granted exactly when *)
(* no other transaction owns the resource in an incompatible mode.         *)
(* LockManager.tla is shown to implement this module.                      *)
(***************************************************************************)
CONSTANTS TxnId,      \* transactions that may ask for locks
          Resource    \* names that can be locked

VARIABLES own,        \* own[r][t]: the mode in which t owns r
          reply       \* the answer to the last call

vars == <<own, reply>>

Shared    == "Shared"
Exclusive == "Exclusive"
Free      == "Free"
LockMode  == {Shared, Exclusive}

Compatible(m, n) == n = Free \/ (m = Shared /\ n = Shared)

(* A second, weaker request never takes the stronger mode away.            *)
Stronger(m, n) == IF Exclusive \in {m, n} THEN Exclusive ELSE Shared

CanOwn(t, r, m) == \A u \in TxnId \ {t} : Compatible(m, own[r][u])

Request(t, r, m) ==
    /\ own' = IF CanOwn(t, r, m)
                THEN [own EXCEPT ![r][t] = Stronger(@, m)]
                ELSE own
    /\ reply' = [txn |-> t, resource |-> r, mode |-> m, ok |-> CanOwn(t, r, m)]

Query(r) ==
    /\ reply' = [resource |-> r, locked |-> \E t \in TxnId : own[r][t] # Free]
    /\ UNCHANGED own

End(t) ==
    /\ own' = [r \in Resource |-> [own[r] EXCEPT ![t] = Free]]
    /\ UNCHANGED reply

Init ==
    /\ own = [r \in Resource |-> [t \in TxnId |-> Free]]
    /\ reply = [ok |-> TRUE]

Next ==
    \/ \E t \in TxnId, r \in Resource, m \in LockMode : Request(t, r, m)
    \/ \E r \in Resource : Query(r)
    \/ \E t \in TxnId : End(t)

Spec == Init /\ [][Next]_vars
==============================================================================
