----------------------------- MODULE LockManager -----------------------------
(***************************************************************************)
(* The lock manager of src/lock_manager.cpp.  Every method runs under      *)
(* mutex_, so each is one atomic action.  locks_ maps a resource to a      *)
(* vector of entries; nothing the class does depends on the order of the   *)
(* entries or on how often one is repeated (a transaction that asks twice  *)
(* is entered twice, and releaseAll removes both), so a resource maps to a *)
(* set of entries here.  A call never waits: a conflicting request is      *)
(* answered "denied" and leaves no trace.                                  *)
(***************************************************************************)
CONSTANTS TxnId, Resource

VARIABLES locks,      \* LockManager::locks_
          reply       \* what the last call returned

vars == <<locks, reply>>

Shared    == "Shared"
Exclusive == "Exclusive"
LockMode  == {Shared, Exclusive}
LockEntry == [holder : TxnId, mode : LockMode]

Clash(t, m, e) ==
    /\ e.holder # t
    /\ m = Exclusive \/ e.mode = Exclusive

(* fault: a transaction that already holds the resource gets any mode *)
CanGrant_HolderPasses(t, r, m) ==
    \/ \E e \in locks[r] : e.holder = t
    \/ \A e \in locks[r] : ~Clash(t, m, e)

(* The scan of acquireLock, and the table once the entry is appended.      *)
CanGrant(t, r, m) == \A e \in locks[r] : ~Clash(t, m, e)
Entered(t, r, m)  == [locks EXCEPT ![r] = @ \cup {[holder |-> t, mode |-> m]}]

Answer(t, r, m, ok) == [txn |-> t, resource |-> r, mode |-> m, ok |-> ok]

(* acquireLock returns true.                                               *)
Grant(t, r, m) ==
    /\ CanGrant(t, r, m)
    /\ locks' = Entered(t, r, m)
    /\ reply' = Answer(t, r, m, TRUE)

(* acquireLock returns false, nothing is recorded.                         *)
Deny(t, r, m) ==
    /\ ~CanGrant(t, r, m)
    /\ reply' = Answer(t, r, m, FALSE)
    /\ UNCHANGED locks

(* fault: the shared entries of a transaction survive releaseAll *)
Released_KeepsShared(t) ==
    [r \in Resource |-> {e \in locks[r] : e.holder # t \/ e.mode = Shared}]

(* releaseAll: the entries of t leave every resource.                      *)
Released(t) == [r \in Resource |-> {e \in locks[r] : e.holder # t}]

ReleaseAll(t) == locks' = Released(t) /\ UNCHANGED reply

IsLocked(r) ==
    /\ reply' = [resource |-> r, locked |-> locks[r] # {}]
    /\ UNCHANGED locks

Init ==
    /\ locks = [r \in Resource |-> {}]
    /\ reply = [ok |-> TRUE]

Next ==
    \/ \E t \in TxnId, r \in Resource, m \in LockMode : Grant(t, r, m)
    \/ \E t \in TxnId, r \in Resource, m \in LockMode : Deny(t, r, m)
    \/ \E r \in Resource : IsLocked(r)
    \/ \E t \in TxnId : ReleaseAll(t)

Spec == Init /\ [][Next]_vars

------------------------------------------------------------------------------
(* Every resource carries entries of known transactions in a known mode    *)
(* (LockManager::locks_, lock_manager.h:26).                               *)
TypeOK == locks \in [Resource -> SUBSET LockEntry]

(* Two transactions hold the same resource only when every entry of both   *)
(* is shared: the scan of acquireLock may skip the caller's own entries    *)
(* (line 13), and still no later upgrade, release or second request lets a *)
(* writer in beside anyone else.                                           *)
NoConflict ==
    \A r \in Resource : \A d, e \in locks[r] :
        d.holder # e.holder => d.mode = Shared /\ e.mode = Shared

(* The mode in which t owns r: its strongest entry.                        *)
Owns(r, t) ==
    IF [holder |-> t, mode |-> Exclusive] \in locks[r] THEN Exclusive
    ELSE IF [holder |-> t, mode |-> Shared] \in locks[r] THEN Shared
    ELSE "Free"

Abstract == INSTANCE LockTable
           WITH own <- [r \in Resource |-> [t \in TxnId |-> Owns(r, t)]]

(* Every sequence of acquireLock, releaseAll and isLocked calls answers as *)
(* the abstract lock table does: grants, upgrades, denials and releases.   *)
ImplementsLockTable == Abstract!Spec
==============================================================================
