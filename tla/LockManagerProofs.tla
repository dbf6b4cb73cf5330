-------------------------- MODULE LockManagerProofs --------------------------
(***************************************************************************)
(* What LockManager.tla guarantees for every set of transactions and every *)
(* set of resources: no two transactions ever hold incompatible locks, and *)
(* the entry lists answer every call as the abstract lock table does.      *)
(***************************************************************************)
EXTENDS LockManager, TLAPS

(* The entries stay well formed whatever is granted or released.           *)
LEMMA TypeCorrect == Spec => []TypeOK
<1>1. Init => TypeOK
  BY DEF Init, TypeOK
<1>2. TypeOK /\ [Next]_vars => TypeOK'
  <2> SUFFICES ASSUME TypeOK, [Next]_vars PROVE TypeOK'
    OBVIOUS
  <2>1. ASSUME NEW t \in TxnId, NEW r \in Resource, NEW m \in LockMode, Grant(t, r, m)
        PROVE  TypeOK'
    <3>1. [holder |-> t, mode |-> m] \in LockEntry
      BY DEF LockEntry
    <3> QED
      BY <2>1, <3>1 DEF Grant, Entered, TypeOK
  <2>2. ASSUME NEW t \in TxnId, ReleaseAll(t) PROVE TypeOK'
    BY <2>2 DEF ReleaseAll, Released, TypeOK
  <2>3. CASE UNCHANGED locks
    BY <2>3 DEF TypeOK
  <2> QED
    BY <2>1, <2>2, <2>3 DEF Next, Deny, IsLocked, vars
<1> QED
  BY <1>1, <1>2, PTL DEF Spec

(* NoConflict is inductive beside TypeOK: a grant has compared the request *)
(* with every entry of the resource (acquireLock, lock_manager.cpp:12-18), *)
(* and releaseAll only takes entries away.                                 *)
THEOREM ConflictFree == Spec => []NoConflict
<1>1. Init => NoConflict
  BY DEF Init, NoConflict
<1>2. TypeOK /\ NoConflict /\ [Next]_vars => NoConflict'
  <2> SUFFICES ASSUME TypeOK, NoConflict, [Next]_vars PROVE NoConflict'
    OBVIOUS
  <2>1. ASSUME NEW t \in TxnId, NEW r \in Resource, NEW m \in LockMode, Grant(t, r, m)
        PROVE  NoConflict'
    <3> SUFFICES ASSUME NEW q \in Resource, NEW d \in locks'[q], NEW e \in locks'[q],
                        d.holder # e.holder
                 PROVE  d.mode = Shared /\ e.mode = Shared
      BY DEF NoConflict
    <3> DEFINE new == [holder |-> t, mode |-> m]
    <3>1. CASE d \in locks[q] /\ e \in locks[q]
      BY <3>1 DEF NoConflict
    <3>2. CASE q = r /\ d = new /\ e \in locks[q]
      BY <2>1, <3>2 DEF Grant, CanGrant, Clash, TypeOK, LockEntry, LockMode, Shared, Exclusive
    <3>3. CASE q = r /\ e = new /\ d \in locks[q]
      BY <2>1, <3>3 DEF Grant, CanGrant, Clash, TypeOK, LockEntry, LockMode, Shared, Exclusive
    <3>4. CASE d = new /\ e = new
      BY <3>4
    <3> QED
      BY <2>1, <3>1, <3>2, <3>3, <3>4 DEF Grant, Entered, TypeOK
  <2>2. ASSUME NEW t \in TxnId, ReleaseAll(t) PROVE NoConflict'
    BY <2>2 DEF ReleaseAll, Released, NoConflict
  <2>3. CASE UNCHANGED locks
    BY <2>3 DEF NoConflict
  <2> QED
    BY <2>1, <2>2, <2>3 DEF Next, Deny, IsLocked, vars
<1> QED
  BY <1>1, <1>2, TypeCorrect, PTL DEF Spec

------------------------------------------------------------------------------
(* The refinement: the entry lists seen through Owns.                      *)
ownMap == [r \in Resource |-> [t \in TxnId |-> Owns(r, t)]]

(* A transaction owns nothing exactly when none of its entries is left.    *)
LEMMA OwnsFree ==
    ASSUME TypeOK, NEW r \in Resource, NEW t \in TxnId
    PROVE  Owns(r, t) = "Free" <=> \A e \in locks[r] : e.holder # t
<1>1. \A e \in locks[r] :
         e.holder = t => e = [holder |-> t, mode |-> Exclusive]
                         \/ e = [holder |-> t, mode |-> Shared]
  BY DEF TypeOK, LockEntry, LockMode
<1> QED
  BY <1>1 DEF Owns, Shared, Exclusive

(* acquireLock's scan finds a clash exactly when the abstract table would. *)
LEMMA ScanDecides ==
    ASSUME TypeOK, NEW t \in TxnId, NEW r \in Resource, NEW m \in LockMode
    PROVE  Abstract!CanOwn(t, r, m) <=> CanGrant(t, r, m)
<1>1. ASSUME Abstract!CanOwn(t, r, m), NEW e \in locks[r] PROVE ~Clash(t, m, e)
  <2> SUFFICES ASSUME e.holder # t PROVE m = Shared /\ e.mode = Shared
    BY DEF Clash, LockMode, Shared, Exclusive
  <2> DEFINE u == e.holder
  <2>1. u \in TxnId \ {t} /\ e.mode \in LockMode /\ e = [holder |-> u, mode |-> e.mode]
    BY DEF TypeOK, LockEntry
  <2>2. Owns(r, u) # "Free"
    BY <2>1, OwnsFree
  <2>3. m = Shared /\ Owns(r, u) = Shared
    BY <1>1, <2>1, <2>2
       DEF Abstract!CanOwn, Abstract!Compatible, Abstract!Free, Abstract!Shared, Shared
  <2>4. e.mode # Exclusive
    BY <2>1, <2>3 DEF Owns, Shared, Exclusive
  <2> QED
    BY <2>1, <2>3, <2>4 DEF LockMode
<1>2. ASSUME \A e \in locks[r] : ~Clash(t, m, e), NEW u \in TxnId \ {t}
      PROVE  Abstract!Compatible(m, Owns(r, u))
  <2>1. CASE Owns(r, u) = "Free"
    BY <2>1 DEF Abstract!Compatible, Abstract!Free
  <2>2. CASE Owns(r, u) = Shared
    <3>1. [holder |-> u, mode |-> Shared] \in locks[r]
      BY <2>2 DEF Owns, Shared, Exclusive
    <3> QED
      BY <1>2, <2>2, <3>1 DEF Clash, LockMode, Abstract!Compatible, Abstract!Shared, Shared
  <2>3. CASE Owns(r, u) = Exclusive
    <3>1. [holder |-> u, mode |-> Exclusive] \in locks[r]
      BY <2>3 DEF Owns, Shared, Exclusive
    <3> QED
      BY <1>2, <3>1 DEF Clash
  <2> QED
    BY <2>1, <2>2, <2>3 DEF Owns
<1> QED
  BY <1>1, <1>2 DEF Abstract!CanOwn, CanGrant

(* The new entry raises the caller's mode to the stronger of the two and   *)
(* moves nobody else's.                                                    *)
LEMMA GrantRefines ==
    ASSUME TypeOK, NEW t \in TxnId, NEW r \in Resource, NEW m \in LockMode,
           Grant(t, r, m)
    PROVE  Abstract!Request(t, r, m)
<1> DEFINE new == [holder |-> t, mode |-> m]
<1>1. locks' = [locks EXCEPT ![r] = @ \cup {new}]
  BY DEF Grant, Entered
<1>2. Abstract!CanOwn(t, r, m)
  BY ScanDecides DEF Grant
<1>3. \A q \in Resource, u \in TxnId : q # r \/ u # t => Owns(q, u)' = Owns(q, u)
  <2> TAKE q \in Resource, u \in TxnId
  <2>1. CASE q # r
    BY <1>1, <2>1 DEF Owns, TypeOK
  <2>2. CASE q = r /\ u # t
    <3>1. \A n : [holder |-> u, mode |-> n] \in locks'[q]
                 <=> [holder |-> u, mode |-> n] \in locks[q]
      BY <1>1, <2>2 DEF TypeOK
    <3> QED
      BY <3>1 DEF Owns
  <2> QED
    BY <2>1, <2>2
<1>4. Owns(r, t)' = Abstract!Stronger(Owns(r, t), m)
  <2>1. \A n : [holder |-> t, mode |-> n] \in locks'[r]
               <=> n = m \/ [holder |-> t, mode |-> n] \in locks[r]
    BY <1>1 DEF TypeOK
  <2>2. CASE m = Exclusive
    BY <2>1, <2>2 DEF Owns, Abstract!Stronger, Abstract!Exclusive, Exclusive
  <2>3. CASE m = Shared
    BY <2>1, <2>3
       DEF Owns, Abstract!Stronger, Abstract!Exclusive, Abstract!Shared, Exclusive, Shared
  <2> QED
    BY <2>2, <2>3 DEF LockMode
<1>5. ownMap' = [ownMap EXCEPT ![r][t] = Abstract!Stronger(@, m)]
  BY <1>3, <1>4 DEF ownMap
<1> QED
  BY <1>2, <1>5 DEF Grant, Answer, Abstract!Request, ownMap

(* releaseAll clears the caller's column of the abstract table.            *)
LEMMA ReleaseRefines ==
    ASSUME TypeOK, NEW t \in TxnId, ReleaseAll(t)
    PROVE  Abstract!End(t)
<1>1. \A r \in Resource : locks'[r] = {e \in locks[r] : e.holder # t}
  BY DEF ReleaseAll, Released
<1>2. \A r \in Resource, u \in TxnId :
        Owns(r, u)' = IF u = t THEN "Free" ELSE Owns(r, u)
  <2> TAKE r \in Resource, u \in TxnId
  <2>1. \A n : [holder |-> u, mode |-> n] \in locks'[r]
               <=> u # t /\ [holder |-> u, mode |-> n] \in locks[r]
    BY <1>1
  <2> QED
    BY <2>1 DEF Owns
<1>3. ownMap' = [r \in Resource |-> [ownMap[r] EXCEPT ![t] = "Free"]]
  BY <1>2 DEF ownMap
<1> QED
  BY <1>3 DEF ReleaseAll, Abstract!End, Abstract!Free, ownMap

(* The whole of lock_manager.cpp implements the abstract lock table.       *)
THEOREM Refinement == Spec => ImplementsLockTable
<1>1. Init => Abstract!Init
  BY DEF Init, Owns, Abstract!Init, Abstract!Free
<1>2. TypeOK /\ [Next]_vars => [Abstract!Next]_(Abstract!vars)
  <2> SUFFICES ASSUME TypeOK, [Next]_vars PROVE Abstract!Next \/ UNCHANGED Abstract!vars
    OBVIOUS
  <2>0. LockMode = Abstract!LockMode
    BY DEF LockMode, Shared, Exclusive, Abstract!LockMode, Abstract!Shared, Abstract!Exclusive
  <2>1. ASSUME NEW t \in TxnId, NEW r \in Resource, NEW m \in LockMode, Grant(t, r, m)
        PROVE  Abstract!Next
    BY <2>0, <2>1, GrantRefines DEF Abstract!Next
  <2>2. ASSUME NEW t \in TxnId, NEW r \in Resource, NEW m \in LockMode, Deny(t, r, m)
        PROVE  Abstract!Next
    <3>1. Abstract!CanOwn(t, r, m) = FALSE
      BY <2>2, ScanDecides DEF Deny, Abstract!CanOwn
    <3>2. ownMap' = ownMap
      BY <2>2 DEF Deny, ownMap, Owns
    <3>3. Abstract!Request(t, r, m)
      BY <2>2, <3>1, <3>2 DEF Deny, Answer, Abstract!Request, ownMap
    <3> QED
      BY <2>0, <3>3 DEF Abstract!Next
  <2>3. ASSUME NEW r \in Resource, IsLocked(r) PROVE Abstract!Next
    <3>1. locks[r] # {} <=> \E t \in TxnId : ownMap[r][t] # "Free"
      <4>1. \A e \in locks[r] : e.holder \in TxnId
        BY DEF TypeOK, LockEntry
      <4>2. \A t \in TxnId : ownMap[r][t] # "Free" <=> \E e \in locks[r] : e.holder = t
        BY OwnsFree DEF ownMap
      <4> QED
        BY <4>1, <4>2
    <3>2. ownMap' = ownMap
      BY <2>3 DEF IsLocked, ownMap, Owns
    <3>3. Abstract!Query(r)
      BY <2>3, <3>1, <3>2 DEF IsLocked, Abstract!Query, Abstract!Free, ownMap
    <3> QED
      BY <3>3 DEF Abstract!Next
  <2>4. ASSUME NEW t \in TxnId, ReleaseAll(t) PROVE Abstract!Next
    BY <2>4, ReleaseRefines DEF Abstract!Next
  <2>5. CASE UNCHANGED vars
    BY <2>5 DEF vars, Abstract!vars, Owns
  <2> QED
    BY <2>1, <2>2, <2>3, <2>4, <2>5 DEF Next
<1> QED
  BY <1>1, <1>2, TypeCorrect, PTL DEF Spec, ImplementsLockTable, Abstract!Spec
==============================================================================
