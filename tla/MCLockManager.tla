--------------------------- MODULE MCLockManager ---------------------------
(* Small instances of LockManager: three transactions so that a shared     *)
(* resource can have two holders beside a third that asks for it, two      *)
(* resources so that releaseAll has more than one entry list to sweep.     *)
EXTENDS LockManager
=============================================================================
