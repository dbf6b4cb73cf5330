------------------------------ MODULE PageStore ------------------------------
(***************************************************************************)
(* What a paged file behind a cache promises: a page reads back what was   *)
(* last put into it, whatever has been loaded or evicted in between, and a *)
(* crash takes every page back to what had been saved of it.  Saving       *)
(* happens whenever the cache finds it useful; a save that fails or is cut *)
(* short may leave its one page torn.  BufferPool.tla implements this.     *)
(***************************************************************************)
EXTENDS Naturals, Sequences

CONSTANTS Val,        \* what a client may write into a page
          Blank,      \* the content of a fresh page
          Torn        \* part old, part new: no content anyone wrote

VARIABLES store,      \* store[p]: what a client reads in page p
          stable      \* stable[p]: what a restart would find in page p

vars == <<store, stable>>

Page == 1..Len(store)

(* The pages of S are saved; the pages of T are cut short while saving.    *)
Saved(S, T) ==
    [p \in Page |-> IF p \in S THEN store[p]
                    ELSE IF p \in T THEN Torn
                    ELSE stable[p]]

Unsaved == {p \in Page : store[p] # stable[p]}
Tears   == {T \in SUBSET Unsaved : \A p, q \in T : p = q}

Write(p, v) == store' = [store EXCEPT ![p] = v] /\ UNCHANGED stable

Save(S, T) == stable' = Saved(S, T) /\ UNCHANGED store

Allocate(S) ==
    /\ store'  = Append(store, Blank)
    /\ stable' = Append(Saved(S, {}), Blank)

Crash(T) ==
    /\ stable' = Saved({}, T)
    /\ store'  = stable'

Init == store = <<>> /\ stable = <<>>

Next ==
    \/ \E p \in Page, v \in Val : Write(p, v)
    \/ \E S \in SUBSET Page, T \in Tears : Save(S, T)
    \/ \E S \in SUBSET Page : Allocate(S)
    \/ \E T \in Tears : Crash(T)

Spec == Init /\ [][Next]_vars
==============================================================================
