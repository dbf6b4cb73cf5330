-------------------------------- MODULE Picks --------------------------------
(***************************************************************************)
(* Loops that collect some elements of a vector, or all but some, keep the *)
(* order.  Defined by positions and not by recursion, so that it can be    *)
(* reasoned about.                                                         *)
(***************************************************************************)
EXTENDS Naturals, FiniteSets, Sequences

(* The n-th of a set of positions is the one that n - 1 others precede.    *)
NthOf(I, n) == CHOOSE i \in {j \in I : Cardinality({k \in I : k < j}) = n - 1} : TRUE

(* The elements of seq at the positions I, in their order.                 *)
Picked(seq, I) == [n \in 1..Cardinality(I) |-> seq[NthOf(I, n)]]
==============================================================================
