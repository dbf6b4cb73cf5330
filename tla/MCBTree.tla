------------------------------- MODULE MCBTree -------------------------------
(* Small instances of BTree: nodes of two keys, so that a few insertions   *)
(* already split leaves, an inner node and the root, in any order of keys. *)
EXTENDS BTree
==============================================================================
