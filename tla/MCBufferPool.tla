---------------------------- MODULE MCBufferPool ----------------------------
(* Small instances of BufferPool.  Three pages compete for two frames and  *)
(* two clients can pin both of them, so that every victim choice, the      *)
(* all-pinned failure and a page shared by two clients occur.              *)
EXTENDS BufferPool
=============================================================================
