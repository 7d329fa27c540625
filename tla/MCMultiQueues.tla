--------------------------- MODULE MCMultiQueues ---------------------------
(***************************************************************************)
(* MultiQueues for TLC.  Threads and queue indices are interchangeable;    *)
(* addresses are not: deleteMin compares them.                             *)
(***************************************************************************)
EXTENDS MultiQueues, TLC

Symmetry == Permutations(Threads) \cup Permutations(Queues)
=============================================================================
