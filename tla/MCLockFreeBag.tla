--------------------------- MODULE MCLockFreeBag ---------------------------
EXTENDS LockFreeBag, TLC

Symmetry == Permutations(Procs) \cup Permutations(Blocks)
=============================================================================
