---------------------------- MODULE MCDaryHeap ----------------------------
EXTENDS DaryHeap, TLC

Symmetry == Permutations(Offers)
=============================================================================
