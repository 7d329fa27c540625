-------------------------- MODULE MCPerThreadPool --------------------------
EXTENDS PerThreadPool

Symmetry == Permutations(Objects)
=============================================================================
