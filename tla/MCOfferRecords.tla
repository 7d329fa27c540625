--------------------------- MODULE MCOfferRecords ---------------------------
(* Bounds for TLC: the epoch stops at MaxEpoch. *)
EXTENDS OfferRecords, TLC

CONSTANT MaxEpoch

MCNext == Next /\ epoch' <= MaxEpoch

MCSpec == Init /\ [][MCNext]_vars

Symmetry == Permutations(Objects)
=============================================================================
