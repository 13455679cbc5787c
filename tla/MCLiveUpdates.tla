--------------------------- MODULE MCLiveUpdates ---------------------------
(* Instances of LiveUpdates for TLC.                                       *)
EXTENDS LiveUpdates, TLC

Symmetry == Permutations(Pages) \cup Permutations(Sockets)
=============================================================================
