--------------------------- MODULE MCLiveUpdates ---------------------------
(* A small instance of LiveUpdates for TLC. *)
EXTENDS LiveUpdates

CONSTANTS p1, p2, e1, e2

\* Peers and exports are interchangeable: only safety is checked here.
MCSymmetry == Permutations({p1, p2}) \cup Permutations({e1, e2})
=============================================================================
