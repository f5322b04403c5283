----------------------------- MODULE MCIndexer -----------------------------
(* A small instance of Indexer for TLC. *)
EXTENDS Indexer, TLC

CONSTANTS k1, k2, p1, p2, c1

\* Both keys are watched; the channel ends at the first and at a node outside.
MCAccountOf == (k1 :> p1) @@ (k2 :> p2)
MCEndsOf == c1 :> {k1}
MCWatched == <<k1, k2>>
=============================================================================
