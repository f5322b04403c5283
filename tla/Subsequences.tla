---------------------------- MODULE Subsequences ----------------------------
(***************************************************************************)
(* What a WHERE clause leaves of a table.                                  *)
(*                                                                         *)
(* Only(seq, S) is SelectSeq with a set for the test.  It is defined by    *)
(* counting instead of by recursion, so that its properties can be proved  *)
(* without induction (SessionViewsProofs).                                 *)
(***************************************************************************)
EXTENDS Naturals, Sequences, FiniteSets

\* The positions at which a sequence has an element of S.
Places(seq, S) == {i \in DOMAIN seq : seq[i] \in S}

\* How many of the positions K are no later than i.
Rank(K, i) == Cardinality({k \in K : k <= i})

\* The elements of seq that are in S, in the order they have in seq.
Only(seq, S) ==
    LET K == Places(seq, S)
    IN  [n \in 1 .. Cardinality(K) |-> seq[CHOOSE i \in K : Rank(K, i) = n]]
=============================================================================
