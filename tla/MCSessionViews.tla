--------------------------- MODULE MCSessionViews ---------------------------
(* A small instance of SessionViews for TLC. *)
EXTENDS SessionViews, TLC

CONSTANTS s1, s2, p1, p2, i1, i2, i3, i4, i5

\* More spans of a session than fit on two pages, enough that rows can be added
\* between two pages and push others back, and a row of another session.
Row(id, s, p, kind) == [id |-> id, session |-> s, peer |-> p, kind |-> kind]
MCRecords ==
    {Row(i1, s1, p1, "span"), Row(i2, s1, p1, "span"), Row(i3, s1, p2, "span"),
     Row(i4, s1, p2, "span"), Row(i5, s2, p2, "log")}

\* Rows that differ in nothing but their id are interchangeable.
MCSymmetry == Permutations({i1, i2}) \cup Permutations({i3, i4})
=============================================================================
