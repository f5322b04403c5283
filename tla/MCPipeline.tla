----------------------------- MODULE MCPipeline -----------------------------
(* A small instance of Pipeline for TLC. *)
EXTENDS Pipeline, TLC

CONSTANTS s1, s2, p1, p2

\* Every session claims p1, so sessions share what p1 sends; nobody claims p2.
MCPeerLists == {<<p1>>}

\* Sessions are interchangeable: only safety is checked here.
MCSymmetry == Permutations({s1, s2})

\* What tells states apart.  No guard and no property of the run pipeline looks at
\* who was lost or refused, at the order of the rows, at the end time of a session
\* that is gone, or at the kind of an export that is at its last item.
MCView ==
    <<status, [s \in Sessions |-> IF status[s] = "completed" THEN endedAt[s] ELSE 0],
      claims, routes, task, purge, now,
      channel, batch, flusher, process, Range(stored), disturbed,
      [e \in Exports |-> IF export[e].step = "sending" /\ export[e].item = Items
                         THEN [export[e] EXCEPT !.kind = "any"] ELSE export[e]]>>
=============================================================================
