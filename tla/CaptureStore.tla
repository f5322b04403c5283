---------------------------- MODULE CaptureStore ----------------------------
(***************************************************************************)
(* What the capture of telemetry promises whoever reads the database:      *)
(* debug sessions with the peers they claim, and rows that each belong to  *)
(* a session and to a peer it claims.                                      *)
(*                                                                         *)
(*   - a session appears with all of its peers at once, is ended once, and *)
(*     goes, with its peers and its rows, only after it was ended;         *)
(*   - rows are added in batches, at the end, and none goes before its     *)
(*     session does.                                                       *)
(***************************************************************************)
EXTENDS Naturals, Sequences, SequencesExt, Subsequences

CONSTANTS
    Sessions,   \* debug sessions
    Peers,      \* peer ids
    Records,    \* rows that telemetry can become
    MaxBatch    \* how many are stored at once

ASSUME RecordsAssumption ==
    \A r \in Records : r.session \in Sessions /\ r.peer \in Peers
ASSUME MaxBatchAssumption == MaxBatch \in Nat \ {0}

VARIABLES
    status,     \* debug_sessions.status, "absent" before and "deleted" after
    claims,     \* debug_session_peers, by session
    rows        \* the telemetry tables, in the order of insertion

store == <<status, claims, rows>>

-----------------------------------------------------------------------------
Init ==
    /\ status = [s \in Sessions |-> "absent"]
    /\ claims = [s \in Sessions |-> {}]
    /\ rows = <<>>

Exists(s) == status[s] \in {"active", "completed"}

\* A row may be inserted: its session is there and claims its peer.
Belongs(r) == Exists(r.session) /\ r.peer \in claims[r.session]

Create(s, P) ==
    /\ status[s] = "absent"
    /\ status' = [status EXCEPT ![s] = "active"]
    /\ claims' = [claims EXCEPT ![s] = P]
    /\ UNCHANGED rows

End(s) ==
    /\ status[s] = "active"
    /\ status' = [status EXCEPT ![s] = "completed"]
    /\ UNCHANGED <<claims, rows>>

\* Sessions go with their peers and rows, all in one statement.
Purge(S) ==
    /\ \A s \in S : status[s] = "completed"
    /\ status' = [s \in Sessions |-> IF s \in S THEN "deleted" ELSE status[s]]
    /\ claims' = [s \in Sessions |-> IF s \in S THEN {} ELSE claims[s]]
    /\ rows' = Only(rows, {r \in Records : r.session \notin S})

\* One transaction of new rows.
Store(batch) ==
    /\ IsInjective(batch)
    /\ \A r \in Range(batch) : Belongs(r) /\ r \notin Range(rows)
    /\ rows' = rows \o batch
    /\ UNCHANGED <<status, claims>>

NextStore ==
    \/ \E s \in Sessions, P \in SUBSET Peers : Create(s, P)
    \/ \E s \in Sessions : End(s)
    \/ \E S \in SUBSET Sessions : Purge(S)
    \/ \E batch \in BoundedSeq(Records, MaxBatch) : Store(batch)

Spec == Init /\ [][NextStore]_store
=============================================================================
