--------------------------- MODULE TelemetryStore ---------------------------
(***************************************************************************)
(* What the write buffer promises the OTLP receivers, without saying how:  *)
(* best-effort, ordered, all-or-nothing storage.                           *)
(*                                                                         *)
(*   - a record is refused only when the buffer is at its capacity;        *)
(*   - accepted records leave in the order they were accepted, at most a   *)
(*     batch at a time, each exactly once: a batch is stored or lost whole;*)
(*   - everything not yet settled is lost when the process goes.           *)
(***************************************************************************)
EXTENDS Naturals, Sequences, Functions

CONSTANTS
    Records,    \* telemetry records
    Capacity,   \* how many accepted records may be unsettled
    Pressure,   \* how many must be unsettled before one may be refused
    MaxBatch    \* how many are settled at once

VARIABLES
    pending,    \* accepted and not settled, oldest first
    stored,     \* rows, in the order they were inserted
    lost,       \* accepted, then lost
    refused     \* never accepted

vars == <<pending, stored, lost, refused>>

TypeOK ==
    /\ pending \in Seq(Records)
    /\ stored \in Seq(Records)
    /\ lost \subseteq Records
    /\ refused \subseteq Records

Known(r) == r \in Range(pending) \cup Range(stored) \cup lost \cup refused

Init ==
    /\ pending = <<>>
    /\ stored = <<>>
    /\ lost = {}
    /\ refused = {}

Accept(r) ==
    /\ ~Known(r)
    /\ Len(pending) < Capacity
    /\ pending' = Append(pending, r)
    /\ UNCHANGED <<stored, lost, refused>>

Refuse(r) ==
    /\ ~Known(r)
    /\ Len(pending) >= Pressure
    /\ refused' = refused \cup {r}
    /\ UNCHANGED <<pending, stored, lost>>

\* The oldest n records are stored together.
Store(n) ==
    /\ n \in 1 .. MaxBatch
    /\ n <= Len(pending)
    /\ stored' = stored \o SubSeq(pending, 1, n)
    /\ pending' = SubSeq(pending, n + 1, Len(pending))
    /\ UNCHANGED <<lost, refused>>

\* The oldest n records are lost together.
Lose(n) ==
    /\ n \in 1 .. MaxBatch
    /\ n <= Len(pending)
    /\ lost' = lost \cup Range(SubSeq(pending, 1, n))
    /\ pending' = SubSeq(pending, n + 1, Len(pending))
    /\ UNCHANGED <<stored, refused>>

\* The process stops, or its flush task does.
LoseAll ==
    /\ lost' = lost \cup Range(pending)
    /\ pending' = <<>>
    /\ UNCHANGED <<stored, refused>>

Next ==
    \/ \E r \in Records : Accept(r) \/ Refuse(r)
    \/ \E n \in 1 .. MaxBatch : Store(n) \/ Lose(n)
    \/ LoseAll

Spec == Init /\ [][Next]_vars
=============================================================================
