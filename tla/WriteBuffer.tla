---------------------------- MODULE WriteBuffer ----------------------------
(***************************************************************************)
(* The batched write buffer: a bounded channel that the OTLP receivers     *)
(* fill without waiting, and one task that moves its records into a batch  *)
(* and the batch into SQLite.  While a batch is being written the task     *)
(* receives nothing and the channel keeps filling.                         *)
(***************************************************************************)
EXTENDS Naturals, Sequences, Functions

CONSTANTS
    Records,        \* telemetry records, each offered once
    BufferSize,     \* write_buffer_size, the capacity of the channel
    BatchSize,      \* batch_size, at which the task flushes
    FlushInterval,  \* write_buffer_flush_interval, in seconds
    Crashes         \* may the process be killed?

\* mpsc::channel panics at start-up on a capacity of zero.
ASSUME BufferAssumption == BufferSize \in Nat \ {0} /\ BatchSize \in Nat \ {0}
ASSUME IntervalAssumption == FlushInterval \in Nat /\ Crashes \in BOOLEAN

VARIABLES
    channel,   \* the mpsc channel
    batch,     \* the batch of flush_loop
    task,      \* where the flush task is
    process,   \* "up", "closing" once the servers stopped, "down"
    stored,    \* telemetry rows, in insertion order
    lost,      \* accepted records that will never be rows
    refused    \* records try_send turned away

vars == <<channel, batch, task, process, stored, lost, refused>>

-----------------------------------------------------------------------------
\* Accepted records: not settled yet, and every one that is not lost.
Pending == batch \o channel
Kept == stored \o Pending

\* A record that no exporter has offered yet.
Fresh(r) == r \notin Range(Kept) \cup lost \cup refused

Init ==
    /\ channel = <<>>
    /\ batch = <<>>
    /\ task = "starting"
    /\ process = "up"
    /\ stored = <<>>
    /\ lost = {}
    /\ refused = {}

\* Mutant: the capacity test is off by one.
Enqueue_OneMore(r) ==
    /\ process # "down"
    /\ task # "dead"
    /\ Len(channel) <= BufferSize
    /\ channel' = Append(channel, r)
    /\ UNCHANGED <<batch, task, process, stored, lost, refused>>
\* try_send: the channel has room, or is full, or its receiver is gone.
Enqueue(r) ==
    /\ process # "down"
    /\ task # "dead"
    /\ Len(channel) < BufferSize
    /\ channel' = Append(channel, r)
    /\ UNCHANGED <<batch, task, process, stored, lost, refused>>

Refuse(r) ==
    /\ process # "down"
    /\ task = "dead" \/ Len(channel) >= BufferSize
    /\ refused' = refused \cup {r}
    /\ UNCHANGED <<channel, batch, task, process, stored, lost>>

-----------------------------------------------------------------------------
(* flush_loop *)

\* The first poll of the task builds its timer.  tokio::time::interval panics
\* on a zero period: the task dies and drops the receiver and what it held.
TaskStart ==
    /\ task = "starting"
    /\ process # "down"
    /\ IF FlushInterval > 0
         THEN /\ task' = "waiting"
              /\ UNCHANGED <<channel, lost>>
         ELSE /\ task' = "dead"
              /\ channel' = <<>>
              /\ lost' = lost \cup Range(channel)
    /\ UNCHANGED <<batch, process, stored, refused>>

\* Mutant: batch.len() > batch_size.
Receive_Overfills ==
    /\ task = "waiting"
    /\ process # "down"
    /\ channel # <<>>
    /\ batch' = Append(batch, Head(channel))
    /\ channel' = Tail(channel)
    /\ task' = IF Len(batch') > BatchSize THEN "beginning" ELSE "waiting"
    /\ UNCHANGED <<process, stored, lost, refused>>
\* rx.recv() is ready; a full batch is flushed at once.
Receive ==
    /\ task = "waiting"
    /\ process # "down"
    /\ channel # <<>>
    /\ batch' = Append(batch, Head(channel))
    /\ channel' = Tail(channel)
    /\ task' = IF Len(batch') >= BatchSize THEN "beginning" ELSE "waiting"
    /\ UNCHANGED <<process, stored, lost, refused>>

\* Mutant: the timer branch leaves the task where no branch takes it up.
Tick_Stuck ==
    /\ task = "waiting"
    /\ process # "down"
    /\ batch # <<>>
    /\ task' = "flushing"
    /\ UNCHANGED <<channel, batch, process, stored, lost, refused>>
\* Mutant: the timer branch forgets to flush.
Tick_NoFlush ==
    /\ task = "waiting"
    /\ process # "down"
    /\ batch # <<>>
    /\ UNCHANGED vars
\* The interval fires; with an empty batch it does nothing.
Tick ==
    /\ task = "waiting"
    /\ process # "down"
    /\ batch # <<>>
    /\ task' = "beginning"
    /\ UNCHANGED <<channel, batch, process, stored, lost, refused>>

-----------------------------------------------------------------------------
(* flush_batch and write_batch_to_db *)

\* pool.begin() hands out a connection, which a closed pool no longer does.
FlushBegin ==
    /\ task = "beginning"
    /\ process = "up"
    /\ task' = "writing"
    /\ UNCHANGED <<channel, batch, process, stored, lost, refused>>

\* Mutant: the batch is cleared only when the flush failed.
FlushCommit_KeepsBatch ==
    /\ task = "writing"
    /\ process # "down"
    /\ stored' = stored \o batch
    /\ task' = "waiting"
    /\ UNCHANGED <<channel, batch, process, lost, refused>>
\* Every INSERT succeeded and the transaction committed.
FlushCommit ==
    /\ task = "writing"
    /\ process # "down"
    /\ stored' = stored \o batch
    /\ batch' = <<>>
    /\ task' = "waiting"
    /\ UNCHANGED <<channel, process, lost, refused>>

\* The pool, an INSERT or the COMMIT failed: nothing is written, the error is
\* logged, and the batch is cleared all the same.
FlushFail ==
    /\ task \in {"beginning", "writing"}
    /\ process # "down"
    /\ lost' = lost \cup Range(batch)
    /\ batch' = <<>>
    /\ task' = "waiting"
    /\ UNCHANGED <<channel, process, stored, refused>>

-----------------------------------------------------------------------------
(* main *)

\* Ctrl-C: both servers are dropped and pool.close() begins.  Connections that
\* were accepted run on in tasks of their own, so records still come in.
Shutdown ==
    /\ process = "up"
    /\ process' = "closing"
    /\ UNCHANGED <<channel, batch, task, stored, lost, refused>>

\* The process is gone with all it held in memory.  Nothing drains the channel
\* or the batch.
Gone ==
    /\ process' = "down"
    /\ task' = "starting"
    /\ channel' = <<>>
    /\ batch' = <<>>
    /\ lost' = lost \cup Range(channel) \cup Range(batch)
    /\ UNCHANGED <<stored, refused>>

\* pool.close() returns when every connection is back: a transaction that got
\* its connection in time is finished first.
Exit ==
    /\ process = "closing"
    /\ task # "writing"
    /\ Gone

Crash ==
    /\ Crashes
    /\ process # "down"
    /\ Gone

Start ==
    /\ process = "down"
    /\ process' = "up"
    /\ UNCHANGED <<channel, batch, task, stored, lost, refused>>

-----------------------------------------------------------------------------
Flush == FlushBegin \/ FlushCommit \/ FlushFail

Next ==
    \/ \E r \in Records : Fresh(r) /\ (Enqueue(r) \/ Refuse(r))
    \/ TaskStart
    \/ Receive
    \/ Tick
    \/ Flush
    \/ Shutdown
    \/ Exit
    \/ Crash
    \/ Start

Spec == Init /\ [][Next]_vars

\* The flush task is polled when it can go on.  select! picks among its ready
\* branches at random, so neither the channel nor the timer is starved, and
\* SQLite answers or times out (busy_timeout, acquire_timeout).
Fairness ==
    /\ WF_vars(TaskStart)
    /\ WF_vars(Receive)
    /\ WF_vars(Tick)
    /\ WF_vars(Flush)

FairSpec == Spec /\ Fairness

-----------------------------------------------------------------------------
(* What must hold *)

\* Every variable keeps its type.
TypeOK ==
    /\ channel \in Seq(Records)
    /\ batch \in Seq(Records)
    /\ task \in {"starting", "waiting", "beginning", "writing", "dead"}
    /\ process \in {"up", "closing", "down"}
    /\ stored \in Seq(Records)
    /\ lost \subseteq Records
    /\ refused \subseteq Records

\* Memory is bounded: the channel never exceeds its capacity, the batch never
\* exceeds the batch size, and a batch that reached it is on its way to SQLite.
BufferBounded ==
    /\ Len(channel) <= BufferSize
    /\ Len(batch) <= BatchSize
    /\ Len(batch) = BatchSize => task \in {"beginning", "writing"}
    /\ task \in {"beginning", "writing"} => batch # <<>>

\* A record is in one place and there once: a retry, a failed flush or a
\* shutdown never writes it twice, nor counts a row as lost.
EachRecordOnce ==
    /\ IsInjective(Kept)
    /\ lost \cap Range(Kept) = {}
    /\ refused \cap (Range(Kept) \cup lost) = {}

\* The buffer implements best-effort ordered storage: a live flush task refuses
\* a record only when write_buffer_size records are waiting.
Store == INSTANCE TelemetryStore
    WITH pending <- Pending,
         Capacity <- BufferSize + BatchSize,
         Pressure <- IF FlushInterval > 0 THEN BufferSize ELSE 0,
         MaxBatch <- BatchSize
IsBestEffortStore == Store!Spec

\* Whatever the channel accepted is eventually a row or lost, without waiting
\* for more records to fill the batch.
AcceptedIsSettled ==
    \A r \in Records : r \in Range(Pending) ~> r \in Range(stored) \cup lost

\* As try_send is documented: it returns false if the buffer is full.
RefusedOnlyWhenFull ==
    [][refused' # refused => Len(channel) = BufferSize]_vars
=============================================================================
