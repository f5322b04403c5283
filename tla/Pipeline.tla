------------------------------ MODULE Pipeline ------------------------------
(***************************************************************************)
(* The capture path as a whole: OTLP exports that ask the router where     *)
(* their telemetry goes and offer it to the write buffer, the buffer's     *)
(* flushes into tables whose rows reference a debug session, and the       *)
(* sessions that operators create and end and the cleanup purges.          *)
(*                                                                         *)
(* DebugSessions and WriteBuffer run side by side in one process; they     *)
(* meet in the router, in the foreign key of a flushed record, in the      *)
(* cascade of a purge, and in a restart.                                   *)
(***************************************************************************)
EXTENDS Integers, Sequences, SequencesExt, Subsequences

CONSTANTS
    Sessions, Peers, PeerLists, Handlers, Retention, MaxTime,
    Disconnects, EarlyEnds, Restarts,        \* as in DebugSessions
    BufferSize, BatchSize, FlushInterval,    \* as in WriteBuffer
    Exports,    \* OTLP export requests
    Items       \* spans, metrics or log records in a request

\* As in DebugSessions and in WriteBuffer.
ASSUME SessionsAssumption ==
    /\ PeerLists \subseteq Seq(Peers)
    /\ Retention \in Nat /\ MaxTime \in Nat
    /\ Disconnects \in BOOLEAN /\ EarlyEnds \in BOOLEAN /\ Restarts \in BOOLEAN
ASSUME BufferAssumption ==
    BufferSize \in Nat \ {0} /\ BatchSize \in Nat \ {0} /\ FlushInterval \in Nat
\* A request without items does nothing.
ASSUME ItemsAssumption == Items \in Nat \ {0}

VARIABLES
    status, endedAt, claims, routes, task, purge, now,
    channel, batch, flusher, process, stored, lost, refused,
    export,     \* where each export request is
    disturbed   \* sessions whose handlers were cut short or overlapped

sessionVars == <<status, endedAt, claims, routes, task, purge, now>>
bufferVars == <<channel, batch, flusher, process, stored, lost, refused>>
vars == <<sessionVars, bufferVars, export, disturbed>>

\* A record of one item of an export, for one of the sessions that claim it.
Records == [export : Exports, item : 1 .. Items, session : Sessions, peer : Peers]

D == INSTANCE DebugSessions
W == INSTANCE WriteBuffer WITH task <- flusher, Crashes <- Restarts

-----------------------------------------------------------------------------
Unused == [step |-> "unused"]
Done == [step |-> "done"]

\* Spans are routed one by one, metrics and logs once per resource.
Kinds == {"trace", "resource"}

Init ==
    /\ D!Init
    /\ W!Init
    /\ export = [e \in Exports |-> Unused]
    /\ disturbed = {}

Exists(s) == status[s] \in {"active", "completed"}

-----------------------------------------------------------------------------
(* TraceReceiver, MetricsReceiver and LogsReceiver *)

\* An export of peer p arrives, on a connection that may outlive the server.
Begin(e, p, kind) ==
    /\ process # "down"
    /\ export[e] = Unused
    /\ export' = [export EXCEPT ![e] =
           [step |-> "routing", kind |-> kind, peer |-> p, item |-> 1]]
    /\ UNCHANGED <<sessionVars, bufferVars, disturbed>>

TraceBegin(e, p) == Begin(e, p, "trace")
ResourceBegin(e, p) == Begin(e, p, "resource")

\* Mutant: the peer's sessions are taken from all of the router.
ExportRoute_AnyPeer(e) ==
    /\ export[e].step = "routing"
    /\ LET decision == UNION {routes[p] : p \in Peers}
       IN  export' = [export EXCEPT ![e] =
               [step |-> "sending", kind |-> @.kind, peer |-> @.peer, item |-> @.item,
                decision |-> decision, todo |-> decision]]
    /\ UNCHANGED <<sessionVars, bufferVars, disturbed>>
\* route() reads the router; what it answered is used after the lock is gone.
ExportRoute(e) ==
    /\ export[e].step = "routing"
    /\ LET decision == D!Route(export[e].peer)
       IN  export' = [export EXCEPT ![e] =
               [step |-> "sending", kind |-> @.kind, peer |-> @.peer, item |-> @.item,
                decision |-> decision, todo |-> decision]]
    /\ UNCHANGED <<sessionVars, bufferVars, disturbed>>

\* One try_send; the sessions of a decision come in no particular order.
ExportSend(e) ==
    /\ export[e].step = "sending"
    /\ \E s \in export[e].todo :
          LET r == [export |-> e, item |-> export[e].item,
                    session |-> s, peer |-> export[e].peer]
          IN  /\ W!Enqueue(r) \/ W!Refuse(r)
              /\ export' = [export EXCEPT ![e].todo = @ \ {s}]
    /\ UNCHANGED <<sessionVars, disturbed>>

\* Mutant: one item too many.
NextSpan_OneMore(e) ==
    /\ export[e].step = "sending" /\ export[e].todo = {}
    /\ export[e].kind = "trace" /\ export[e].item <= Items
    /\ export' = [export EXCEPT ![e] =
           [step |-> "routing", kind |-> @.kind, peer |-> @.peer, item |-> @.item + 1]]
    /\ UNCHANGED <<sessionVars, bufferVars, disturbed>>
\* The next span asks the router again.
NextSpan(e) ==
    /\ export[e].step = "sending" /\ export[e].todo = {}
    /\ export[e].kind = "trace" /\ export[e].item < Items
    /\ export' = [export EXCEPT ![e] =
           [step |-> "routing", kind |-> @.kind, peer |-> @.peer, item |-> @.item + 1]]
    /\ UNCHANGED <<sessionVars, bufferVars, disturbed>>

\* The next metric or log record of a resource reuses the decision.
NextRecord(e) ==
    /\ export[e].step = "sending" /\ export[e].todo = {}
    /\ export[e].kind = "resource" /\ export[e].item < Items
    /\ export' = [export EXCEPT ![e].item = @ + 1, ![e].todo = export[e].decision]
    /\ UNCHANGED <<sessionVars, bufferVars, disturbed>>

\* After the last item the request is answered.
ExportEnd(e) ==
    /\ export[e].step = "sending" /\ export[e].todo = {}
    /\ export[e].item = Items
    /\ export' = [export EXCEPT ![e] = Done]
    /\ UNCHANGED <<sessionVars, bufferVars, disturbed>>

\* The collector goes away while the request waits for the router's lock.
ExportCancelled(e) ==
    /\ Disconnects
    /\ export[e].step = "routing"
    /\ export' = [export EXCEPT ![e] = Done]
    /\ UNCHANGED <<sessionVars, bufferVars, disturbed>>

ExportStep(e) ==
    \/ ExportRoute(e)
    \/ ExportSend(e)
    \/ NextSpan(e)
    \/ NextRecord(e)
    \/ ExportEnd(e)

-----------------------------------------------------------------------------
(* Debug sessions.  A closing pool hands out no more connections: a request    *)
(* that begins then changes nothing and is not a step, while an UPDATE or a    *)
(* DELETE that was under way still ends one way or the other.                  *)

SessionsUnchangedElse == UNCHANGED <<bufferVars, export, disturbed>>

Create(h) ==
    /\ process = "up"
    /\ \E s \in Sessions : \E list \in PeerLists : D!CreateCommit(h, s, list)
    /\ SessionsUnchangedElse

RouterUpdate(h) ==
    /\ D!CreateRoute(h) \/ D!EndUnroute(h)
    /\ SessionsUnchangedElse

EndRequest(h) ==
    /\ process = "up"
    /\ \E s \in Sessions :
          /\ D!EndBegin(h, s)
          /\ disturbed' = IF \E g \in Handlers : D!IsRouting(g, s)
                          THEN disturbed \cup {s} ELSE disturbed
    /\ UNCHANGED <<bufferVars, export>>

EndUpdate(h) ==
    /\ D!EndCommit(h) \/ D!EndRefused(h)
    /\ SessionsUnchangedElse

Disconnect(h) ==
    /\ D!Disconnect(h)
    /\ disturbed' = disturbed \cup {task[h].session}
    /\ UNCHANGED <<bufferVars, export>>

CleanupStart ==
    /\ process = "up"
    /\ D!CleanupBegin
    /\ SessionsUnchangedElse

\* Mutant: every completed session loses its rows.
Cleanup_AllCompleted ==
    /\ D!CleanupDelete
    /\ stored' = Only(stored, {r \in Records : status[r.session] # "completed"})
    /\ UNCHANGED <<channel, batch, flusher, process, lost, refused, export, disturbed>>
\* The rows of a purged session go with it (ON DELETE CASCADE).
Cleanup ==
    /\ D!CleanupDelete
    /\ stored' = Only(stored, {r \in Records : ~D!Expired(r.session)})
    /\ UNCHANGED <<channel, batch, flusher, process, lost, refused, export, disturbed>>

CleanupFail ==
    /\ D!CleanupFail
    /\ SessionsUnchangedElse

\* Telemetry may take as long as it likes: the flush interval, the queues and
\* the retention period have nothing to do with each other.
TimePasses ==
    /\ D!TimePasses
    /\ SessionsUnchangedElse

-----------------------------------------------------------------------------
(* The write buffer *)

BufferUnchangedElse == UNCHANGED <<sessionVars, export, disturbed>>

Buffering ==
    /\ W!TaskStart \/ W!Receive \/ W!Tick \/ W!FlushBegin
    /\ BufferUnchangedElse

\* Every record of the batch references a session that exists.
Flushed ==
    /\ \A r \in Range(batch) : Exists(r.session)
    /\ W!FlushCommit
    /\ BufferUnchangedElse

\* The pool is closed, the database is busy, or one record of a session that is
\* gone fails the whole batch.
FlushFailed ==
    /\ W!FlushFail
    /\ BufferUnchangedElse

-----------------------------------------------------------------------------
(* The process *)

\* Ctrl-C: nothing is accepted any more, and the pool begins to close.
Shutdown ==
    /\ Restarts
    /\ W!Shutdown
    /\ UNCHANGED <<sessionVars, export, disturbed>>

\* Router, handlers and requests are memory; sessions and rows are not.
Stop ==
    /\ W!Exit \/ W!Crash
    /\ D!Restart
    /\ export' = [e \in Exports |-> IF export[e] = Unused THEN Unused ELSE Done]
    /\ UNCHANGED disturbed

Start ==
    /\ W!Start
    /\ UNCHANGED <<sessionVars, export, disturbed>>

-----------------------------------------------------------------------------
Next ==
    \/ \E e \in Exports :
          \/ \E p \in Peers : TraceBegin(e, p) \/ ResourceBegin(e, p)
          \/ ExportStep(e)
          \/ ExportCancelled(e)
    \/ \E h \in Handlers :
          \/ Create(h)
          \/ RouterUpdate(h)
          \/ EndRequest(h)
          \/ EndUpdate(h)
          \/ Disconnect(h)
    \/ CleanupStart
    \/ Cleanup
    \/ CleanupFail
    \/ TimePasses
    \/ Buffering
    \/ Flushed
    \/ FlushFailed
    \/ Shutdown
    \/ Stop
    \/ Start

Spec == Init /\ [][Next]_vars

-----------------------------------------------------------------------------
(* What must hold *)

\* Every variable keeps its type.
TypeOK ==
    /\ D!TypeOK
    /\ W!TypeOK
    /\ disturbed \subseteq Sessions
    /\ DOMAIN export = Exports
    /\ \A e \in Exports :
          \/ export[e] \in {Unused, Done}
          \/ export[e] \in [step : {"routing"}, kind : Kinds, peer : Peers, item : 1 .. Items]
          \/ export[e] \in [step : {"sending"}, kind : Kinds, peer : Peers, item : 1 .. Items,
                            decision : SUBSET Sessions, todo : SUBSET Sessions]

\* Whatever handlers, exports, flushes, failures and crashes do in between, a
\* reader of the database sees what CaptureStore promises: sessions with all
\* their peers, and rows that come in batches, each of a claimed peer of a
\* session that is there, and that stay until their session is purged.
C == INSTANCE CaptureStore WITH rows <- stored, MaxBatch <- BatchSize
IsCapture == C!Spec

\* Exports that hold a decision of the router for session s.
Expecting(s) == {e \in Exports : export[e].step = "sending" /\ s \in export[e].decision}

\* An ended session takes no more telemetry, before and after its purge: once the
\* handler that ended it is through, no export is newly routed to it, so what a
\* flush can still meet of a purged session was decided before its end.  Sessions
\* with a handler that was cut short or overlapped another are not promised this.
EndedTakesNoMore ==
    [][\A s \in Sessions \ disturbed :
          status[s] \in {"completed", "deleted"} /\ ~(\E h \in Handlers : D!IsUnrouting(h, s))
             => Expecting(s)' \subseteq Expecting(s)]_vars
=============================================================================
