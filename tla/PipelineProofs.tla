--------------------------- MODULE PipelineProofs ---------------------------
(***************************************************************************)
(* Proofs about the capture path as a whole, for any number of exports,    *)
(* handlers, sessions and records, and any order of their steps.           *)
(*                                                                         *)
(* What DebugSessionsProofs and WriteBufferProofs prove of a step of the   *)
(* sessions or of the buffer is used here as it stands: a step of Pipeline *)
(* is such a step, except that a purge also takes rows away.  And what     *)
(* SessionViewsProofs proves of the readers of a CaptureStore holds of the *)
(* readers of this database, which is one.                                 *)
(***************************************************************************)
EXTENDS Pipeline, FiniteSetTheorems, SequenceTheorems, TLAPS

CONSTANTS
    Readers, Limit, MaxPages    \* as in SessionViews
VARIABLE
    view                        \* as in SessionViews

DP == INSTANCE DebugSessionsProofs
WP == INSTANCE WriteBufferProofs WITH task <- flusher, Crashes <- Restarts
VP == INSTANCE SessionViewsProofs WITH rows <- stored, MaxBatch <- BatchSize
\* What it proves of Only alone, where there is no reader.
Rows == INSTANCE SessionViewsProofs WITH rows <- stored, MaxBatch <- BatchSize,
                                         Readers <- {}, view <- <<>>, Limit <- 1, MaxPages <- 0

-----------------------------------------------------------------------------
(* Rows *)

\* Rows are those of a CaptureStore.
LEMMA RowsOfStore ==
    /\ \A r \in Records : r.session \in Sessions /\ r.peer \in Peers
    /\ BatchSize \in Nat \ {0}
  BY BufferAssumption DEF Records

\* The operators of its modules are those of this one.
LEMMA SameOperators ==
    /\ \A q : Rows!Range(q) = Range(q) /\ (Rows!IsInjective(q) <=> IsInjective(q))
    /\ \A q, T : Rows!Only(q, T) = Only(q, T)
  BY DEF Rows!Range, Range, Rows!IsInjective, IsInjective, Rows!Only, Only, Rows!Places, Places,
     Rows!Rank, Rank, Rows!Cardinality, Cardinality

\* What is left of a sequence when only the elements of a set stay.
LEMMA OnlyIs ==
    ASSUME NEW R, NEW seq \in Seq(R), NEW S
    PROVE  /\ Only(seq, S) \in Seq(R)
           /\ Range(Only(seq, S)) = Range(seq) \cap S
           /\ IsInjective(seq) => IsInjective(Only(seq, S))
<1>1. Rows!Only(seq, S) \in Seq(R)
  BY RowsOfStore, Rows!OnlyType
<1>2. Rows!Range(Rows!Only(seq, S)) = Rows!Range(seq) \cap S
  BY RowsOfStore, Rows!OnlyRange
<1>3. ASSUME IsInjective(seq) PROVE Rows!IsInjective(Rows!Only(seq, S))
  <2>1. Rows!IsInjective(seq)
    BY <1>3, SameOperators
  <2> QED
    BY <2>1, RowsOfStore, Rows!OnlyInjective
<1> QED
  BY <1>1, <1>2, <1>3, SameOperators

\* Appending an element adds it to the elements.
LEMMA RangeOfAppend ==
    ASSUME NEW R, NEW seq \in Seq(R), NEW e \in R
    PROVE  Range(Append(seq, e)) = Range(seq) \cup {e}
<1>1. Rows!Range(Append(seq, e)) = Rows!Range(seq) \cup {e}
  BY RowsOfStore, Rows!RangeOfAppend
<1> QED
  BY <1>1, SameOperators

\* A concatenation repeats nothing exactly if its parts repeat and share nothing.
LEMMA ConcatOnce ==
    ASSUME NEW R, NEW u \in Seq(R), NEW v \in Seq(R)
    PROVE  IsInjective(u \o v) <=>
             IsInjective(u) /\ IsInjective(v) /\ \A x \in Range(v) : x \notin Range(u)
<1>1. ASSUME IsInjective(u), IsInjective(v), \A x \in Range(v) : x \notin Range(u)
      PROVE  IsInjective(u \o v)
  <2>1. Rows!IsInjective(u) /\ Rows!IsInjective(v)
        /\ \A x \in Rows!Range(v) : x \notin Rows!Range(u)
    BY <1>1, SameOperators
  <2>2. Rows!IsInjective(u \o v)
    BY <2>1, RowsOfStore, Rows!ConcatInjective
  <2> QED
    BY <2>2, SameOperators
<1>2. ASSUME IsInjective(u \o v)
      PROVE  IsInjective(u) /\ IsInjective(v) /\ \A x \in Range(v) : x \notin Range(u)
  <2>1. Rows!IsInjective(u \o v)
    BY <1>2, SameOperators
  <2>2. Rows!IsInjective(u) /\ Rows!IsInjective(v)
        /\ \A x \in Rows!Range(v) : x \notin Rows!Range(u)
    BY <2>1, RowsOfStore, Rows!SplitInjective
  <2> QED
    BY <2>2, SameOperators
<1> QED
  BY <1>1, <1>2

-----------------------------------------------------------------------------
(* The invariant *)

\* Records that some export has offered to the buffer and that left a trace.
Offered == Range(stored) \cup Range(batch) \cup Range(channel) \cup lost \cup refused

\* Session s was committed, and claims peer p as long as its row is there.
ClaimedOnce(s, p) == status[s] # "absent" /\ (status[s] # "deleted" => p \in claims[s])

\* Record r of an export was offered before the export got to x.
Before(r, x) ==
    /\ x # Unused
    /\ x.step = "routing" => r.item < x.item
    /\ x.step = "sending" =>
          r.item < x.item \/ (r.item = x.item /\ r.session \notin x.todo)

\* An export still offers each of its records for the first time.
OfferedOnce ==
    \A e \in Exports : \A r \in Records :
        r.export = e /\ r \in Offered => Before(r, export[e])

\* What is on its way is for sessions that claim its peer, or did until a purge.
OnItsWay ==
    /\ \A r \in Range(batch) \cup Range(channel) : ClaimedOnce(r.session, r.peer)
    /\ \A e \in Exports : export[e].step = "sending" =>
          /\ export[e].todo \subseteq export[e].decision
          /\ \A s \in export[e].decision : ClaimedOnce(s, export[e].peer)

\* The handlers of session s run through, one after the other: it is routed while
\* it is active, and after its end only until the handler that ended it is through.
Reverts(s) ==
    /\ \A h \in Handlers : DP!IsRouting(h, s) =>
          status[s] = "active" /\ \A g \in Handlers : ~DP!IsEnding(g, s)
    /\ DP!IsRouted(s) /\ status[s] \in {"completed", "deleted"} =>
          \E h \in Handlers : DP!IsUnrouting(h, s)

EndedRevert == \A s \in Sessions \ disturbed : Reverts(s)

PipelineInv ==
    /\ TypeOK
    /\ DP!RouterInv
    /\ WP!BoundInv
    /\ WP!EachRecordOnce
    /\ OfferedOnce
    /\ OnItsWay
    /\ EndedRevert

-----------------------------------------------------------------------------
(* Steps of the sessions and of the buffer *)

\* The sessions and the buffer are typed as in their own modules.
LEMMA Types ==
    TypeOK <=> /\ DP!TypeOK
               /\ WP!TypeOK
               /\ disturbed \subseteq Sessions
               /\ DOMAIN export = Exports
               /\ \A e \in Exports :
                     \/ export[e] \in {Unused, Done}
                     \/ export[e] \in [step : {"routing"}, kind : Kinds, peer : Peers,
                                       item : 1 .. Items]
                     \/ export[e] \in [step : {"sending"}, kind : Kinds, peer : Peers,
                                       item : 1 .. Items, decision : SUBSET Sessions,
                                       todo : SUBSET Sessions]
<1>1. D!TypeOK <=> DP!TypeOK
  BY DEF D!TypeOK, DP!TypeOK, D!Statuses, DP!Statuses, D!Tasks, DP!Tasks, D!Idle, DP!Idle
<1>2. W!TypeOK <=> WP!TypeOK
  BY DEF W!TypeOK, WP!TypeOK
<1> QED
  BY <1>1, <1>2 DEF TypeOK

\* A step of a handler, of the cleanup or of the clock, which leaves all telemetry
\* where it is but for the rows of a purge.
SessionsMove ==
    /\ \/ \E h \in Handlers : \E s \in Sessions : \E list \in PeerLists :
             DP!CreateCommit(h, s, list) /\ UNCHANGED disturbed
       \/ \E h \in Handlers : DP!HandlerStep(h) /\ UNCHANGED disturbed
       \/ \E h \in Handlers : \E s \in Sessions :
             /\ DP!EndBegin(h, s)
             /\ disturbed' = IF \E g \in Handlers : DP!IsRouting(g, s)
                             THEN disturbed \cup {s} ELSE disturbed
       \/ \E h \in Handlers :
             DP!Disconnect(h) /\ disturbed' = disturbed \cup {task[h].session}
       \/ DP!CleanupBegin /\ UNCHANGED disturbed
       \/ DP!CleanupDelete /\ Cleanup
       \/ DP!CleanupFail /\ UNCHANGED disturbed
       \/ DP!TimePasses /\ TimePasses
    /\ UNCHANGED <<channel, batch, export>>

\* Every step moves a session, leaves all sessions alone, or restarts the process.
LEMMA SessionSteps ==
    ASSUME [Next]_vars
    PROVE  \/ SessionsMove
           \/ UNCHANGED <<sessionVars, disturbed>>
           \/ DP!Restart /\ Stop
<1> USE DEF SessionsMove, DP!HandlerStep
<1>1. ASSUME NEW h \in Handlers, Create(h)
      PROVE  SessionsMove
  BY <1>1 DEF Create, D!CreateCommit, DP!CreateCommit, D!Idle, DP!Idle, D!Routing, DP!Routing,
     D!IsInjective, DP!IsInjective, D!Range, DP!Range, SessionsUnchangedElse, bufferVars
<1>2. ASSUME NEW h \in Handlers, RouterUpdate(h)
      PROVE  SessionsMove
  BY <1>2 DEF RouterUpdate, D!CreateRoute, DP!CreateRoute, D!AddSession, DP!AddSession,
     D!EndUnroute, DP!EndUnroute, D!RemoveSession, DP!RemoveSession, D!Idle, DP!Idle,
     D!db, DP!db, SessionsUnchangedElse, bufferVars
<1>3. ASSUME NEW h \in Handlers, EndRequest(h)
      PROVE  SessionsMove
  BY <1>3 DEF EndRequest, D!EndBegin, DP!EndBegin, D!Idle, DP!Idle, D!Ending, DP!Ending,
     D!IsRouting, DP!IsRouting, D!db, DP!db, bufferVars
<1>4. ASSUME NEW h \in Handlers, EndUpdate(h)
      PROVE  SessionsMove
  BY <1>4 DEF EndUpdate, D!EndCommit, DP!EndCommit, D!EndRefused, DP!EndRefused, D!Idle, DP!Idle,
     D!Unrouting, DP!Unrouting, D!db, DP!db, SessionsUnchangedElse, bufferVars
<1>5. ASSUME NEW h \in Handlers, Disconnect(h)
      PROVE  SessionsMove
  BY <1>5 DEF Disconnect, D!Disconnect, DP!Disconnect, D!Idle, DP!Idle, D!db, DP!db, bufferVars
<1>6. CASE CleanupStart \/ CleanupFail
  BY <1>6 DEF CleanupStart, CleanupFail, D!CleanupBegin, DP!CleanupBegin, D!CleanupFail,
     DP!CleanupFail, D!Idle, DP!Idle, D!Deleting, DP!Deleting, D!db, DP!db,
     SessionsUnchangedElse, bufferVars
<1>7. CASE Cleanup
  <2>1. DP!CleanupDelete
    BY <1>7 DEF Cleanup, D!CleanupDelete, DP!CleanupDelete, D!Expired, DP!Expired, D!Idle, DP!Idle
  <2>2. UNCHANGED <<channel, batch, export>>
    BY <1>7 DEF Cleanup
  <2> QED
    BY <1>7, <2>1, <2>2
<1>8. CASE TimePasses
  <2>1. DP!TimePasses
    BY <1>8 DEF TimePasses, D!TimePasses, DP!TimePasses, D!db, DP!db
  <2>2. UNCHANGED <<channel, batch, export>>
    BY <1>8 DEF TimePasses, SessionsUnchangedElse, bufferVars
  <2> QED
    BY <1>8, <2>1, <2>2
<1>9. CASE Stop
  <2>1. DP!Restart
    BY <1>9 DEF Stop, D!Restart, DP!Restart, D!Idle, DP!Idle, D!db, DP!db
  <2> QED
    BY <1>9, <2>1
<1>10. CASE UNCHANGED vars
  BY <1>10 DEF vars
<1>11. ASSUME NEW e \in Exports,
              \/ \E p \in Peers : TraceBegin(e, p) \/ ResourceBegin(e, p)
              \/ ExportStep(e)
              \/ ExportCancelled(e)
       PROVE  UNCHANGED <<sessionVars, disturbed>>
  BY <1>11 DEF TraceBegin, ResourceBegin, Begin, ExportStep, ExportRoute, ExportSend, NextSpan,
     NextRecord, ExportEnd, ExportCancelled
<1>12. CASE Buffering \/ Flushed \/ FlushFailed \/ Shutdown \/ Start
  BY <1>12 DEF Buffering, Flushed, FlushFailed, Shutdown, Start, BufferUnchangedElse
<1> QED
  BY <1>1, <1>2, <1>3, <1>4, <1>5, <1>6, <1>7, <1>8, <1>9, <1>10, <1>11, <1>12 DEF Next

\* Every step of Pipeline is, for the sessions, one of DebugSessions.
LEMMA SessionsStep ==
    ASSUME [Next]_vars
    PROVE  [DP!Next]_DP!vars
<1>1. CASE SessionsMove
  BY <1>1 DEF SessionsMove, DP!Next
<1>2. CASE UNCHANGED sessionVars
  BY <1>2 DEF sessionVars, DP!vars
<1>3. CASE DP!Restart
  BY <1>3 DEF DP!Next
<1> QED
  BY <1>1, <1>2, <1>3, SessionSteps

\* Where the records are.
LEMMA WhereRecordsAre ==
    ASSUME WP!TypeOK
    PROVE  /\ stored \in Seq(Records) /\ batch \in Seq(Records) /\ channel \in Seq(Records)
           /\ Range(stored) \subseteq Records /\ Range(batch) \subseteq Records
           /\ Range(channel) \subseteq Records
           /\ WP!Kept \in Seq(Records)
           /\ Range(WP!Kept) = Range(stored) \cup Range(batch) \cup Range(channel)
           /\ Range(WP!Pending) = Range(batch) \cup Range(channel)
<1>1. stored \in Seq(Records) /\ batch \in Seq(Records) /\ channel \in Seq(Records)
  BY DEF WP!TypeOK
<1>2. Range(stored) \subseteq Records /\ Range(batch) \subseteq Records /\ Range(channel) \subseteq Records
  <2>1. ASSUME NEW q \in Seq(Records) PROVE Range(q) \subseteq Records
    BY RangeOfSeq
  <2> QED
    BY <1>1, <2>1
<1>3. WP!Pending = batch \o channel /\ WP!Kept = stored \o WP!Pending
  BY DEF WP!Pending, WP!Kept
<1>4. WP!Pending \in Seq(Records) /\ Range(WP!Pending) = Range(batch) \cup Range(channel)
  BY <1>1, <1>3, ConcatProperties, RangeConcatenation
<1>5. WP!Kept \in Seq(Records) /\ Range(WP!Kept) = Range(stored) \cup Range(WP!Pending)
  <2> DEFINE p == WP!Pending
  <2>1. p \in Seq(Records) /\ WP!Kept = stored \o p
    BY <1>3, <1>4
  <2> HIDE DEF p
  <2>2. WP!Kept \in Seq(Records) /\ Range(WP!Kept) = Range(stored) \cup Range(p)
    BY <1>1, <2>1, ConcatProperties, RangeConcatenation
  <2> QED
    BY <2>2 DEF p
<1> QED
  BY <1>1, <1>2, <1>4, <1>5

\* What any step of the buffer does to the records but an offer: none is added.
Keeps ==
    /\ Range(batch') \cup Range(channel') \subseteq Range(batch) \cup Range(channel)
    /\ Offered' \subseteq Offered

\* What an offer does: the record is added where it goes.
Offers(r) ==
    /\ r \in Records
    /\ UNCHANGED <<stored, batch>>
    /\ Range(channel') \subseteq Range(channel) \cup {r}
    /\ Offered' \subseteq Offered \cup {r}

\* A purge takes rows away and leaves the buffer alone.
Purges ==
    /\ stored' = Only(stored, {r \in Records : ~D!Expired(r.session)})
    /\ UNCHANGED <<channel, batch, flusher, process, lost, refused>>

\* The fields of an export, from the step it is at.
LEMMA ExportFields ==
    ASSUME TypeOK, NEW e \in Exports
    PROVE  /\ export[e].step = "routing" =>
                export[e] \in [step : {"routing"}, kind : Kinds, peer : Peers, item : 1 .. Items]
           /\ export[e].step = "sending" =>
                export[e] \in [step : {"sending"}, kind : Kinds, peer : Peers, item : 1 .. Items,
                               decision : SUBSET Sessions, todo : SUBSET Sessions]
  BY DEF TypeOK, Unused, Done

\* An offer is of a record that was not offered before.
LEMMA SendStep ==
    ASSUME TypeOK, OfferedOnce, NEW e \in Exports, ExportSend(e)
    PROVE  /\ WP!Next
           /\ export[e].step = "sending"
           /\ \E s \in export[e].todo :
                 /\ Offers([export |-> e, item |-> export[e].item, session |-> s,
                            peer |-> export[e].peer])
                 /\ export' = [export EXCEPT ![e].todo = export[e].todo \ {s}]
<1>1. export[e].step = "sending"
  BY DEF ExportSend
<1>2. PICK s \in export[e].todo :
         LET r == [export |-> e, item |-> export[e].item, session |-> s, peer |-> export[e].peer]
         IN  /\ W!Enqueue(r) \/ W!Refuse(r)
             /\ export' = [export EXCEPT ![e].todo = @ \ {s}]
  BY DEF ExportSend
<1> DEFINE r == [export |-> e, item |-> export[e].item, session |-> s, peer |-> export[e].peer]
<1>3. r \in Records /\ r.export = e /\ r.item = export[e].item /\ r.session = s
  BY <1>1, ExportFields DEF Records
<1>4. W!Enqueue(r) \/ W!Refuse(r)
  BY <1>2
<1> HIDE DEF r
<1>5. r \notin Offered
  <2>1. export[e].item \in Nat
    BY <1>1, ExportFields
  <2> QED
    BY <1>1, <1>3, <2>1 DEF OfferedOnce, Before
<1>6. WP!TypeOK
  BY Types
<1>7. WP!Enqueue(r) \/ WP!Refuse(r)
  BY <1>4 DEF W!Enqueue, WP!Enqueue, W!Refuse, WP!Refuse
<1>8. WP!Fresh(r)
  <2>1. \A f : WP!Range(f) = Range(f)
    BY DEF Range, WP!Range
  <2>2. Range(WP!Kept) = Range(stored) \cup Range(batch) \cup Range(channel)
    BY <1>6, WhereRecordsAre
  <2> QED
    BY <1>5, <2>1, <2>2 DEF WP!Fresh, Offered
<1>9. Offers(r)
  <2>1. CASE WP!Enqueue(r)
    <3>1. channel' = Append(channel, r) /\ UNCHANGED <<stored, batch, lost, refused>>
      BY <2>1 DEF WP!Enqueue
    <3>2. channel \in Seq(Records)
      BY <1>6, WhereRecordsAre
    <3>3. Range(Append(channel, r)) = Range(channel) \cup {r}
      BY <1>3, <3>2, RangeOfAppend
    <3> QED
      BY <1>3, <3>1, <3>3 DEF Offers, Offered
  <2>2. CASE WP!Refuse(r)
    BY <1>3, <2>2 DEF WP!Refuse, Offers, Offered
  <2> QED
    BY <1>7, <2>1, <2>2
<1> QED
  BY <1>1, <1>2, <1>3, <1>7, <1>8, <1>9 DEF WP!Next, r

\* Every step of Pipeline is, for the buffer, one of WriteBuffer, or a purge; and
\* all but an offer leave no record that was not there.
LEMMA BufferStep ==
    ASSUME TypeOK, OfferedOnce, [Next]_vars
    PROVE  /\ [WP!Next]_WP!vars \/ (Cleanup /\ Purges)
           /\ Keeps \/ \E e \in Exports : ExportSend(e)
<1>1. WP!TypeOK
  BY Types
<1>2. CASE UNCHANGED bufferVars
  BY <1>2 DEF bufferVars, WP!vars, Keeps, Offered
<1>3. ASSUME NEW e \in Exports, ExportSend(e)
      PROVE  WP!Next
  BY <1>3, SendStep
<1>4. ASSUME NEW e \in Exports,
             \/ \E p \in Peers : TraceBegin(e, p) \/ ResourceBegin(e, p)
             \/ ExportRoute(e) \/ NextSpan(e) \/ NextRecord(e) \/ ExportEnd(e)
             \/ ExportCancelled(e)
      PROVE  UNCHANGED bufferVars
  BY <1>4 DEF TraceBegin, ResourceBegin, Begin, ExportRoute, NextSpan, NextRecord, ExportEnd,
     ExportCancelled
<1>5. ASSUME NEW h \in Handlers,
             Create(h) \/ RouterUpdate(h) \/ EndRequest(h) \/ EndUpdate(h) \/ Disconnect(h)
      PROVE  UNCHANGED bufferVars
  BY <1>5 DEF Create, RouterUpdate, EndRequest, EndUpdate, Disconnect, SessionsUnchangedElse
<1>6. CASE CleanupStart \/ CleanupFail \/ TimePasses \/ UNCHANGED vars
  BY <1>2, <1>6 DEF CleanupStart, CleanupFail, TimePasses, SessionsUnchangedElse, vars
<1>7. CASE Cleanup
  <2>1. Purges
    BY <1>7 DEF Cleanup, Purges
  <2>2. Range(stored') \subseteq Range(stored)
    BY <1>1, <2>1, OnlyIs, WhereRecordsAre DEF Purges
  <2> QED
    BY <1>7, <2>1, <2>2 DEF Purges, Keeps, Offered
<1>8. CASE Buffering
  <2>1. CASE W!TaskStart
    <3>1. WP!TaskStart
      BY <2>1 DEF W!TaskStart, WP!TaskStart, W!Range, WP!Range
    <3>2. Range(<<>>) = {} /\ WP!Range(channel) = Range(channel)
      BY DEF Range, WP!Range
    <3> QED
      BY <3>1, <3>2 DEF WP!TaskStart, WP!Next, Keeps, Offered
  <2>2. CASE W!Receive
    <3>1. WP!Receive
      BY <2>2 DEF W!Receive, WP!Receive
    <3>2. WP!Pending' = WP!Pending /\ UNCHANGED <<stored, lost, refused>>
      BY <1>1, <3>1, WP!MoveHead, WhereRecordsAre DEF WP!Receive, WP!Pending
    <3>3. WP!TypeOK'
      BY <1>1, <3>1, BufferAssumption, SessionsAssumption, WP!TypeStep DEF WP!Next
    <3>4. Range(batch') \cup Range(channel') = Range(batch) \cup Range(channel)
      <4>1. batch' \in Seq(Records) /\ channel' \in Seq(Records)
        BY <3>3 DEF WP!TypeOK
      <4>2. Range(batch' \o channel') = Range(batch') \cup Range(channel')
        BY <4>1, RangeConcatenation
      <4>3. batch' \o channel' = WP!Pending
        BY <3>2 DEF WP!Pending
      <4> QED
        BY <1>1, <4>2, <4>3, WhereRecordsAre
    <3> QED
      BY <3>1, <3>2, <3>4 DEF WP!Next, Keeps, Offered
  <2>3. CASE W!Tick \/ W!FlushBegin
    BY <2>3 DEF W!Tick, WP!Tick, W!FlushBegin, WP!FlushBegin, WP!Next, WP!Flush, Keeps, Offered
  <2> QED
    BY <1>8, <2>1, <2>2, <2>3 DEF Buffering
<1>9. CASE Flushed
  <2>1. WP!FlushCommit
    BY <1>9 DEF Flushed, W!FlushCommit, WP!FlushCommit
  <2>2. Range(stored') = Range(stored) \cup Range(batch) /\ Range(batch') = {}
    <3>1. Range(<<>>) = {}
      BY DEF Range
    <3> QED
      BY <1>1, <2>1, <3>1, RangeConcatenation, WhereRecordsAre DEF WP!FlushCommit
  <2> QED
    BY <2>1, <2>2 DEF WP!FlushCommit, WP!Next, WP!Flush, Keeps, Offered
<1>10. CASE FlushFailed
  <2>1. WP!FlushFail
    BY <1>10 DEF FlushFailed, W!FlushFail, WP!FlushFail, W!Range, WP!Range
  <2>2. Range(<<>>) = {} /\ WP!Range(batch) = Range(batch)
    BY DEF Range, WP!Range
  <2> QED
    BY <2>1, <2>2 DEF WP!FlushFail, WP!Next, WP!Flush, Keeps, Offered
<1>11. CASE Stop
  <2>1. WP!Exit \/ WP!Crash
    BY <1>11 DEF Stop, W!Exit, WP!Exit, W!Crash, WP!Crash, W!Gone, WP!Gone, W!Range, WP!Range
  <2>2. Range(<<>>) = {} /\ WP!Range(batch) = Range(batch) /\ WP!Range(channel) = Range(channel)
    BY DEF Range, WP!Range
  <2> QED
    BY <2>1, <2>2 DEF WP!Exit, WP!Crash, WP!Gone, WP!Next, Keeps, Offered
<1>12. CASE Shutdown \/ Start
  BY <1>12 DEF Shutdown, W!Shutdown, WP!Shutdown, Start, W!Start, WP!Start, WP!Next, Keeps, Offered
<1> QED
  BY <1>2, <1>3, <1>4, <1>5, <1>6, <1>7, <1>8, <1>9, <1>10, <1>11, <1>12 DEF Next, ExportStep

-----------------------------------------------------------------------------
(* Type correctness *)

\* A purge takes rows away and nothing else: what is left are records, once each.
LEMMA PurgedRows ==
    ASSUME WP!TypeOK, WP!EachRecordOnce, Purges
    PROVE  /\ WP!TypeOK' /\ WP!EachRecordOnce'
           /\ WP!BoundInv => WP!BoundInv'
<1> DEFINE p == WP!Pending
<1>1. /\ stored \in Seq(Records) /\ p \in Seq(Records) /\ WP!Kept = stored \o p
      /\ Range(WP!Kept) = Range(stored) \cup Range(p)
  <2>1. /\ stored \in Seq(Records) /\ batch \in Seq(Records) /\ channel \in Seq(Records)
        /\ Range(WP!Kept) = Range(stored) \cup Range(batch) \cup Range(channel)
        /\ Range(WP!Pending) = Range(batch) \cup Range(channel)
    BY WhereRecordsAre
  <2> QED
    BY <2>1, ConcatProperties DEF WP!Pending, WP!Kept
<1>2. p' = p /\ WP!Kept' = stored' \o p
  BY DEF Purges, WP!Pending, WP!Kept
<1> HIDE DEF p
<1>3. stored' \in Seq(Records) /\ Range(stored') \subseteq Range(stored)
  <2> DEFINE T == {r \in Records : ~D!Expired(r.session)}
  <2>1. stored' = Only(stored, T)
    BY DEF Purges
  <2> HIDE DEF T
  <2>2. Only(stored, T) \in Seq(Records) /\ Range(Only(stored, T)) = Range(stored) \cap T
    BY <1>1, OnlyIs
  <2> QED
    BY <2>1, <2>2
<1>4. \A f : (WP!IsInjective(f) <=> IsInjective(f)) /\ WP!Range(f) = Range(f)
  BY DEF WP!IsInjective, IsInjective, WP!Range, Range
<1>5. IsInjective(stored \o p)
  BY <1>1, <1>4 DEF WP!EachRecordOnce
<1>6. IsInjective(stored) /\ IsInjective(p) /\ \A x \in Range(p) : x \notin Range(stored)
  BY <1>1, <1>5, ConcatOnce
<1>7. IsInjective(stored')
  BY <1>1, <1>6, OnlyIs DEF Purges
<1>8. IsInjective(stored' \o p) /\ Range(stored' \o p) = Range(stored') \cup Range(p)
  BY <1>1, <1>3, <1>6, <1>7, ConcatOnce, RangeConcatenation
<1>9. WP!EachRecordOnce'
  <2>1. lost' = lost /\ refused' = refused
    BY DEF Purges
  <2> QED
    BY <1>1, <1>2, <1>3, <1>4, <1>8, <2>1 DEF WP!EachRecordOnce
<1>10. WP!TypeOK'
  BY <1>3 DEF WP!TypeOK, Purges
<1>11. WP!BoundInv => WP!BoundInv'
  BY DEF WP!BoundInv, WP!BufferBounded, WP!IdleBatchEmpty, Purges
<1> QED
  BY <1>9, <1>10, <1>11

\* The steps of an export, and that any other step leaves all exports alone.
LEMMA ExportSteps ==
    ASSUME [Next]_vars
    PROVE  \/ \E e \in Exports :
                 /\ \/ \E p \in Peers : \E kind \in Kinds : Begin(e, p, kind)
                    \/ ExportRoute(e) \/ ExportSend(e)
                    \/ NextSpan(e) \/ NextRecord(e) \/ ExportEnd(e)
                    \/ ExportCancelled(e)
                 /\ UNCHANGED <<sessionVars, disturbed>>
           \/ Stop
           \/ UNCHANGED export
<1>1. ASSUME NEW e \in Exports,
             \/ \E p \in Peers : TraceBegin(e, p) \/ ResourceBegin(e, p)
             \/ ExportStep(e)
             \/ ExportCancelled(e)
      PROVE  /\ \/ \E p \in Peers : \E kind \in Kinds : Begin(e, p, kind)
                \/ ExportRoute(e) \/ ExportSend(e)
                \/ NextSpan(e) \/ NextRecord(e) \/ ExportEnd(e)
                \/ ExportCancelled(e)
             /\ UNCHANGED <<sessionVars, disturbed>>
  <2>1. ASSUME NEW p \in Peers, TraceBegin(e, p) \/ ResourceBegin(e, p)
        PROVE  \E kind \in Kinds : Begin(e, p, kind)
    BY <2>1 DEF TraceBegin, ResourceBegin, Kinds
  <2>2. ASSUME NEW p, NEW kind, Begin(e, p, kind)
        PROVE  UNCHANGED <<sessionVars, disturbed>>
    BY <2>2 DEF Begin
  <2>3. CASE ExportRoute(e) \/ ExportSend(e) \/ NextSpan(e) \/ NextRecord(e) \/ ExportEnd(e)
             \/ ExportCancelled(e)
    BY <2>3 DEF ExportRoute, ExportSend, NextSpan, NextRecord, ExportEnd, ExportCancelled
  <2> QED
    BY <1>1, <2>1, <2>2, <2>3 DEF ExportStep
<1>2. ASSUME NEW h \in Handlers,
             Create(h) \/ RouterUpdate(h) \/ EndRequest(h) \/ EndUpdate(h) \/ Disconnect(h)
      PROVE  UNCHANGED export
  BY <1>2 DEF Create, RouterUpdate, EndRequest, EndUpdate, Disconnect, SessionsUnchangedElse
<1>3. CASE CleanupStart \/ Cleanup \/ CleanupFail \/ TimePasses \/ UNCHANGED vars
  BY <1>3 DEF CleanupStart, Cleanup, CleanupFail, TimePasses, SessionsUnchangedElse, vars
<1>4. CASE Buffering \/ Flushed \/ FlushFailed \/ Shutdown \/ Start
  BY <1>4 DEF Buffering, Flushed, FlushFailed, Shutdown, Start, BufferUnchangedElse
<1> QED
  BY <1>1, <1>2, <1>3, <1>4 DEF Next

\* Where an export can be.
ExportTyped(x) ==
    \/ x \in {Unused, Done}
    \/ x \in [step : {"routing"}, kind : Kinds, peer : Peers, item : 1 .. Items]
    \/ x \in [step : {"sending"}, kind : Kinds, peer : Peers, item : 1 .. Items,
              decision : SUBSET Sessions, todo : SUBSET Sessions]

\* An export that moves on is where an export can be.
LEMMA ExportsTyped ==
    ASSUME TypeOK, [Next]_vars
    PROVE  DOMAIN export' = Exports /\ \A e \in Exports : ExportTyped(export'[e])
<1>0. DOMAIN export = Exports /\ \A e \in Exports : ExportTyped(export[e])
  BY DEF TypeOK, ExportTyped
<1>a. \A p \in Peers : routes[p] \subseteq Sessions
  BY DEF TypeOK, D!TypeOK
<1>1. ASSUME NEW e \in Exports, NEW p \in Peers, NEW kind \in Kinds, Begin(e, p, kind)
      PROVE  DOMAIN export' = Exports /\ \A f \in Exports : ExportTyped(export'[f])
  <2>1. ExportTyped([step |-> "routing", kind |-> kind, peer |-> p, item |-> 1])
    BY ItemsAssumption DEF ExportTyped
  <2> QED
    BY <1>0, <1>1, <2>1 DEF Begin
<1>2. ASSUME NEW e \in Exports, ExportRoute(e)
      PROVE  DOMAIN export' = Exports /\ \A f \in Exports : ExportTyped(export'[f])
  <2> DEFINE x == export[e]
             d == routes[x.peer]
             y == [step |-> "sending", kind |-> x.kind, peer |-> x.peer, item |-> x.item,
                   decision |-> d, todo |-> d]
  <2>1. x \in [step : {"routing"}, kind : Kinds, peer : Peers, item : 1 .. Items]
    BY <1>2, ExportFields DEF ExportRoute
  <2>2. export' = [export EXCEPT ![e] = y]
    BY <1>2 DEF ExportRoute, D!Route
  <2>3. ExportTyped(y)
    BY <1>a, <2>1 DEF ExportTyped
  <2> HIDE DEF y
  <2> QED
    BY <1>0, <2>2, <2>3
<1>3. ASSUME NEW e \in Exports, ExportSend(e)
      PROVE  DOMAIN export' = Exports /\ \A f \in Exports : ExportTyped(export'[f])
  <2>1. PICK s \in export[e].todo : export' = [export EXCEPT ![e].todo = @ \ {s}]
    BY <1>3 DEF ExportSend
  <2>2. export[e] \in [step : {"sending"}, kind : Kinds, peer : Peers, item : 1 .. Items,
                       decision : SUBSET Sessions, todo : SUBSET Sessions]
    BY <1>3, ExportFields DEF ExportSend
  <2>3. ExportTyped([export[e] EXCEPT !.todo = @ \ {s}])
    BY <2>2 DEF ExportTyped
  <2> QED
    BY <1>0, <2>1, <2>3
<1>4. ASSUME NEW e \in Exports, NextSpan(e)
      PROVE  DOMAIN export' = Exports /\ \A f \in Exports : ExportTyped(export'[f])
  <2> DEFINE x == export[e]
             y == [step |-> "routing", kind |-> x.kind, peer |-> x.peer, item |-> x.item + 1]
  <2>1. x \in [step : {"sending"}, kind : Kinds, peer : Peers, item : 1 .. Items,
               decision : SUBSET Sessions, todo : SUBSET Sessions]
    BY <1>4, ExportFields DEF NextSpan
  <2>2. export' = [export EXCEPT ![e] = y] /\ x.item < Items
    BY <1>4 DEF NextSpan
  <2>3. x.item + 1 \in 1 .. Items
    BY <2>1, <2>2, ItemsAssumption
  <2>4. ExportTyped(y)
    BY <2>1, <2>3 DEF ExportTyped
  <2> HIDE DEF y
  <2> QED
    BY <1>0, <2>2, <2>4
<1>5. ASSUME NEW e \in Exports, NextRecord(e)
      PROVE  DOMAIN export' = Exports /\ \A f \in Exports : ExportTyped(export'[f])
  <2> DEFINE x == export[e]
  <2>1. x \in [step : {"sending"}, kind : Kinds, peer : Peers, item : 1 .. Items,
               decision : SUBSET Sessions, todo : SUBSET Sessions]
    BY <1>5, ExportFields DEF NextRecord
  <2>2. x.item + 1 \in 1 .. Items
    BY <1>5, <2>1, ItemsAssumption DEF NextRecord
  <2>3. ExportTyped([x EXCEPT !.item = @ + 1, !.todo = x.decision])
    BY <2>1, <2>2 DEF ExportTyped
  <2>4. export'[e] = [x EXCEPT !.item = @ + 1, !.todo = x.decision]
    BY <1>0, <1>5 DEF NextRecord
  <2>5. DOMAIN export' = Exports /\ \A f \in Exports : f # e => export'[f] = export[f]
    BY <1>0, <1>5 DEF NextRecord
  <2> QED
    BY <1>0, <2>3, <2>4, <2>5
<1>6. ASSUME NEW e \in Exports, ExportEnd(e) \/ ExportCancelled(e)
      PROVE  DOMAIN export' = Exports /\ \A f \in Exports : ExportTyped(export'[f])
  <2>1. ExportTyped(Done)
    BY DEF ExportTyped
  <2> QED
    BY <1>0, <1>6, <2>1 DEF ExportEnd, ExportCancelled
<1>7. CASE Stop
  BY <1>7 DEF Stop, ExportTyped
<1> QED
  BY <1>0, <1>1, <1>2, <1>3, <1>4, <1>5, <1>6, <1>7, ExportSteps

\* Every step keeps the types.
LEMMA TypeStep ==
    ASSUME TypeOK, WP!EachRecordOnce, OfferedOnce, [Next]_vars
    PROVE  TypeOK'
<1>1. D!TypeOK'
  <2>1. DP!TypeOK'
    BY Types, SessionsStep, SessionsAssumption, DP!TypeStep
  <2> QED
    BY <2>1 DEF D!TypeOK, DP!TypeOK, D!Statuses, DP!Statuses, D!Tasks, DP!Tasks, D!Idle, DP!Idle
<1>2. W!TypeOK'
  <2>1. WP!TypeOK'
    BY Types, BufferStep, BufferAssumption, SessionsAssumption, WP!TypeStep, PurgedRows
  <2> QED
    BY <2>1 DEF W!TypeOK, WP!TypeOK
<1>3. disturbed' \subseteq Sessions
  <2>1. ASSUME NEW h \in Handlers, EndRequest(h)
        PROVE  disturbed' \subseteq Sessions
    BY <2>1 DEF EndRequest, TypeOK
  <2>2. ASSUME NEW h \in Handlers, Disconnect(h)
        PROVE  disturbed' \subseteq Sessions
    <3>1. task[h].session \in Sessions
      BY <2>2 DEF Disconnect, D!Disconnect, TypeOK, D!TypeOK, D!Tasks
    <3> QED
      BY <2>2, <3>1 DEF Disconnect, TypeOK
  <2>3. ASSUME NEW h \in Handlers, Create(h) \/ RouterUpdate(h) \/ EndUpdate(h)
        PROVE  UNCHANGED disturbed
    BY <2>3 DEF Create, RouterUpdate, EndUpdate, SessionsUnchangedElse
  <2>4. ASSUME NEW e \in Exports,
               \/ \E p \in Peers : TraceBegin(e, p) \/ ResourceBegin(e, p)
               \/ ExportStep(e)
               \/ ExportCancelled(e)
        PROVE  UNCHANGED disturbed
    BY <2>4 DEF TraceBegin, ResourceBegin, Begin, ExportStep, ExportRoute, ExportSend, NextSpan,
       NextRecord, ExportEnd, ExportCancelled
  <2>5. CASE CleanupStart \/ Cleanup \/ CleanupFail \/ TimePasses
    BY <2>5 DEF CleanupStart, Cleanup, CleanupFail, TimePasses, SessionsUnchangedElse, TypeOK
  <2>6. CASE Buffering \/ Flushed \/ FlushFailed \/ Shutdown \/ Stop \/ Start
    BY <2>6 DEF Buffering, Flushed, FlushFailed, Shutdown, Stop, Start, BufferUnchangedElse, TypeOK
  <2>7. CASE UNCHANGED vars
    BY <2>7 DEF vars, TypeOK
  <2> QED
    BY <2>1, <2>2, <2>3, <2>4, <2>5, <2>6, <2>7 DEF Next, TypeOK
<1>4. DOMAIN export' = Exports /\ \A e \in Exports : ExportTyped(export'[e])
  BY ExportsTyped
<1> QED
  BY <1>1, <1>2, <1>3, <1>4 DEF TypeOK, ExportTyped

-----------------------------------------------------------------------------
(* Each record is offered once *)

\* What an export offered before, it offered before it moved on.
LEMMA BeforeStep ==
    ASSUME TypeOK, NEW e \in Exports, NEW r \in Records, Before(r, export[e]),
           \/ \E p \in Peers : \E kind \in Kinds : Begin(e, p, kind)
           \/ ExportRoute(e) \/ ExportSend(e)
           \/ NextSpan(e) \/ NextRecord(e) \/ ExportEnd(e)
           \/ ExportCancelled(e)
    PROVE  Before(r, export'[e])
<1> DEFINE x == export[e]
<1>1. /\ DOMAIN export = Exports
      /\ r.item \in Nat
      /\ x.step = "routing" => x.item \in Nat
      /\ x.step = "sending" =>
            x \in [step : {"sending"}, kind : Kinds, peer : Peers, item : 1 .. Items,
                   decision : SUBSET Sessions, todo : SUBSET Sessions]
  BY ExportFields, ItemsAssumption DEF Records, TypeOK
<1>2. ASSUME NEW p, NEW kind, Begin(e, p, kind)
      PROVE  FALSE
  BY <1>2 DEF Begin, Before
<1>3. CASE ExportRoute(e)
  <2>1. export'[e].step = "sending" /\ export'[e].item = x.item /\ x.step = "routing"
    BY <1>1, <1>3 DEF ExportRoute
  <2> QED
    BY <1>1, <2>1 DEF Before, Unused
<1>4. CASE ExportSend(e)
  <2>1. PICK s \in x.todo : export' = [export EXCEPT ![e].todo = @ \ {s}]
    BY <1>4 DEF ExportSend
  <2>2. x.step = "sending"
    BY <1>4 DEF ExportSend
  <2>3. export'[e] = [x EXCEPT !.todo = @ \ {s}]
    BY <1>1, <2>1
  <2>4. /\ export'[e].step = "sending" /\ export'[e].item = x.item
        /\ export'[e].todo = x.todo \ {s}
    BY <1>1, <2>2, <2>3
  <2> QED
    BY <1>1, <2>2, <2>4 DEF Before, Unused
<1>5. CASE NextSpan(e)
  <2>1. export'[e].step = "routing" /\ export'[e].item = x.item + 1 /\ x.step = "sending"
    BY <1>1, <1>5 DEF NextSpan
  <2>2. x.item \in Nat
    BY <1>1, <2>1, ItemsAssumption
  <2> QED
    BY <1>1, <2>1, <2>2 DEF Before, Unused
<1>6. CASE NextRecord(e)
  <2>1. x.step = "sending" /\ export'[e] = [x EXCEPT !.item = @ + 1, !.todo = x.decision]
    BY <1>1, <1>6 DEF NextRecord
  <2>2. export'[e].step = "sending" /\ export'[e].item = x.item + 1 /\ x.item \in Nat
    BY <1>1, <2>1, ItemsAssumption
  <2>3. r.item < x.item \/ r.item = x.item
    BY <2>1 DEF Before
  <2>4. r.item < export'[e].item
    BY <1>1, <2>2, <2>3
  <2> QED
    BY <2>2, <2>4 DEF Before, Unused
<1>7. CASE ExportEnd(e) \/ ExportCancelled(e)
  BY <1>1, <1>7 DEF ExportEnd, ExportCancelled, Before, Unused, Done
<1> QED
  BY <1>2, <1>3, <1>4, <1>5, <1>6, <1>7

\* A step of an export leaves the others where they are.
LEMMA OtherExports ==
    ASSUME NEW e \in Exports, NEW f \in Exports, f # e, DOMAIN export = Exports,
           \/ \E p \in Peers : \E kind \in Kinds : Begin(e, p, kind)
           \/ ExportRoute(e) \/ ExportSend(e)
           \/ NextSpan(e) \/ NextRecord(e) \/ ExportEnd(e)
           \/ ExportCancelled(e)
    PROVE  export'[f] = export[f]
<1>1. CASE ExportSend(e)
  <2>1. PICK s \in export[e].todo : export' = [export EXCEPT ![e].todo = @ \ {s}]
    BY <1>1 DEF ExportSend
  <2> QED
    BY <2>1
<1>2. CASE ExportRoute(e)
  BY <1>2 DEF ExportRoute
<1>3. CASE NextSpan(e)
  BY <1>3 DEF NextSpan
<1>4. CASE NextRecord(e)
  BY <1>4 DEF NextRecord
<1> QED
  BY <1>1, <1>2, <1>3, <1>4 DEF Begin, ExportEnd, ExportCancelled

\* Whatever the routing decisions, the refusals and the restarts, no export
\* offers a record that it offered before.
LEMMA OfferedStep ==
    ASSUME TypeOK, OfferedOnce, [Next]_vars
    PROVE  OfferedOnce'
<1> SUFFICES ASSUME NEW e \in Exports, NEW r \in Records, r.export = e, r \in Offered'
             PROVE  Before(r, export'[e])
  BY DEF OfferedOnce
<1>1. DOMAIN export = Exports
  BY DEF TypeOK
<1>2. ASSUME r \in Offered
      PROVE  Before(r, export'[e])
  <2>1. Before(r, export[e])
    BY <1>2 DEF OfferedOnce
  <2>2. CASE Stop
    BY <2>1, <2>2 DEF Stop, Before, Unused, Done
  <2>3. ASSUME NEW f \in Exports,
               \/ \E p \in Peers : \E kind \in Kinds : Begin(f, p, kind)
               \/ ExportRoute(f) \/ ExportSend(f)
               \/ NextSpan(f) \/ NextRecord(f) \/ ExportEnd(f)
               \/ ExportCancelled(f)
        PROVE  Before(r, export'[e])
    <3>1. CASE f = e
      BY <2>1, <2>3, <3>1, BeforeStep
    <3>2. CASE f # e
      <4>1. export'[e] = export[e]
        BY <1>1, <2>3, <3>2, OtherExports
      <4> QED
        BY <2>1, <4>1
    <3> QED
      BY <3>1, <3>2
  <2> QED
    BY <2>1, <2>2, <2>3, ExportSteps
<1>3. CASE Keeps
  BY <1>2, <1>3 DEF Keeps
<1>4. ASSUME NEW f \in Exports, ExportSend(f)
      PROVE  Before(r, export'[e])
  <2>1. PICK s \in export[f].todo :
          /\ Offers([export |-> f, item |-> export[f].item, session |-> s,
                     peer |-> export[f].peer])
          /\ export' = [export EXCEPT ![f].todo = export[f].todo \ {s}]
    BY <1>4, SendStep
  <2> DEFINE q == [export |-> f, item |-> export[f].item, session |-> s,
                   peer |-> export[f].peer]
  <2>2. q.export = f /\ q.item = export[f].item /\ q.session = s
    OBVIOUS
  <2>3. Offers(q)
    BY <2>1
  <2> HIDE DEF q
  <2>4. CASE r = q
    <3>1. export[e] \in [step : {"sending"}, kind : Kinds, peer : Peers, item : 1 .. Items,
                         decision : SUBSET Sessions, todo : SUBSET Sessions]
      BY <1>4, <2>2, <2>4, ExportFields DEF ExportSend
    <3>2. export'[e] = [export[e] EXCEPT !.todo = export[e].todo \ {s}]
      BY <1>1, <2>1, <2>2, <2>4
    <3>3. /\ export'[e].step = "sending" /\ export'[e].item = r.item
          /\ export'[e].todo = export[e].todo \ {s}
      BY <2>2, <2>4, <3>1, <3>2
    <3> QED
      BY <2>2, <2>4, <3>3 DEF Before, Unused
  <2>5. CASE r # q
    BY <1>2, <2>3, <2>5 DEF Offers
  <2> QED
    BY <2>4, <2>5
<1> QED
  BY <1>3, <1>4, BufferStep

-----------------------------------------------------------------------------
(* What is on its way is claimed *)

\* A claim stands until its session is purged, and no session is unmade.
LEMMA ClaimStands ==
    ASSUME TypeOK, [Next]_vars, NEW s \in Sessions, NEW p, ClaimedOnce(s, p)
    PROVE  ClaimedOnce(s, p)'
<1> USE DEF ClaimedOnce
<1>1. DP!TypeOK /\ [DP!Next]_DP!vars
  BY Types, SessionsStep
<1>2. DOMAIN status = Sessions /\ DOMAIN claims = Sessions
  BY <1>1 DEF DP!TypeOK
<1>3. ASSUME NEW h \in Handlers, NEW z \in Sessions, NEW list \in PeerLists,
             DP!CreateCommit(h, z, list)
      PROVE  ClaimedOnce(s, p)'
  BY <1>2, <1>3 DEF DP!CreateCommit
<1>4. ASSUME NEW h \in Handlers, DP!EndCommit(h)
      PROVE  ClaimedOnce(s, p)'
  BY <1>2, <1>4 DEF DP!EndCommit
<1>5. CASE DP!CleanupDelete
  BY <1>5 DEF DP!CleanupDelete
<1>6. ASSUME NEW h \in Handlers,
             \/ DP!CreateRoute(h) \/ DP!EndRefused(h) \/ DP!EndUnroute(h) \/ DP!Disconnect(h)
             \/ \E z \in Sessions : DP!EndBegin(h, z)
      PROVE  ClaimedOnce(s, p)'
  BY <1>6 DEF DP!CreateRoute, DP!EndRefused, DP!EndUnroute, DP!Disconnect, DP!EndBegin, DP!db
<1>7. CASE DP!CleanupBegin \/ DP!CleanupFail \/ DP!TimePasses \/ DP!Restart \/ UNCHANGED DP!vars
  BY <1>7 DEF DP!CleanupBegin, DP!CleanupFail, DP!TimePasses, DP!Restart, DP!db, DP!vars
<1> QED
  BY <1>1, <1>3, <1>4, <1>5, <1>6, <1>7 DEF DP!Next, DP!HandlerStep

\* A decision of the router is of sessions that claim the peer, and from then on
\* its records are of sessions that claim it or that were purged.
LEMMA OnItsWayStep ==
    ASSUME TypeOK, OfferedOnce, DP!RouterInv, OnItsWay, [Next]_vars
    PROVE  OnItsWay'
<1>1. DOMAIN export = Exports
  BY DEF TypeOK
<1>2. ASSUME NEW r \in Range(batch') \cup Range(channel')
      PROVE  ClaimedOnce(r.session, r.peer)'
  <2>1. ASSUME r \in Range(batch) \cup Range(channel)
        PROVE  ClaimedOnce(r.session, r.peer)'
    <3>1. r \in Records
      <4>1. WP!TypeOK
        BY Types
      <4> QED
        BY <2>1, <4>1, WhereRecordsAre
    <3>2. r.session \in Sessions /\ ClaimedOnce(r.session, r.peer)
      BY <2>1, <3>1 DEF OnItsWay, Records
    <3> QED
      BY <3>2, ClaimStands
  <2>2. CASE Keeps
    BY <1>2, <2>1, <2>2 DEF Keeps
  <2>3. ASSUME NEW f \in Exports, ExportSend(f)
        PROVE  ClaimedOnce(r.session, r.peer)'
    <3>1. export[f].step = "sending"
      BY <2>3 DEF ExportSend
    <3>2. PICK s \in export[f].todo :
            Offers([export |-> f, item |-> export[f].item, session |-> s,
                    peer |-> export[f].peer])
      BY <2>3, SendStep
    <3> DEFINE q == [export |-> f, item |-> export[f].item, session |-> s,
                     peer |-> export[f].peer]
    <3>3. q.session = s /\ q.peer = export[f].peer
      OBVIOUS
    <3>4. Offers(q)
      BY <3>2
    <3> HIDE DEF q
    <3>5. CASE r = q
      <4>1. PICK p : p = export[f].peer
        OBVIOUS
      <4>2. s \in Sessions /\ ClaimedOnce(s, p)
        BY <3>1, <4>1, ExportFields DEF OnItsWay
      <4>3. ClaimedOnce(s, p)'
        BY <4>2, ClaimStands
      <4> QED
        BY <3>3, <3>5, <4>1, <4>3 DEF ClaimedOnce
    <3>6. CASE r # q
      <4>1. batch' = batch /\ Range(channel') \subseteq Range(channel) \cup {q}
        BY <3>4 DEF Offers
      <4> QED
        BY <1>2, <2>1, <3>6, <4>1
    <3> QED
      BY <3>5, <3>6
  <2> QED
    BY <2>2, <2>3, BufferStep
<1>3. ASSUME NEW e \in Exports, export'[e] = export[e], export[e].step = "sending"
      PROVE  /\ export'[e].todo \subseteq export'[e].decision
             /\ \A s \in export'[e].decision : ClaimedOnce(s, export[e].peer)'
  <2>1. PICK p : p = export[e].peer /\ p = export'[e].peer
    BY <1>3
  <2>2. /\ export[e].todo \subseteq export[e].decision
        /\ export[e].decision \subseteq Sessions
        /\ \A s \in export[e].decision : ClaimedOnce(s, p)
    BY <1>3, <2>1, ExportFields DEF OnItsWay
  <2>3. \A s \in export[e].decision : ClaimedOnce(s, p)'
    BY <2>2, ClaimStands
  <2> QED
    BY <1>3, <2>1, <2>2, <2>3 DEF ClaimedOnce
<1>4. ASSUME NEW e \in Exports, NEW p, NEW d, export[e].peer = p, export'[e].peer = p,
             export'[e].decision = d, export'[e].todo \subseteq d, d \subseteq Sessions,
             \A s \in d : ClaimedOnce(s, p)
      PROVE  /\ export'[e].todo \subseteq export'[e].decision
             /\ \A s \in export'[e].decision : ClaimedOnce(s, export[e].peer)'
  <2>1. \A s \in d : ClaimedOnce(s, p)'
    BY <1>4, ClaimStands
  <2> QED
    BY <1>4, <2>1 DEF ClaimedOnce
<1>5. ASSUME NEW e \in Exports, export'[e].step = "sending"
      PROVE  /\ export'[e].todo \subseteq export'[e].decision
             /\ \A s \in export'[e].decision : ClaimedOnce(s, export[e].peer)'
  <2> DEFINE x == export[e]
  <2>1. CASE ExportRoute(e)
    <3>1. PICK p \in Peers : p = x.peer
      BY <2>1, ExportFields DEF ExportRoute
    <3>2. /\ export'[e].peer = p /\ export'[e].decision = routes[p]
          /\ export'[e].todo = routes[p]
      BY <1>1, <2>1, <3>1 DEF ExportRoute, D!Route
    <3>3. /\ routes[p] \subseteq Sessions
          /\ \A s \in routes[p] : ClaimedOnce(s, p)
      <4>1. DP!TypeOK /\ DP!RoutesMatchClaims
        BY Types DEF DP!RouterInv
      <4> QED
        BY <4>1 DEF DP!TypeOK, DP!RoutesMatchClaims, DP!Route, ClaimedOnce
    <3> QED
      BY <1>4, <3>1, <3>2, <3>3
  <2>2. CASE ExportSend(e) \/ NextRecord(e)
    <3>1. /\ x \in [step : {"sending"}, kind : Kinds, peer : Peers, item : 1 .. Items,
                     decision : SUBSET Sessions, todo : SUBSET Sessions]
          /\ x.todo \subseteq x.decision
          /\ \A s \in x.decision : ClaimedOnce(s, x.peer)
      BY <2>2, ExportFields DEF ExportSend, NextRecord, OnItsWay
    <3>2. CASE ExportSend(e)
      <4>1. PICK z \in x.todo : export' = [export EXCEPT ![e].todo = @ \ {z}]
        BY <3>2 DEF ExportSend
      <4>2. export'[e] = [x EXCEPT !.todo = @ \ {z}]
        BY <1>1, <4>1
      <4>3. /\ export'[e].peer = x.peer /\ export'[e].decision = x.decision
            /\ export'[e].todo = x.todo \ {z}
        BY <3>1, <4>2
      <4> HIDE DEF x
      <4> QED
        BY <1>4, <3>1, <4>3 DEF x
    <3>3. CASE NextRecord(e)
      <4>1. export'[e] = [x EXCEPT !.item = @ + 1, !.todo = x.decision]
        BY <1>1, <3>3 DEF NextRecord
      <4>2. /\ export'[e].peer = x.peer /\ export'[e].decision = x.decision
            /\ export'[e].todo = x.decision
        BY <3>1, <4>1
      <4> QED
        BY <1>4, <3>1, <4>2
    <3> QED
      BY <2>2, <3>2, <3>3
  <2>3. CASE \/ \E p \in Peers : \E kind \in Kinds : Begin(e, p, kind)
             \/ NextSpan(e) \/ ExportEnd(e) \/ ExportCancelled(e) \/ Stop
    <3>1. export'[e].step # "sending"
      BY <1>1, <2>3 DEF Begin, NextSpan, ExportEnd, ExportCancelled, Stop, Unused, Done
    <3> QED
      BY <1>5, <3>1
  <2>4. CASE export'[e] = export[e]
    BY <1>3, <1>5, <2>4
  <2> QED
    BY <1>1, <2>1, <2>2, <2>3, <2>4, ExportSteps, OtherExports
<1> QED
  BY <1>2, <1>5 DEF OnItsWay

-----------------------------------------------------------------------------
(* Peers revert when their session ends *)

\* A session whose handlers run through is unrouted by the one that ended it.
LEMMA RevertsStep ==
    ASSUME TypeOK, DP!RouterInv, [Next]_vars,
           NEW s \in Sessions, Reverts(s), s \notin disturbed'
    PROVE  Reverts(s)'
<1>1. DP!TypeOK /\ DOMAIN status = Sessions /\ DOMAIN routes = Peers /\ DOMAIN task = Handlers
  <2>1. DP!TypeOK
    BY Types
  <2> QED
    BY <2>1 DEF DP!TypeOK
<1> USE DEF Reverts, DP!IsRouting, DP!IsEnding, DP!IsUnrouting, DP!IsRouted, DP!Route
<1>2. ASSUME NEW h \in Handlers, NEW z \in Sessions, NEW list \in PeerLists,
             DP!CreateCommit(h, z, list)
      PROVE  Reverts(s)'
  <2>1. z = s => \A g \in Handlers : ~DP!IsEnding(g, s)
    BY <1>2 DEF DP!CreateCommit, DP!RouterInv, DP!PendingTasksAreCurrent
  <2>2. /\ \A g \in Handlers : g # h => task'[g] = task[g]
        /\ task'[h].step = "routing" /\ task'[h].session = z /\ task[h].step = "idle"
        /\ UNCHANGED routes
        /\ z = s => status'[s] = "active"
        /\ z # s => status'[s] = status[s]
    BY <1>1, <1>2 DEF DP!CreateCommit, DP!Routing, DP!Idle
  <2> QED
    BY <2>1, <2>2
<1>3. ASSUME NEW h \in Handlers, DP!CreateRoute(h)
      PROVE  Reverts(s)'
  <2>1. /\ \A g \in Handlers : g # h => task'[g] = task[g]
        /\ task'[h].step = "idle" /\ task[h].step = "routing"
        /\ UNCHANGED status
        /\ \A p \in Peers : s \in routes'[p] => s \in routes[p] \/ s = task[h].session
    BY <1>1, <1>3 DEF DP!CreateRoute, DP!AddSession, DP!Idle, DP!db
  <2>2. s = task[h].session => status[s] = "active"
    BY <2>1
  <2> QED
    BY <2>1, <2>2
<1>4. ASSUME NEW h \in Handlers, DP!EndCommit(h)
      PROVE  Reverts(s)'
  <2> DEFINE z == task[h].session
  <2>1. /\ \A g \in Handlers : g # h => task'[g] = task[g]
        /\ task'[h].step = "unrouting" /\ task'[h].session = z
        /\ task[h].step = "ending"
        /\ z # s => status'[s] = status[s]
        /\ UNCHANGED routes
    BY <1>1, <1>4 DEF DP!EndCommit, DP!Unrouting
  <2>2. CASE z = s
    <3>1. \A g \in Handlers : ~DP!IsRouting(g, s)
      BY <2>1, <2>2
    <3> QED
      BY <2>1, <2>2, <3>1
  <2>3. CASE z # s
    BY <2>1, <2>3
  <2> QED
    BY <2>2, <2>3
<1>5. ASSUME NEW h \in Handlers, DP!EndRefused(h)
      PROVE  Reverts(s)'
  <2>1. /\ \A g \in Handlers : g # h => task'[g] = task[g]
        /\ task'[h].step = "idle" /\ task[h].step = "ending"
        /\ UNCHANGED <<status, routes>>
    BY <1>1, <1>5 DEF DP!EndRefused, DP!Idle, DP!db
  <2> QED
    BY <2>1
<1>6. ASSUME NEW h \in Handlers, DP!EndUnroute(h)
      PROVE  Reverts(s)'
  <2>1. /\ \A g \in Handlers : g # h => task'[g] = task[g]
        /\ task'[h].step = "idle" /\ task[h].step = "unrouting"
        /\ UNCHANGED status
        /\ \A p \in Peers : s \in routes'[p] => s \in routes[p] /\ s # task[h].session
    BY <1>1, <1>6 DEF DP!EndUnroute, DP!RemoveSession, DP!Idle, DP!db
  <2> QED
    BY <2>1
<1>7. ASSUME NEW h \in Handlers, NEW z \in Sessions, DP!EndBegin(h, z),
             z = s => \A g \in Handlers : ~DP!IsRouting(g, s)
      PROVE  Reverts(s)'
  <2>1. /\ \A g \in Handlers : g # h => task'[g] = task[g]
        /\ task'[h].step = "ending" /\ task'[h].session = z /\ task[h].step = "idle"
        /\ UNCHANGED <<status, routes>>
    BY <1>1, <1>7 DEF DP!EndBegin, DP!Ending, DP!Idle, DP!db
  <2> QED
    BY <1>7, <2>1
<1>8. ASSUME NEW h \in Handlers, DP!Disconnect(h), s # task[h].session
      PROVE  Reverts(s)'
  <2>1. /\ \A g \in Handlers : g # h => task'[g] = task[g]
        /\ task'[h].step = "idle"
        /\ UNCHANGED <<status, routes>>
    BY <1>1, <1>8 DEF DP!Disconnect, DP!Idle, DP!db
  <2> QED
    BY <1>8, <2>1
<1>9. CASE DP!CleanupBegin \/ DP!CleanupFail \/ DP!TimePasses
  BY <1>9 DEF DP!CleanupBegin, DP!CleanupFail, DP!TimePasses, DP!db
<1>10. CASE DP!CleanupDelete
  <2>1. /\ UNCHANGED <<routes, task>>
        /\ status'[s] = IF DP!Expired(s) THEN "deleted" ELSE status[s]
    BY <1>10 DEF DP!CleanupDelete
  <2>2. DP!Expired(s) => status[s] = "completed"
    BY DEF DP!Expired
  <2> QED
    BY <2>1, <2>2
<1>11. CASE DP!Restart
  <2>1. /\ \A h \in Handlers : task'[h].step = "idle"
        /\ \A p \in Peers : routes'[p] = {}
    BY <1>11 DEF DP!Restart, DP!Idle
  <2> QED
    BY <2>1
<1>12. CASE UNCHANGED sessionVars
  BY <1>12 DEF sessionVars
<1> QED
  BY <1>2, <1>3, <1>4, <1>5, <1>6, <1>7, <1>8, <1>9, <1>10, <1>11, <1>12, SessionSteps
     DEF SessionsMove, DP!HandlerStep

\* Only a look at the router makes an export expect a session.
LEMMA ExpectingStep ==
    ASSUME TypeOK, [Next]_vars, NEW s \in Sessions, NEW e \in Expecting(s)', e \notin Expecting(s)
    PROVE  DP!IsRouted(s)
<1> DEFINE x == export[e]
<1>1. /\ e \in Exports /\ DOMAIN export = Exports
      /\ export'[e].step = "sending" /\ s \in export'[e].decision
      /\ ~(x.step = "sending" /\ s \in x.decision)
  BY DEF TypeOK, Expecting
<1>2. CASE ExportRoute(e)
  <2>1. x.peer \in Peers
    BY <1>1, <1>2, ExportFields DEF ExportRoute
  <2>2. export'[e].decision = routes[x.peer]
    BY <1>1, <1>2 DEF ExportRoute, D!Route
  <2> QED
    BY <1>1, <2>1, <2>2 DEF DP!IsRouted, DP!Route
<1>3. CASE ExportSend(e) \/ NextRecord(e)
  <2>1. x \in [step : {"sending"}, kind : Kinds, peer : Peers, item : 1 .. Items,
               decision : SUBSET Sessions, todo : SUBSET Sessions]
    BY <1>1, <1>3, ExportFields DEF ExportSend, NextRecord
  <2>2. CASE ExportSend(e)
    <3>1. PICK z \in x.todo : export' = [export EXCEPT ![e].todo = @ \ {z}]
      BY <2>2 DEF ExportSend
    <3>2. export'[e] = [x EXCEPT !.todo = @ \ {z}]
      BY <1>1, <3>1
    <3>3. export'[e].decision = x.decision /\ x.step = "sending"
      BY <2>1, <3>2
    <3> QED
      BY <1>1, <3>3
  <2>3. CASE NextRecord(e)
    <3>1. export'[e] = [x EXCEPT !.item = @ + 1, !.todo = x.decision]
      BY <1>1, <2>3 DEF NextRecord
    <3>2. export'[e].decision = x.decision /\ x.step = "sending"
      BY <2>1, <3>1
    <3> QED
      BY <1>1, <3>2
  <2> QED
    BY <1>3, <2>2, <2>3
<1>4. CASE \/ \E p \in Peers : \E kind \in Kinds : Begin(e, p, kind)
           \/ NextSpan(e) \/ ExportEnd(e) \/ ExportCancelled(e) \/ Stop
  <2>1. export'[e].step # "sending"
    BY <1>1, <1>4 DEF Begin, NextSpan, ExportEnd, ExportCancelled, Stop, Unused, Done
  <2> QED
    BY <1>1, <2>1
<1>5. CASE export'[e] = export[e]
  BY <1>1, <1>5
<1> QED
  BY <1>1, <1>2, <1>3, <1>4, <1>5, ExportSteps, OtherExports

-----------------------------------------------------------------------------
(* The invariant holds *)

\* A record is in one place through a purge as through any step of the buffer,
\* and the purge leaves the queues as bounded as they were.
LEMMA BufferInvStep ==
    ASSUME TypeOK, WP!BoundInv, WP!EachRecordOnce, OfferedOnce, [Next]_vars
    PROVE  WP!BoundInv' /\ WP!EachRecordOnce'
<1>1. WP!TypeOK
  BY Types
<1>2. CASE [WP!Next]_WP!vars
  <2>1. WP!BoundInv'
    BY <1>1, <1>2, BufferAssumption, SessionsAssumption, WP!BoundInvStep
  <2>2. WP!EachRecordOnce'
    BY <1>1, <1>2, BufferAssumption, SessionsAssumption, WP!EachRecordOnceStep
  <2> QED
    BY <2>1, <2>2
<1>3. CASE Purges
  BY <1>1, <1>3, PurgedRows
<1> QED
  BY <1>2, <1>3, BufferStep

\* Nothing has happened yet when the process first starts.
LEMMA PipelineInit ==
    ASSUME Init
    PROVE  PipelineInv
<1> USE DEF Init, D!Init, W!Init
<1>1. Range(<<>>) = {} /\ <<>> \o <<>> = <<>> /\ Len(<<>>) = 0 /\ <<>> \in Seq(Records)
  BY EmptySeq, ConcatEmptySeq DEF Range
<1>2. TypeOK
  BY <1>1 DEF TypeOK, D!TypeOK, D!Statuses, D!Tasks, D!Idle, W!TypeOK
<1>3. DP!RouterInv
  BY DEF DP!RouterInv, DP!RoutesMatchClaims, DP!PendingTasksAreCurrent, DP!OneEndWins,
     DP!IsRouting, DP!IsEnding, DP!IsUnrouting, DP!Route, D!Idle
<1>4. WP!BoundInv
  BY <1>1, BufferAssumption DEF WP!BoundInv, WP!BufferBounded, WP!IdleBatchEmpty
<1>5. WP!EachRecordOnce
  <2>1. WP!Kept = <<>>
    BY <1>1 DEF WP!Kept, WP!Pending
  <2>2. WP!IsInjective(<<>>)
    BY DEF WP!IsInjective
  <2> QED
    BY <2>1, <2>2 DEF WP!EachRecordOnce
<1>6. OfferedOnce
  BY <1>1 DEF OfferedOnce, Offered
<1>7. OnItsWay
  BY <1>1 DEF OnItsWay, Unused
<1>8. EndedRevert
  BY DEF EndedRevert, Reverts, DP!IsRouting, DP!IsRouted, DP!Route, D!Idle
<1> QED
  BY <1>2, <1>3, <1>4, <1>5, <1>6, <1>7, <1>8 DEF PipelineInv

\* Every step of an export, a handler, the buffer, the cleanup, the clock and
\* the process keeps the invariant.
LEMMA PipelineStep ==
    ASSUME PipelineInv, [Next]_vars
    PROVE  PipelineInv'
<1> USE DEF PipelineInv
<1>1. TypeOK'
  BY TypeStep
<1>2. DP!RouterInv'
  BY Types, SessionsStep, SessionsAssumption, DP!RouterInvStep
<1>3. WP!BoundInv' /\ WP!EachRecordOnce'
  BY BufferInvStep
<1>4. OfferedOnce'
  BY OfferedStep
<1>5. OnItsWay'
  BY OnItsWayStep
<1>6. EndedRevert'
  <2>1. ASSUME NEW s \in Sessions \ disturbed'
        PROVE  Reverts(s)'
    <3>1. s \notin disturbed
      BY <2>1, SessionSteps DEF SessionsMove, Cleanup, TimePasses, SessionsUnchangedElse, Stop
    <3> QED
      BY <2>1, <3>1, RevertsStep DEF EndedRevert
  <2> QED
    BY <2>1 DEF EndedRevert
<1> QED
  BY <1>1, <1>2, <1>3, <1>4, <1>5, <1>6

\* The invariant holds in every reachable state.  Only together are its parts
\* inductive: that a record is stored once needs that no export offers it again,
\* that its session claims its peer needs the router's decision to be of claims,
\* and that the router lets go of a session needs who is still on its way to it.
THEOREM PipelineInvariant == Spec => []PipelineInv
  BY PipelineInit, PipelineStep, PTL DEF Spec

\* Every variable of sessions, router, exports and buffer keeps its type.
THEOREM TypeCorrect == Spec => []TypeOK
<1>1. PipelineInv => TypeOK
  BY DEF PipelineInv
<1> QED
  BY <1>1, PipelineInvariant, PTL

\* Once the handler that ended a session is through, no export is newly routed to
\* it, whatever the retention, the flush interval and the order of requests: only
\* what was decided before can reach a purged session.  Excepted are sessions with a
\* handler that was cut short or overlapped another.
THEOREM EndedIsLeftAlone == Spec => EndedTakesNoMore
<1>1. PipelineInv /\ [Next]_vars =>
        [\A s \in Sessions \ disturbed :
            status[s] \in {"completed", "deleted"} /\ ~(\E h \in Handlers : D!IsUnrouting(h, s))
               => Expecting(s)' \subseteq Expecting(s)]_vars
  <2> SUFFICES ASSUME PipelineInv, [Next]_vars, NEW s \in Sessions \ disturbed,
                      status[s] \in {"completed", "deleted"},
                      ~(\E h \in Handlers : D!IsUnrouting(h, s)),
                      NEW e \in Expecting(s)', e \notin Expecting(s)
               PROVE  FALSE
    OBVIOUS
  <2>1. DP!IsRouted(s)
    BY ExpectingStep DEF PipelineInv
  <2>2. \E h \in Handlers : DP!IsUnrouting(h, s)
    BY <2>1 DEF PipelineInv, EndedRevert, Reverts
  <2> QED
    BY <2>2 DEF D!IsUnrouting, DP!IsUnrouting
<1> QED
  BY <1>1, PipelineInvariant, PTL DEF Spec, EndedTakesNoMore

-----------------------------------------------------------------------------
(* The capture path implements CaptureStore *)

\* Every step of the capture path creates a session, ends one, purges some with
\* their rows, stores a batch, or changes nothing that a reader can see.
LEMMA CaptureStep ==
    ASSUME PipelineInv, [Next]_vars
    PROVE  [C!NextStore]_C!store
<1>1. /\ TypeOK /\ DP!TypeOK /\ WP!TypeOK
      /\ DOMAIN status = Sessions /\ DOMAIN claims = Sessions
  <2>1. TypeOK /\ DP!TypeOK /\ WP!TypeOK
    BY Types DEF PipelineInv
  <2> QED
    BY <2>1 DEF DP!TypeOK
<1>2. ASSUME NEW h \in Handlers, Create(h)
      PROVE  C!NextStore
  <2>1. PICK s \in Sessions, list \in PeerLists : D!CreateCommit(h, s, list)
    BY <1>2 DEF Create
  <2>2. D!Range(list) \in SUBSET Peers
    BY SessionsAssumption DEF D!Range
  <2>3. C!Create(s, D!Range(list))
    BY <1>2, <2>1 DEF Create, D!CreateCommit, C!Create, SessionsUnchangedElse, bufferVars
  <2> QED
    BY <2>2, <2>3 DEF C!NextStore
<1>3. ASSUME NEW h \in Handlers, EndUpdate(h)
      PROVE  [C!NextStore]_C!store
  <2>1. CASE D!EndCommit(h)
    <3>1. task[h].session \in Sessions
      BY <1>1, <2>1 DEF D!EndCommit, DP!TypeOK, DP!Tasks, DP!Idle
    <3>2. C!End(task[h].session)
      BY <1>3, <2>1 DEF EndUpdate, D!EndCommit, C!End, SessionsUnchangedElse, bufferVars
    <3> QED
      BY <3>1, <3>2 DEF C!NextStore
  <2>2. CASE D!EndRefused(h)
    BY <1>3, <2>2 DEF EndUpdate, D!EndRefused, D!db, SessionsUnchangedElse, bufferVars, C!store
  <2> QED
    BY <1>3, <2>1, <2>2 DEF EndUpdate
<1>4. CASE Cleanup
  <2> DEFINE S == {s \in Sessions : D!Expired(s)}
  <2>1. {r \in Records : ~D!Expired(r.session)} = {r \in Records : r.session \notin S}
    BY DEF Records
  <2>2. \A q, T : C!Only(q, T) = Only(q, T)
    BY DEF C!Only, Only, C!Places, Places, C!Rank, Rank, C!Cardinality, Cardinality
  <2>3. stored' = C!Only(stored, {r \in Records : r.session \notin S})
    BY <1>4, <2>1, <2>2 DEF Cleanup
  <2>4. /\ \A s \in S : status[s] = "completed"
        /\ status' = [s \in Sessions |-> IF s \in S THEN "deleted" ELSE status[s]]
        /\ claims' = [s \in Sessions |-> IF s \in S THEN {} ELSE claims[s]]
    BY <1>4 DEF Cleanup, D!CleanupDelete, D!Expired
  <2>5. S \in SUBSET Sessions
    OBVIOUS
  <2> HIDE DEF S
  <2>6. C!Purge(S)
    BY <2>3, <2>4 DEF C!Purge
  <2> QED
    BY <2>5, <2>6 DEF C!NextStore
<1>5. CASE Flushed
  <2>1. /\ UNCHANGED <<status, claims>> /\ stored' = stored \o batch
        /\ \A r \in Range(batch) : Exists(r.session)
    BY <1>5 DEF Flushed, W!FlushCommit, BufferUnchangedElse, sessionVars
  <2>2. \A f : (WP!IsInjective(f) <=> IsInjective(f)) /\ (C!IsInjective(f) <=> IsInjective(f))
               /\ C!Range(f) = Range(f)
    BY DEF WP!IsInjective, IsInjective, C!IsInjective, C!Range, Range
  <2>3. /\ stored \in Seq(Records) /\ batch \in Seq(Records) /\ channel \in Seq(Records)
        /\ Range(batch) \subseteq Records
    BY <1>1, WhereRecordsAre
  <2>4. IsInjective(batch) /\ \A r \in Range(batch) : r \notin Range(stored)
    <3>1. IsInjective(stored \o (batch \o channel))
      BY <2>2 DEF PipelineInv, WP!EachRecordOnce, WP!Kept, WP!Pending
    <3> DEFINE p == batch \o channel
    <3>2. p \in Seq(Records) /\ Range(p) = Range(batch) \cup Range(channel)
      BY <2>3, ConcatProperties, RangeConcatenation
    <3>3. IsInjective(p) /\ \A r \in Range(p) : r \notin Range(stored)
      <4>1. IsInjective(stored \o p)
        BY <3>1
      <4> HIDE DEF p
      <4> QED
        BY <2>3, <3>2, <4>1, ConcatOnce
    <3>4. IsInjective(batch)
      BY <2>3, <3>3, ConcatOnce
    <3> QED
      BY <3>2, <3>3, <3>4
  <2>5. \A r \in Range(batch) : C!Belongs(r)
    BY <2>1, <2>3 DEF PipelineInv, OnItsWay, ClaimedOnce, C!Belongs, C!Exists, Exists
  <2>6. batch \in C!BoundedSeq(Records, BatchSize)
    <3>1. Len(batch) \in 0 .. BatchSize
      BY <2>3, LenProperties, BufferAssumption DEF PipelineInv, WP!BoundInv, WP!BufferBounded
    <3>2. batch \in [1 .. Len(batch) -> Records]
      BY <2>3, LenProperties
    <3> QED
      BY <3>1, <3>2 DEF C!BoundedSeq, C!SeqOf
  <2>7. C!Store(batch)
    BY <2>1, <2>2, <2>4, <2>5 DEF C!Store
  <2> QED
    BY <2>6, <2>7 DEF C!NextStore
<1>6. ASSUME NEW h \in Handlers, RouterUpdate(h) \/ EndRequest(h) \/ Disconnect(h)
      PROVE  UNCHANGED C!store
  BY <1>6 DEF RouterUpdate, EndRequest, Disconnect, D!CreateRoute, D!EndUnroute, D!EndBegin,
     D!Disconnect, D!db, SessionsUnchangedElse, bufferVars, C!store
<1>7. CASE CleanupStart \/ CleanupFail \/ TimePasses \/ Stop
  BY <1>7 DEF CleanupStart, CleanupFail, TimePasses, Stop, D!CleanupBegin, D!CleanupFail,
     D!TimePasses, D!Restart, W!Exit, W!Crash, W!Gone, D!db, SessionsUnchangedElse, bufferVars, C!store
<1>8. CASE Buffering \/ FlushFailed \/ Shutdown \/ Start
  BY <1>8 DEF Buffering, FlushFailed, Shutdown, W!Shutdown, Start, W!TaskStart, W!Receive, W!Tick, W!FlushBegin,
     W!FlushFail, W!Start, BufferUnchangedElse, sessionVars, C!store
<1>9. ASSUME NEW e \in Exports,
             \/ \E p \in Peers : TraceBegin(e, p) \/ ResourceBegin(e, p)
             \/ ExportStep(e)
             \/ ExportCancelled(e)
      PROVE  UNCHANGED C!store
  <2>1. CASE ExportSend(e)
    BY <2>1 DEF ExportSend, W!Enqueue, W!Refuse, sessionVars, C!store
  <2>2. CASE ~ExportSend(e)
    BY <1>9, <2>2 DEF TraceBegin, ResourceBegin, Begin, ExportStep, ExportRoute, NextSpan,
       NextRecord, ExportEnd, ExportCancelled, sessionVars, bufferVars, C!store
  <2> QED
    BY <2>1, <2>2
<1>10. CASE UNCHANGED vars
  BY <1>10 DEF vars, sessionVars, bufferVars, C!store
<1> QED
  BY <1>2, <1>3, <1>4, <1>5, <1>6, <1>7, <1>8, <1>9, <1>10 DEF Next

\* For any number of exports, handlers, sessions, peers and records, any queue
\* sizes and any retention, and through failed flushes, disconnects and crashes,
\* readers of the database see what CaptureStore promises: rows come in batches
\* without repetition, belong to a session that claims their peer when they are
\* written, and go only with their session.
THEOREM Refinement == Spec => IsCapture
<1>1. Init => C!Init
  BY DEF Init, D!Init, W!Init, C!Init
<1>2. PipelineInv /\ [Next]_vars => [C!NextStore]_C!store
  BY CaptureStep
<1> QED
  BY <1>1, <1>2, PipelineInvariant, PTL DEF Spec, IsCapture, C!Spec
-----------------------------------------------------------------------------
(* The rows, the sessions and the readers *)

\* Every row of the telemetry tables is there once, of a session that is there, and
\* of a peer which that session claims: rows are written by a task that knows of no
\* session, after a decision that may be outdated, and removed by another.
THEOREM RowsBelong ==
    Spec => [](IsInjective(stored) /\ \A r \in Range(stored) :
                   Exists(r.session) /\ r.peer \in claims[r.session])
<1>1. Init => Rows!StoreInv
  <2>1. <<>> \in Seq(Records) /\ Rows!Range(<<>>) = {} /\ Rows!IsInjective(<<>>)
    BY EmptySeq DEF Rows!Range, Rows!IsInjective
  <2> QED
    BY <2>1 DEF Init, D!Init, W!Init, Rows!StoreInv, Rows!Statuses
<1>2. Rows!StoreInv /\ [C!NextStore]_C!store => Rows!StoreInv'
  <2> SUFFICES ASSUME Rows!StoreInv, [C!NextStore]_C!store PROVE Rows!StoreInv'
    OBVIOUS
  <2>1. C!NextStore <=> Rows!NextStore
    BY DEF C!NextStore, Rows!NextStore, C!Create, Rows!Create, C!End, Rows!End,
       C!Purge, Rows!Purge, C!Store, Rows!Store, C!Belongs, Rows!Belongs, C!Exists, Rows!Exists,
       C!Only, Rows!Only, C!Places, Rows!Places, C!Rank, Rows!Rank,
       C!Cardinality, Rows!Cardinality, C!IsInjective, Rows!IsInjective, C!Range, Rows!Range,
       C!BoundedSeq, Rows!BoundedSeq, C!SeqOf, Rows!SeqOf
  <2>2. [Rows!NextStore]_Rows!store
    BY <2>1 DEF C!store, Rows!store
  <2> QED
    BY <2>2, RowsOfStore, Rows!StoreStep
<1>3. Rows!StoreInv => IsInjective(stored) /\ \A r \in Range(stored) :
                          Exists(r.session) /\ r.peer \in claims[r.session]
  BY SameOperators DEF Rows!StoreInv, Rows!Belongs, Rows!Exists, Exists
<1> QED
  BY <1>1, <1>2, <1>3, CaptureStep, PipelineInvariant, PTL DEF Spec

\* The sessions live in this process as they do alone, down to the router: a record
\* or a full queue, a failed flush or the order of shutdown changes nothing of them.
THEOREM SessionsAsSpecified == Spec => DP!Spec
<1>1. Init => DP!Init
  BY DEF Init, D!Init, DP!Init, D!Idle, DP!Idle
<1>2. [Next]_vars => [DP!Next]_DP!vars
  BY SessionsStep
<1> QED
  BY <1>1, <1>2, PTL DEF Spec, DP!Spec

\* So the router never retains what no committed session claims, one request ends a
\* session, and statuses and retention are those of the sessions alone.
THEOREM SessionsAreRight ==
    Spec => /\ []DP!RoutesMatchClaims /\ []DP!OneEndWins
            /\ DP!StatusMovesForward /\ DP!KeptForRetention
<1>1. /\ DP!Spec => []DP!RoutesMatchClaims
      /\ DP!Spec => []DP!OneEndWins
      /\ DP!Spec => DP!StatusMovesForward
      /\ DP!Spec => DP!KeptForRetention
  BY SessionsAssumption, DP!RoutesAreClaimed, DP!EndIsExclusive, DP!StatusIsMonotone,
     DP!RetentionRespected
<1> QED
  BY <1>1, SessionsAsSpecified, PTL

\* The capture path with requests that read its database, statement by statement.
SpecRead ==
    /\ Spec
    /\ view = [r \in Readers |-> VP!Unasked]
    /\ [][\E r \in Readers : VP!Reading(r)]_view

\* Pages and API calls read this database as SessionViews has them read a
\* CaptureStore: every step is one of a reader or of the store.
THEOREM ReadersAsSpecified ==
    ASSUME Limit \in Nat \ {0}, MaxPages \in Nat
    PROVE  SpecRead => VP!SpecViews
<1>1. Init /\ view = [r \in Readers |-> VP!Unasked] => VP!InitViews
  BY DEF Init, D!Init, W!Init, VP!InitViews, VP!Init
<1>2. [C!NextStore]_C!store /\ [\E r \in Readers : VP!Reading(r)]_view => [VP!NextViews]_VP!vars
  <2> SUFFICES ASSUME [C!NextStore]_C!store, [\E r \in Readers : VP!Reading(r)]_view
               PROVE  [VP!NextViews]_VP!vars
    OBVIOUS
  <2>1. C!NextStore <=> VP!NextStore
    BY DEF C!NextStore, VP!NextStore, C!Create, VP!Create, C!End, VP!End, C!Purge, VP!Purge,
       C!Store, VP!Store, C!Belongs, VP!Belongs, C!Exists, VP!Exists, C!Only, VP!Only,
       C!Places, VP!Places, C!Rank, VP!Rank, C!Cardinality, VP!Cardinality,
       C!IsInjective, VP!IsInjective, C!Range, VP!Range, C!BoundedSeq, VP!BoundedSeq,
       C!SeqOf, VP!SeqOf
  <2>2. CASE UNCHANGED view
    <3>1. CASE C!NextStore
      BY <2>1, <2>2, <3>1 DEF VP!NextViews, VP!Capturing
    <3>2. CASE UNCHANGED C!store
      BY <2>2, <3>2 DEF VP!vars, VP!store, C!store
    <3> QED
      BY <3>1, <3>2
  <2>3. CASE \E r \in Readers : VP!Reading(r)
    BY <2>3 DEF VP!NextViews
  <2> QED
    BY <2>2, <2>3
<1> QED
  BY <1>1, <1>2, Refinement, PTL DEF Spec, SpecRead, IsCapture, C!Spec, VP!SpecViews

\* So what a page or an API call shows of telemetry on its way from the collectors
\* through router, queue, flushes and purges is consistent, for any number of
\* requests and any page limit: sessions have the peers they claim, the detail page
\* has rows of the peers it lists, every page is of one moment, and paging misses no
\* row.
THEOREM ReadersAreRight ==
    ASSUME Limit \in Nat \ {0}, MaxPages \in Nat
    PROVE  SpecRead => /\ []VP!ShownWithItsPeers /\ []VP!RowsComeFromShownPeers
                       /\ []VP!PageIsOfOneMoment /\ []VP!NoRowSkipped
<1>1. /\ VP!SpecViews => []VP!ShownWithItsPeers
      /\ VP!SpecViews => []VP!RowsComeFromShownPeers
      /\ VP!SpecViews => []VP!PageIsOfOneMoment
      /\ VP!SpecViews => []VP!NoRowSkipped
  BY RowsOfStore, VP!ShownRight, VP!RowsOfShownPeers, VP!PagesOfOneMoment, VP!PagesMissNothing
<1> QED
  BY <1>1, ReadersAsSpecified, PTL
=============================================================================
