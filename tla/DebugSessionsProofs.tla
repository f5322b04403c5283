------------------------ MODULE DebugSessionsProofs ------------------------
(***************************************************************************)
(* Proofs that the properties TLC checks on small instances hold for any   *)
(* sets of sessions, peers and concurrent requests, any retention, and any *)
(* behaviour of the clients.                                               *)
(***************************************************************************)
EXTENDS DebugSessions, TLAPS

\* A duplicate-free request names only peers: what create stores and hands to
\* the router is a set of peers.
LEMMA RequestedPeers ==
    ASSUME NEW list \in PeerLists
    PROVE  Range(list) \subseteq Peers
  BY PeerListsAssumption DEF Range

-----------------------------------------------------------------------------
(* Type correctness *)

\* Every step of a handler, of the cleanup and of the process keeps the types.
LEMMA TypeStep ==
    ASSUME TypeOK, [Next]_vars
    PROVE  TypeOK'
<1> USE DEF TypeOK, Statuses
<1>1. ASSUME NEW h \in Handlers, NEW s \in Sessions, NEW list \in PeerLists,
             CreateCommit(h, s, list)
      PROVE  TypeOK'
  <2>1. Range(list) \in SUBSET Peers
    BY RequestedPeers
  <2>2. Routing(s, Range(list)) \in Tasks
    BY <2>1 DEF Routing, Tasks
  <2> QED
    BY <1>1, <2>1, <2>2 DEF CreateCommit
<1>2. ASSUME NEW h \in Handlers, NEW s \in Sessions, EndBegin(h, s)
      PROVE  TypeOK'
  <2>1. Ending(s) \in Tasks
    BY DEF Ending, Tasks
  <2> QED
    BY <1>2, <2>1 DEF EndBegin, db
<1>3. Idle \in Tasks
  BY DEF Tasks
<1>4. ASSUME NEW h \in Handlers, CreateRoute(h)
      PROVE  TypeOK'
  <2>1. task[h] \in [step : {"routing"}, session : Sessions, peers : SUBSET Peers]
    BY <1>4 DEF CreateRoute, Tasks, Idle
  <2> QED
    BY <1>3, <1>4, <2>1 DEF CreateRoute, AddSession, db
<1>5. ASSUME NEW h \in Handlers, EndCommit(h)
      PROVE  TypeOK'
  <2>1. task[h] \in [step : {"ending"}, session : Sessions, stamp : Nat]
    BY <1>5 DEF EndCommit, Tasks, Idle
  <2>2. Unrouting(task[h].session) \in Tasks
    BY <2>1 DEF Unrouting, Tasks
  <2> QED
    BY <1>5, <2>1, <2>2 DEF EndCommit
<1>6. ASSUME NEW h \in Handlers, EndRefused(h) \/ EndUnroute(h) \/ Disconnect(h)
      PROVE  TypeOK'
  BY <1>3, <1>6 DEF EndRefused, EndUnroute, Disconnect, RemoveSession, db
<1>7. CASE CleanupBegin
  BY <1>7 DEF CleanupBegin, Deleting, db
<1>8. CASE CleanupDelete
  BY <1>8 DEF CleanupDelete
<1>9. CASE CleanupFail \/ TimePasses
  BY <1>9 DEF CleanupFail, TimePasses, db
<1>10. CASE Restart
  BY <1>3, <1>10 DEF Restart, db
<1>11. CASE UNCHANGED vars
  BY <1>11 DEF vars
<1> QED
  BY <1>1, <1>2, <1>4, <1>5, <1>6, <1>7, <1>8, <1>9, <1>10, <1>11 DEF Next, HandlerStep

\* Every variable of the handlers, the database, the router and the cleanup
\* keeps its type in every reachable state.
THEOREM TypeCorrect == Spec => []TypeOK
<1>1. Init => TypeOK
  BY DEF Init, TypeOK, Statuses, Tasks, Idle
<1> QED
  BY <1>1, TypeStep, PTL DEF Spec

-----------------------------------------------------------------------------
(* Routes, claims and pending handlers *)

\* What a suspended handler knows is still true when it resumes: its session
\* was committed, a pending registration carries the peers that were stored,
\* and a pending removal is that of a session that is over.
PendingTasksAreCurrent ==
    \A h \in Handlers : \A s \in Sessions :
        /\ IsRouting(h, s) =>
              /\ status[s] # "absent"
              /\ status[s] # "deleted" => task[h].peers = claims[s]
        /\ IsEnding(h, s) => status[s] # "absent"
        /\ IsUnrouting(h, s) => status[s] \in {"completed", "deleted"}

RouterInv == RoutesMatchClaims /\ PendingTasksAreCurrent /\ OneEndWins

\* The fields of a task, from the step it is at.
LEMMA TaskFields ==
    ASSUME TypeOK, NEW h \in Handlers
    PROVE  /\ task[h] # Idle => task[h].session \in Sessions
           /\ task[h].step = "routing" => task[h].peers \subseteq Peers
           /\ task[h].step = "ending" => task[h].stamp \in Nat
  BY DEF TypeOK, Tasks, Idle

\* The router invariant is kept by every step, whatever the clients do.
LEMMA RouterInvStep ==
    ASSUME TypeOK, RouterInv, [Next]_vars
    PROVE  RouterInv'
<1> USE DEF RouterInv, RoutesMatchClaims, PendingTasksAreCurrent, OneEndWins,
            IsRouting, IsEnding, IsUnrouting, Route, Idle, TypeOK, Statuses
<1>1. ASSUME NEW h \in Handlers, NEW s \in Sessions, NEW list \in PeerLists,
             CreateCommit(h, s, list)
      PROVE  RouterInv'
  BY <1>1 DEF CreateCommit, Routing
<1>2. ASSUME NEW h \in Handlers, CreateRoute(h)
      PROVE  RouterInv'
  <2>1. task[h].session \in Sessions /\ task[h].peers \subseteq Peers
    BY <1>2, TaskFields DEF CreateRoute
  <2> QED
    BY <1>2, <2>1 DEF CreateRoute, AddSession, db
<1>3. ASSUME NEW h \in Handlers, NEW s \in Sessions, EndBegin(h, s)
      PROVE  RouterInv'
  BY <1>3 DEF EndBegin, Ending, db
<1>4. ASSUME NEW h \in Handlers, EndCommit(h)
      PROVE  RouterInv'
  <2>1. task[h].session \in Sessions
    BY <1>4, TaskFields DEF EndCommit
  <2> QED
    BY <1>4, <2>1 DEF EndCommit, Unrouting
<1>5. ASSUME NEW h \in Handlers, EndUnroute(h)
      PROVE  RouterInv'
  BY <1>5 DEF EndUnroute, RemoveSession, db
<1>6. ASSUME NEW h \in Handlers, EndRefused(h) \/ Disconnect(h)
      PROVE  RouterInv'
  BY <1>6 DEF EndRefused, Disconnect, db
<1>7. CASE CleanupDelete
  BY <1>7 DEF CleanupDelete, Expired
<1>8. CASE CleanupBegin \/ CleanupFail \/ TimePasses
  BY <1>8 DEF CleanupBegin, CleanupFail, TimePasses, db
<1>9. CASE Restart
  BY <1>9 DEF Restart, db
<1>10. CASE UNCHANGED vars
  BY <1>10 DEF vars
<1> QED
  BY <1>1, <1>2, <1>3, <1>4, <1>5, <1>6, <1>7, <1>8, <1>9, <1>10 DEF Next, HandlerStep

\* The router invariant holds in every reachable state: together, routes are
\* claimed, one end wins, and what handlers have pending agrees with the rows.
THEOREM RouterCorrect == Spec => []RouterInv
<1>1. Init => RouterInv
  BY DEF Init, RouterInv, RoutesMatchClaims, PendingTasksAreCurrent, OneEndWins,
         IsRouting, IsEnding, IsUnrouting, Route, Idle
<1> QED
  BY <1>1, RouterInvStep, TypeCorrect, PTL DEF Spec

\* A peer's telemetry is kept only for sessions that were committed and that
\* claim it, through any interleaving of creates, ends, disconnects, cleanups
\* and restarts.
THEOREM RoutesAreClaimed == Spec => []RoutesMatchClaims
  BY RouterCorrect, PTL DEF RouterInv

\* Of several requests that end one session, at most one goes on to the router.
THEOREM EndIsExclusive == Spec => []OneEndWins
  BY RouterCorrect, PTL DEF RouterInv

-----------------------------------------------------------------------------
(* Peers revert when their session ends *)

\* With well-behaved clients a session is still active while its creation is
\* pending, and nobody is ending it: the hypothesis that makes the order
\* "database, then router" harmless.
CreatedBeforeEnded ==
    \A g, h \in Handlers : \A s \in Sessions :
        IsRouting(h, s) => status[s] = "active" /\ ~IsEnding(g, s)

RevertInv == CreatedBeforeEnded /\ EndedSessionsRevert

\* With well-behaved clients every step keeps the order "created, then ended"
\* and leaves no route of an ended session without the handler that removes it.
LEMMA RevertInvStep ==
    ASSUME ~Disconnects, ~EarlyEnds, TypeOK, RouterInv, RevertInv, [Next]_vars
    PROVE  RevertInv'
<1> USE DEF RevertInv, CreatedBeforeEnded, EndedSessionsRevert, RouterInv,
            RoutesMatchClaims, PendingTasksAreCurrent, IsRouted, Route,
            IsRouting, IsEnding, IsUnrouting, Idle, TypeOK, Statuses
<1>1. ASSUME NEW h \in Handlers, NEW s \in Sessions, NEW list \in PeerLists,
             CreateCommit(h, s, list)
      PROVE  RevertInv'
  BY <1>1 DEF CreateCommit, Routing
<1>2. ASSUME NEW h \in Handlers, CreateRoute(h)
      PROVE  RevertInv'
  <2>1. task[h].session \in Sessions /\ status[task[h].session] = "active"
    BY <1>2, TaskFields DEF CreateRoute
  <2> QED
    BY <1>2, <2>1 DEF CreateRoute, AddSession, db
<1>3. ASSUME NEW h \in Handlers, NEW s \in Sessions, EndBegin(h, s)
      PROVE  RevertInv'
  BY <1>3 DEF EndBegin, Ending, db
<1>4. ASSUME NEW h \in Handlers, EndCommit(h)
      PROVE  RevertInv'
  <2>1. task[h].session \in Sessions
    BY <1>4, TaskFields DEF EndCommit
  <2> QED
    BY <1>4, <2>1 DEF EndCommit, Unrouting
<1>5. ASSUME NEW h \in Handlers, EndUnroute(h)
      PROVE  RevertInv'
  BY <1>5 DEF EndUnroute, RemoveSession, db
<1>6. ASSUME NEW h \in Handlers, EndRefused(h)
      PROVE  RevertInv'
  BY <1>6 DEF EndRefused, db
<1>7. CASE CleanupDelete
  BY <1>7 DEF CleanupDelete, Expired
<1>8. CASE CleanupBegin \/ CleanupFail \/ TimePasses
  BY <1>8 DEF CleanupBegin, CleanupFail, TimePasses, db
<1>9. CASE Restart
  BY <1>9 DEF Restart, db
<1>10. CASE UNCHANGED vars
  BY <1>10 DEF vars
<1> QED
  BY <1>1, <1>2, <1>3, <1>4, <1>5, <1>6, <1>7, <1>8, <1>9, <1>10
     DEF Next, HandlerStep, Disconnect

\* When clients stay connected and end a session only after its create call
\* returned, the router never retains anything for a session that is over,
\* except while the handler that ended it is about to remove it.
THEOREM PeersRevert ==
    ASSUME ~Disconnects, ~EarlyEnds
    PROVE  Spec => []EndedSessionsRevert
<1>1. Init => RevertInv
  BY DEF Init, RevertInv, CreatedBeforeEnded, EndedSessionsRevert, IsRouted,
         Route, IsRouting, Idle
<1>2. TypeOK /\ RouterInv /\ RevertInv /\ [Next]_vars => RevertInv'
  BY RevertInvStep
<1>3. RevertInv => EndedSessionsRevert
  BY DEF RevertInv
<1> QED
  BY <1>1, <1>2, <1>3, TypeCorrect, RouterCorrect, PTL DEF Spec

-----------------------------------------------------------------------------
(* Active sessions are captured *)

\* With clients that stay connected, no step of one process takes a peer of an
\* active session out of the router.
LEMMA CaptureStep ==
    ASSUME ~Disconnects, ~Restarts, TypeOK, RouterInv, ActiveSessionsCaptured,
           [Next]_vars
    PROVE  ActiveSessionsCaptured'
<1> USE DEF ActiveSessionsCaptured, RouterInv, PendingTasksAreCurrent, Route,
            IsRouting, IsUnrouting, Idle, TypeOK, Statuses
<1>1. ASSUME NEW h \in Handlers, NEW s \in Sessions, NEW list \in PeerLists,
             CreateCommit(h, s, list)
      PROVE  ActiveSessionsCaptured'
  BY <1>1 DEF CreateCommit, Routing
<1>2. ASSUME NEW h \in Handlers, CreateRoute(h)
      PROVE  ActiveSessionsCaptured'
  <2>1. task[h].session \in Sessions /\ task[h].peers \subseteq Peers
    BY <1>2, TaskFields DEF CreateRoute
  <2>2. status[task[h].session] = "active" => task[h].peers = claims[task[h].session]
    BY <1>2, <2>1 DEF CreateRoute
  <2> QED
    BY <1>2, <2>1, <2>2 DEF CreateRoute, AddSession, db
<1>3. ASSUME NEW h \in Handlers, NEW s \in Sessions, EndBegin(h, s)
      PROVE  ActiveSessionsCaptured'
  BY <1>3 DEF EndBegin, Ending, db
<1>4. ASSUME NEW h \in Handlers, EndCommit(h)
      PROVE  ActiveSessionsCaptured'
  <2>1. task[h].session \in Sessions
    BY <1>4, TaskFields DEF EndCommit
  <2> QED
    BY <1>4, <2>1 DEF EndCommit, Unrouting
<1>5. ASSUME NEW h \in Handlers, EndUnroute(h)
      PROVE  ActiveSessionsCaptured'
  <2>1. task[h].session \in Sessions
    BY <1>5, TaskFields DEF EndUnroute
  <2>2. status[task[h].session] # "active"
    BY <1>5, <2>1 DEF EndUnroute
  <2> QED
    BY <1>5, <2>1, <2>2 DEF EndUnroute, RemoveSession, db
<1>6. ASSUME NEW h \in Handlers, EndRefused(h)
      PROVE  ActiveSessionsCaptured'
  BY <1>6 DEF EndRefused, db
<1>7. CASE CleanupDelete
  BY <1>7 DEF CleanupDelete, Expired
<1>8. CASE CleanupBegin \/ CleanupFail \/ TimePasses
  BY <1>8 DEF CleanupBegin, CleanupFail, TimePasses, db
<1>9. CASE UNCHANGED vars
  BY <1>9 DEF vars
<1> QED
  BY <1>1, <1>2, <1>3, <1>4, <1>5, <1>6, <1>7, <1>8, <1>9
     DEF Next, HandlerStep, Disconnect, Restart

\* In one run of the process, with clients that stay connected, an active
\* session is routed for every peer it claims as soon as its create handler is
\* done: no create, end or cleanup of another session takes a peer away from it.
THEOREM ActiveCaptured ==
    ASSUME ~Disconnects, ~Restarts
    PROVE  Spec => []ActiveSessionsCaptured
<1>1. Init => ActiveSessionsCaptured
  BY DEF Init, ActiveSessionsCaptured
<1>2. TypeOK /\ RouterInv /\ ActiveSessionsCaptured /\ [Next]_vars
        => ActiveSessionsCaptured'
  BY CaptureStep
<1> QED
  BY <1>1, <1>2, TypeCorrect, RouterCorrect, PTL DEF Spec

-----------------------------------------------------------------------------
(* What a step may never do *)

\* The cleanup's clock never runs ahead of the wall clock, so the age it
\* computes for a session is at most its real age.
PurgeStampIsPast == purge.step = "deleting" => purge.stamp <= now

\* The clock does not go back, so no step lets the cleanup's cutoff overtake it.
LEMMA PurgeStampStep ==
    ASSUME TypeOK, PurgeStampIsPast, [Next]_vars
    PROVE  PurgeStampIsPast'
  BY DEF PurgeStampIsPast, TypeOK, Next, vars, db, HandlerStep, CreateCommit,
         CreateRoute, EndBegin, EndCommit, EndRefused, EndUnroute, Disconnect,
         CleanupBegin, CleanupDelete, CleanupFail, TimePasses, Restart, Deleting, Idle

\* The time a cleanup counts from is never later than the wall clock.
LEMMA PurgeStamp == Spec => []PurgeStampIsPast
<1>1. Init => PurgeStampIsPast
  BY DEF Init, PurgeStampIsPast, Idle
<1> QED
  BY <1>1, PurgeStampStep, TypeCorrect, PTL DEF Spec

\* The cleanup deletes a session only when more than the retention period has
\* passed since its recorded end, however long its DELETE was delayed.
THEOREM RetentionRespected == Spec => KeptForRetention
<1> DEFINE Kept == \A s \in Sessions :
                      status[s] # "deleted" /\ status'[s] = "deleted"
                        => now - endedAt[s] > Retention
<1>1. TypeOK /\ PurgeStampIsPast /\ [Next]_vars => [Kept]_vars
  <2> SUFFICES ASSUME TypeOK, PurgeStampIsPast, [Next]_vars,
                      NEW s \in Sessions, status[s] # "deleted", status'[s] = "deleted"
               PROVE  now - endedAt[s] > Retention
    OBVIOUS
  <2>1. CleanupDelete
    BY DEF TypeOK, Next, vars, db, HandlerStep, CreateCommit, CreateRoute, EndBegin,
           EndCommit, EndRefused, EndUnroute, Disconnect, CleanupBegin, CleanupFail,
           TimePasses, Restart
  <2>2. Expired(s) /\ purge.step = "deleting"
    BY <2>1 DEF CleanupDelete
  <2>3. purge.stamp \in Nat /\ purge.stamp <= now
    BY <2>2 DEF PurgeStampIsPast, TypeOK, Idle
  <2> QED
    BY <2>2, <2>3, ClockAssumption DEF Expired, TypeOK
<1> QED
  BY <1>1, TypeCorrect, PurgeStamp, PTL DEF Spec, KeptForRetention

\* A session's status moves forward only, and its end time is written once.
THEOREM StatusIsMonotone == Spec => StatusMovesForward
<1> DEFINE Forward == \A s \in Sessions :
          /\ <<status[s], status'[s]>> \in
                {<<"absent", "active">>, <<"active", "completed">>, <<"completed", "deleted">>}
                \cup {<<x, x>> : x \in Statuses}
          /\ endedAt'[s] # endedAt[s] => status[s] = "active" /\ status'[s] = "completed"
<1>1. TypeOK /\ [Next]_vars => [Forward]_vars
  <2> SUFFICES ASSUME TypeOK, [Next]_vars
               PROVE  Forward
    OBVIOUS
  <2> USE DEF TypeOK, Statuses
  <2>1. ASSUME NEW h \in Handlers, NEW s \in Sessions, NEW list \in PeerLists,
               CreateCommit(h, s, list)
        PROVE  Forward
    BY <2>1 DEF CreateCommit
  <2>2. ASSUME NEW h \in Handlers, EndCommit(h)
        PROVE  Forward
    <3>1. task[h].session \in Sessions
      BY <2>2, TaskFields DEF EndCommit, Idle
    <3> QED
      BY <2>2, <3>1 DEF EndCommit
  <2>3. CASE CleanupDelete
    BY <2>3 DEF CleanupDelete, Expired
  <2>4. CASE UNCHANGED db
    BY <2>4 DEF db
  <2> QED
    BY <2>1, <2>2, <2>3, <2>4
       DEF Next, vars, db, HandlerStep, CreateRoute, EndBegin, EndRefused, EndUnroute,
           Disconnect, CleanupBegin, CleanupFail, TimePasses, Restart
<1> QED
  BY <1>1, TypeCorrect, PTL DEF Spec, StatusMovesForward
=============================================================================
