--------------------------- MODULE DebugSessions ---------------------------
(***************************************************************************)
(* The life of debug sessions: the HTTP handlers that create and end them, *)
(* the rows they leave in SQLite, the in-memory peer router that decides   *)
(* whose telemetry is kept, and the hourly cleanup.                        *)
(*                                                                         *)
(* A handler touches the database first and the router afterwards, with an *)
(* await between the two.  Each of those touches is one action, so that    *)
(* another handler, a closed connection, the cleanup or a restart can fall *)
(* between them.                                                           *)
(***************************************************************************)
EXTENDS Integers, Sequences, Functions

CONSTANTS
    Sessions,     \* the UUIDs that create_debug_session may draw
    Peers,        \* peer ids
    PeerLists,    \* the peer_ids arrays a client may post, duplicates included
    Handlers,     \* HTTP requests in flight at the same time
    Retention,    \* retention_hours, in units of the clock
    MaxTime,      \* bound on the clock
    Disconnects,  \* may a client go away while its handler is suspended?
    EarlyEnds,    \* may a session be ended before its create call returned?
    Restarts      \* may the process be restarted?

ASSUME PeerListsAssumption == PeerLists \subseteq Seq(Peers)
ASSUME ClockAssumption == Retention \in Nat /\ MaxTime \in Nat
ASSUME SwitchesAssumption ==
    Disconnects \in BOOLEAN /\ EarlyEnds \in BOOLEAN /\ Restarts \in BOOLEAN

VARIABLES
    status,   \* debug_sessions.status, "absent" before and "deleted" after
    endedAt,  \* debug_sessions.ended_at
    claims,   \* debug_session_peers, by session
    routes,   \* PeerRouter.routes
    task,     \* what each handler still has to do
    purge,    \* what the cleanup task still has to do
    now       \* wall clock; any unit that divides the retention period

db == <<status, endedAt, claims>>
vars == <<status, endedAt, claims, routes, task, purge, now>>

-----------------------------------------------------------------------------
Statuses == {"absent", "active", "completed", "deleted"}

\* What a handler or the cleanup is about to do when it is suspended.
Idle == [step |-> "idle"]
Routing(s, P) == [step |-> "routing", session |-> s, peers |-> P]
Ending(s) == [step |-> "ending", session |-> s, stamp |-> now]
Unrouting(s) == [step |-> "unrouting", session |-> s]
\* Mutant: the stamp is the cutoff, and retention is subtracted twice.
Deleting_Cutoff == [step |-> "deleting", stamp |-> now - Retention]
Deleting == [step |-> "deleting", stamp |-> now]

Tasks ==
    {Idle}
      \cup [step : {"routing"}, session : Sessions, peers : SUBSET Peers]
      \cup [step : {"ending"}, session : Sessions, stamp : Nat]
      \cup [step : {"unrouting"}, session : Sessions]

IsRouting(h, s) == task[h].step = "routing" /\ task[h].session = s
IsEnding(h, s) == task[h].step = "ending" /\ task[h].session = s
IsUnrouting(h, s) == task[h].step = "unrouting" /\ task[h].session = s

\* PeerRouter::route: the sessions that a record of peer p is enqueued for.
Route(p) == routes[p]

\* PeerRouter::add_session.
AddSession(s, P) ==
    routes' = [p \in Peers |-> IF p \in P THEN routes[p] \cup {s} ELSE routes[p]]

\* Mutant: the whole entry of a peer goes, as with HashMap::remove(peer_id).
RemoveSession_DropsPeer(s) ==
    routes' = [p \in Peers |-> IF s \in routes[p] THEN {} ELSE routes[p]]
\* Mutant: only the first entry found is cleaned up.
RemoveSession_FirstOnly(s) ==
    \/ /\ ~\E p \in Peers : s \in routes[p]
       /\ UNCHANGED routes
    \/ \E q \in Peers :
          /\ s \in routes[q]
          /\ routes' = [routes EXCEPT ![q] = @ \ {s}]
\* PeerRouter::remove_session.
RemoveSession(s) ==
    routes' = [p \in Peers |-> routes[p] \ {s}]

Init ==
    /\ status = [s \in Sessions |-> "absent"]
    /\ endedAt = [s \in Sessions |-> 0]
    /\ claims = [s \in Sessions |-> {}]
    /\ routes = [p \in Peers |-> {}]
    /\ task = [h \in Handlers |-> Idle]
    /\ purge = Idle
    /\ now = 0

-----------------------------------------------------------------------------
(* create_session *)

\* Mutant: the transaction is dropped instead of committed.
CreateCommit_RolledBack(h, s, list) ==
    /\ task[h] = Idle
    /\ status[s] = "absent"
    /\ IsInjective(list)
    /\ task' = [task EXCEPT ![h] = Routing(s, Range(list))]
    /\ UNCHANGED <<db, routes, purge, now>>
\* The transaction of create_debug_session.  A repeated peer id violates the
\* primary key of debug_session_peers and rolls everything back: such a call,
\* like one the database refuses, leaves no trace and is not a step.
CreateCommit(h, s, list) ==
    /\ task[h] = Idle
    /\ status[s] = "absent"
    /\ IsInjective(list)
    /\ status' = [status EXCEPT ![s] = "active"]
    /\ claims' = [claims EXCEPT ![s] = Range(list)]
    /\ task' = [task EXCEPT ![h] = Routing(s, Range(list))]
    /\ UNCHANGED <<endedAt, routes, purge, now>>

\* Mutant: the handler forgets to register the session.
CreateRoute_Missing(h) ==
    /\ task[h].step = "routing"
    /\ task' = [task EXCEPT ![h] = Idle]
    /\ UNCHANGED <<db, routes, purge, now>>
\* The router learns of the session after the commit.
CreateRoute(h) ==
    /\ task[h].step = "routing"
    /\ AddSession(task[h].session, task[h].peers)
    /\ task' = [task EXCEPT ![h] = Idle]
    /\ UNCHANGED <<db, purge, now>>

-----------------------------------------------------------------------------
(* end_session *)

\* The handler takes the time that will become ended_at, then waits for the
\* database.  Session ids are random, so only one that was listed is posted.
EndBegin(h, s) ==
    /\ task[h] = Idle
    /\ status[s] # "absent"
    /\ EarlyEnds \/ \A g \in Handlers : ~IsRouting(g, s)
    /\ task' = [task EXCEPT ![h] = Ending(s)]
    /\ UNCHANGED <<db, routes, purge, now>>

\* Mutant: UPDATE without AND status = 'active'.
EndCommit_AnyStatus(h) ==
    /\ task[h].step = "ending"
    /\ LET s == task[h].session
       IN  /\ status[s] # "deleted"
           /\ status' = [status EXCEPT ![s] = "completed"]
           /\ endedAt' = [endedAt EXCEPT ![s] = task[h].stamp]
           /\ task' = [task EXCEPT ![h] = Unrouting(s)]
    /\ UNCHANGED <<claims, routes, purge, now>>
\* UPDATE ... WHERE status = 'active' changed the row.
EndCommit(h) ==
    /\ task[h].step = "ending"
    /\ LET s == task[h].session
       IN  /\ status[s] = "active"
           /\ status' = [status EXCEPT ![s] = "completed"]
           /\ endedAt' = [endedAt EXCEPT ![s] = task[h].stamp]
           /\ task' = [task EXCEPT ![h] = Unrouting(s)]
    /\ UNCHANGED <<claims, routes, purge, now>>

\* The UPDATE changed no row (404), or the database refused it (500).
EndRefused(h) ==
    /\ task[h].step = "ending"
    /\ task' = [task EXCEPT ![h] = Idle]
    /\ UNCHANGED <<db, routes, purge, now>>

\* Mutant: the handler forgets the router.
EndUnroute_Missing(h) ==
    /\ task[h].step = "unrouting"
    /\ task' = [task EXCEPT ![h] = Idle]
    /\ UNCHANGED <<db, routes, purge, now>>
EndUnroute(h) ==
    /\ task[h].step = "unrouting"
    /\ RemoveSession(task[h].session)
    /\ task' = [task EXCEPT ![h] = Idle]
    /\ UNCHANGED <<db, purge, now>>

\* The server drops the future of a handler whose client closed its connection:
\* whatever the handler still had to do is not done.
Disconnect(h) ==
    /\ Disconnects
    /\ task[h] # Idle
    /\ task' = [task EXCEPT ![h] = Idle]
    /\ UNCHANGED <<db, routes, purge, now>>

-----------------------------------------------------------------------------
(* cleanup, the clock, restarts *)

\* The cutoff is computed from the clock before the DELETE gets a connection.
CleanupBegin ==
    /\ purge = Idle
    /\ purge' = Deleting
    /\ UNCHANGED <<db, routes, task, now>>

\* Mutant: ended_at <= cutoff.
Expired_Inclusive(s) ==
    /\ status[s] = "completed"
    /\ endedAt[s] <= purge.stamp - Retention
Expired(s) ==
    /\ status[s] = "completed"
    /\ endedAt[s] < purge.stamp - Retention

\* Deleting a session deletes its peers (ON DELETE CASCADE).
CleanupDelete ==
    /\ purge.step = "deleting"
    /\ status' = [s \in Sessions |-> IF Expired(s) THEN "deleted" ELSE status[s]]
    /\ claims' = [s \in Sessions |-> IF Expired(s) THEN {} ELSE claims[s]]
    /\ purge' = Idle
    /\ UNCHANGED <<endedAt, routes, task, now>>

\* A failed DELETE is logged; the next tick of the cleanup tries again.
CleanupFail ==
    /\ purge.step = "deleting"
    /\ purge' = Idle
    /\ UNCHANGED <<db, routes, task, now>>

TimePasses ==
    /\ now < MaxTime
    /\ now' = now + 1
    /\ UNCHANGED <<db, routes, task, purge>>

\* A new process finds the database as it was left and starts from
\* PeerRouter::new(): nothing reads the active sessions back into the router.
Restart ==
    /\ Restarts
    /\ routes' = [p \in Peers |-> {}]
    /\ task' = [h \in Handlers |-> Idle]
    /\ purge' = Idle
    /\ UNCHANGED <<db, now>>

-----------------------------------------------------------------------------
HandlerStep(h) ==
    \/ CreateRoute(h)
    \/ EndCommit(h)
    \/ EndRefused(h)
    \/ EndUnroute(h)

Next ==
    \/ \E h \in Handlers :
          \/ \E s \in Sessions : \E list \in PeerLists : CreateCommit(h, s, list)
          \/ \E s \in Sessions : EndBegin(h, s)
          \/ HandlerStep(h)
          \/ Disconnect(h)
    \/ CleanupBegin
    \/ CleanupDelete
    \/ CleanupFail
    \/ TimePasses
    \/ Restart

Spec == Init /\ [][Next]_vars

\* Tokio keeps polling a handler whose connection is open and whose await is
\* ready, so a handler that stays able to take its next step takes it.
FairSpec == Spec /\ \A h \in Handlers : WF_vars(HandlerStep(h))

-----------------------------------------------------------------------------
(* What must hold *)

IsRouted(s) == \E p \in Peers : s \in Route(p)

\* Every variable keeps its type.
TypeOK ==
    /\ status \in [Sessions -> Statuses]
    /\ endedAt \in [Sessions -> Nat]
    /\ claims \in [Sessions -> SUBSET Peers]
    /\ routes \in [Peers -> SUBSET Sessions]
    /\ task \in [Handlers -> Tasks]
    /\ purge \in {Idle} \cup [step : {"deleting"}, stamp : Nat]
    /\ now \in Nat

\* Telemetry is kept only for a session that was committed, and as long as its
\* row exists only for the peers that row claims: a create that rolled back, or
\* one still in its transaction, never makes the router retain anything.
RoutesMatchClaims ==
    \A p \in Peers : \A s \in Route(p) :
        /\ status[s] # "absent"
        /\ status[s] # "deleted" => p \in claims[s]

\* However many clients end the same session at once, one of them is told it
\* ended it and goes on to the router; the others get 404.
OneEndWins ==
    \A s \in Sessions : \A g, h \in Handlers :
        IsUnrouting(g, s) /\ IsUnrouting(h, s) => g = h

\* Peers revert to discard mode when the session ends: once it is no longer
\* active the router holds it only while the handler that ended it is on its
\* way to remove it.
EndedSessionsRevert ==
    \A s \in Sessions :
        status[s] \in {"completed", "deleted"} /\ IsRouted(s)
            => \E h \in Handlers : IsUnrouting(h, s)

\* The telemetry of every peer an active session claims is retained for it,
\* from the moment its create handler reached the router, whatever sessions on
\* the same peers are created, ended or purged meanwhile.
ActiveSessionsCaptured ==
    \A s \in Sessions :
        status[s] = "active"
            => \/ \A p \in claims[s] : s \in Route(p)
               \/ \E h \in Handlers : IsRouting(h, s)

\* A session's status only moves forward, one stage at a time, and the end
\* time that retention is counted from is written once, by the step that
\* completes the session.
StatusMovesForward ==
    [][\A s \in Sessions :
          /\ <<status[s], status'[s]>> \in
                {<<"absent", "active">>, <<"active", "completed">>, <<"completed", "deleted">>}
                \cup {<<x, x>> : x \in Statuses}
          /\ endedAt'[s] # endedAt[s] => status[s] = "active" /\ status'[s] = "completed"]_vars

\* Session data remains queryable after the end until the retention period has
\* passed, even when the cleanup is delayed between its clock and its DELETE.
KeptForRetention ==
    [][\A s \in Sessions :
          status[s] # "deleted" /\ status'[s] = "deleted" => now - endedAt[s] > Retention]_vars

\* The peers of an ended session do revert, provided no client disconnects and
\* no session is ended before its create call returned.
EndedSessionsEventuallyRevert ==
    \A s \in Sessions : status[s] = "completed" ~> ~IsRouted(s)

\* An active session starts to be captured for all its peers, or is ended first.
ActiveSessionsEventuallyCaptured ==
    \A s \in Sessions :
        status[s] = "active" ~> (status[s] # "active" \/ \A p \in claims[s] : s \in Route(p))
=============================================================================
