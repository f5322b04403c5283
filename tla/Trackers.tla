------------------------------ MODULE Trackers ------------------------------
(***************************************************************************)
(* The two in-memory registries that OTLP exports feed, whatever the       *)
(* routing decision: the peers that report, and the HOPR sessions their    *)
(* spans mention, with the events that announce both to browsers.          *)
(*                                                                         *)
(* Exports run concurrently.  Each update reads the clock first, then      *)
(* waits for the registry's lock, writes, releases the lock, and sends the *)
(* event; these are separate actions.                                      *)
(***************************************************************************)
EXTENDS Attributes, Functions

CONSTANTS
    Peers,        \* peer ids
    HoprSessions, \* values of hopr.session.id
    Protocols,    \* values of hopr.session.protocol
    Resources,    \* attributes of the resources that report
    SpanLists,    \* attributes of the spans a request may carry, <<>> for metrics and logs
    HopModulus,   \* 2^32 in the code: hops are cast to u32
    Exports,      \* OTLP export requests
    MaxTime,      \* bound on the clock
    Restarts      \* may the process be restarted?

Spans == [session : HoprSessions \cup {Empty}, protocol : Protocols \cup {Empty},
          hops : Int, role : STRING]

\* Peers, sessions and protocols are those the requests mention.
ASSUME RequestsAssumption ==
    /\ \A resource \in Resources : PeerIds(resource) \subseteq Peers
    /\ \A spans \in SpanLists :
          spans \in Seq(Range(spans)) /\ \A i \in DOMAIN spans : SpanOf(spans[i]) \in Spans
    /\ Empty \notin HoprSessions
ASSUME NumbersAssumption == HopModulus \in Nat \ {0} /\ MaxTime \in Nat \ {0}
ASSUME RestartsAssumption == Restarts \in BOOLEAN

VARIABLES
    peers,      \* PeerTracker.peers: last_seen by peer, 0 for a peer not there
    sessions,   \* SessionTracker.sessions, Unseen for a session not there
    announced,  \* peer_seen and session_observed events sent by this process
    export,     \* where each request is
    now,        \* wall clock, from 1
    overlapped  \* history: updates that waited for an entry another waited for

vars == <<peers, sessions, announced, export, now, overlapped>>

-----------------------------------------------------------------------------
Unseen == [firstSeen |-> 0]

Unused == [step |-> "unused"]
Done == [step |-> "done"]
Steps == {"arrived", "recording", "announcingPeer", "reading", "updating", "announcingSession"}
Requests == [step : Steps, peer : Peers, spans : SpanLists, at : Nat,
             seen : Nat, stamp : Nat]

PeerSeen(p) == <<"peer_seen", p>>
SessionObserved(s) == <<"session_observed", s>>

\* What is not the entry or the exit is a relay.
RoleOf(name) == IF name \in {"entry", "exit"} THEN name ELSE "relay"

\* Mutant: the attribute as it came.
HopCount_Signed(hops) == hops
\* hops as u32.
HopCount(hops) == hops % HopModulus

Span(e) == SpanOf(export[e].spans[export[e].at])

\* The update request e is at: its report of the peer is the 0th.
Update(e) == <<e, export[e].at>>

\* The update of e begins to wait where those of the other requests wait already.
Joins(e, others) ==
    overlapped' = overlapped \cup
        (IF others = {} THEN {} ELSE {Update(g) : g \in others \cup {e}})

\* The request is at its next span, or through.
NextSpan(e) ==
    IF export[e].at = Len(export[e].spans) THEN Done
    ELSE [export[e] EXCEPT !.step = "reading", !.at = @ + 1]

Init ==
    /\ peers = [p \in Peers |-> 0]
    /\ sessions = [s \in HoprSessions |-> Unseen]
    /\ announced = {}
    /\ export = [e \in Exports |-> Unused]
    /\ now = 1
    /\ overlapped = {}

-----------------------------------------------------------------------------
(* PeerTracker::record_seen and its event *)

\* A resource that names no peer is passed over with all its spans.
ArriveUnnamed(e, resource) ==
    /\ export[e] = Unused
    /\ PeerIds(resource) = {}
    /\ export' = [export EXCEPT ![e] = Done]
    /\ UNCHANGED <<peers, sessions, announced, now, overlapped>>

Arrive(e, p, spans) ==
    /\ export[e] = Unused
    /\ export' = [export EXCEPT ![e] =
           [step |-> "arrived", peer |-> p, spans |-> spans, at |-> 0,
            seen |-> 0, stamp |-> 0]]
    /\ UNCHANGED <<peers, sessions, announced, now, overlapped>>

\* Utc::now(), before the lock is asked for.
StampPeer(e) ==
    /\ export[e].step = "arrived"
    /\ export' = [export EXCEPT ![e].step = "recording", ![e].seen = now]
    /\ Joins(e, {g \in Exports \ {e} :
                    export[g].step = "recording" /\ export[g].peer = export[e].peer})
    /\ UNCHANGED <<peers, sessions, announced, now>>

\* Mutant: or_insert without and_modify.
RecordPeer_InsertOnly(e) ==
    /\ export[e].step = "recording"
    /\ peers' = [peers EXCEPT ![export[e].peer] = IF @ = 0 THEN export[e].seen ELSE @]
    /\ export' = [export EXCEPT ![e].step = "announcingPeer"]
    /\ UNCHANGED <<sessions, announced, now, overlapped>>
\* Under the lock; the later writer wins, whichever clock reading it brings.
RecordPeer(e) ==
    /\ export[e].step = "recording"
    /\ peers' = [peers EXCEPT ![export[e].peer] = export[e].seen]
    /\ export' = [export EXCEPT ![e].step = "announcingPeer"]
    /\ UNCHANGED <<sessions, announced, now, overlapped>>

AnnouncePeer(e) ==
    /\ export[e].step = "announcingPeer"
    /\ announced' = announced \cup {PeerSeen(export[e].peer)}
    /\ export' = [export EXCEPT ![e] = NextSpan(e)]
    /\ UNCHANGED <<peers, sessions, now, overlapped>>

-----------------------------------------------------------------------------
(* SessionTracker::update_session and its event, for each span *)

\* A span without a session is passed over.
SkipSpan(e) ==
    /\ export[e].step = "reading"
    /\ Span(e).session = Empty
    /\ export' = [export EXCEPT ![e] = NextSpan(e)]
    /\ UNCHANGED <<peers, sessions, announced, now, overlapped>>

JoinsUpdates(e) ==
    Joins(e, {g \in Exports \ {e} :
                 export[g].step = "updating" /\ Span(g).session = Span(e).session})

\* Mutant: the event leaves before the registry is updated.
StampSession_Announces(e) ==
    /\ export[e].step = "reading"
    /\ Span(e).session # Empty
    /\ announced' = announced \cup {SessionObserved(Span(e).session)}
    /\ export' = [export EXCEPT ![e].step = "updating", ![e].stamp = now]
    /\ JoinsUpdates(e)
    /\ UNCHANGED <<peers, sessions, now>>
\* Mutant: one clock reading, that of the peer's report, for the whole request.
StampSession_OnceRead(e) ==
    /\ export[e].step = "reading"
    /\ Span(e).session # Empty
    /\ export' = [export EXCEPT ![e].step = "updating", ![e].stamp = export[e].seen]
    /\ JoinsUpdates(e)
    /\ UNCHANGED <<peers, sessions, announced, now>>
\* Utc::now(), before the lock is asked for.
StampSession(e) ==
    /\ export[e].step = "reading"
    /\ Span(e).session # Empty
    /\ export' = [export EXCEPT ![e].step = "updating", ![e].stamp = now]
    /\ JoinsUpdates(e)
    /\ UNCHANGED <<peers, sessions, announced, now>>

\* Mutant: a peer is looked up together with its role.
Merge_ByRole(participants, p, role) ==
    IF \E i \in DOMAIN participants : participants[i] = [peer |-> p, role |-> role]
    THEN participants
    ELSE Append(participants, [peer |-> p, role |-> role])
\* A peer that takes part already gets its role updated, another is added.
Merge(participants, p, role) ==
    IF \E i \in DOMAIN participants : participants[i].peer = p
    THEN [i \in DOMAIN participants |->
             IF participants[i].peer = p THEN [participants[i] EXCEPT !.role = role]
             ELSE participants[i]]
    ELSE Append(participants, [peer |-> p, role |-> role])

\* Mutant: and_modify replaces the participants.
Updated_Replaces(old, span, p, stamp) ==
    [firstSeen |-> IF old = Unseen THEN stamp ELSE old.firstSeen,
     lastSeen |-> stamp,
     protocol |-> IF old = Unseen THEN span.protocol ELSE old.protocol,
     hopCount |-> HopCount(span.hops),
     participants |-> <<[peer |-> p, role |-> RoleOf(span.role)]>>]
\* The entry after a span of peer p: and_modify, or or_insert_with.
Updated(old, span, p, stamp) ==
    IF old = Unseen
    THEN [firstSeen |-> stamp, lastSeen |-> stamp, protocol |-> span.protocol,
          hopCount |-> HopCount(span.hops),
          participants |-> <<[peer |-> p, role |-> RoleOf(span.role)]>>]
    ELSE [old EXCEPT !.lastSeen = stamp, !.hopCount = HopCount(span.hops),
                     !.participants = Merge(@, p, RoleOf(span.role))]

UpdateSession(e) ==
    /\ export[e].step = "updating"
    /\ sessions' = [sessions EXCEPT ![Span(e).session] =
           Updated(@, Span(e), export[e].peer, export[e].stamp)]
    /\ export' = [export EXCEPT ![e].step = "announcingSession"]
    /\ UNCHANGED <<peers, announced, now, overlapped>>

AnnounceSession(e) ==
    /\ export[e].step = "announcingSession"
    /\ announced' = announced \cup {SessionObserved(Span(e).session)}
    /\ export' = [export EXCEPT ![e] = NextSpan(e)]
    /\ UNCHANGED <<peers, sessions, now, overlapped>>

-----------------------------------------------------------------------------
\* The collector goes away while the request waits for the lock of a registry.  (While it
\* waits for the router it has no update under way: that leaves the same state.)
Cancelled(e) ==
    /\ export[e].step \in {"recording", "updating"}
    /\ export' = [export EXCEPT ![e] = Done]
    /\ UNCHANGED <<peers, sessions, announced, now, overlapped>>

TimePasses ==
    /\ now < MaxTime
    /\ now' = now + 1
    /\ UNCHANGED <<peers, sessions, announced, export, overlapped>>

\* Both registries and the event channel are memory.
Restart ==
    /\ Restarts
    /\ peers' = [p \in Peers |-> 0]
    /\ sessions' = [s \in HoprSessions |-> Unseen]
    /\ announced' = {}
    /\ export' = [e \in Exports |-> IF export[e] = Unused THEN Unused ELSE Done]
    /\ UNCHANGED <<now, overlapped>>

Next ==
    \/ \E e \in Exports :
          \/ \E resource \in Resources :
                \/ ArriveUnnamed(e, resource)
                \/ \E p \in PeerIds(resource), spans \in SpanLists : Arrive(e, p, spans)
          \/ StampPeer(e) \/ RecordPeer(e) \/ AnnouncePeer(e)
          \/ SkipSpan(e)
          \/ StampSession(e) \/ UpdateSession(e) \/ AnnounceSession(e)
          \/ Cancelled(e)
    \/ TimePasses
    \/ Restart

Spec == Init /\ [][Next]_vars

-----------------------------------------------------------------------------
(* What must hold *)

Observed(s) == sessions[s] # Unseen
Participants(s) == {sessions[s].participants[i].peer : i \in DOMAIN sessions[s].participants}

Participation == [peer : Peers, role : {"entry", "relay", "exit"}]
Entries == [firstSeen : Nat \ {0}, lastSeen : Nat \ {0}, protocol : Protocols \cup {Empty},
            hopCount : 0 .. HopModulus - 1, participants : Seq(Participation)]

\* Every variable keeps its type.
TypeOK ==
    /\ peers \in [Peers -> Nat]
    /\ sessions \in [HoprSessions -> {Unseen} \cup Entries]
    /\ announced \subseteq {PeerSeen(p) : p \in Peers} \cup {SessionObserved(s) : s \in HoprSessions}
    /\ export \in [Exports -> {Unused, Done} \cup Requests]
    /\ now \in Nat
    /\ overlapped \subseteq Exports \X Nat

\* An operator who follows a HOPR session to its peers finds each of them once,
\* and each in the peer registry, however their exports interleave.
ParticipantsAreTrackedOnce ==
    \A s \in HoprSessions : Observed(s) =>
        /\ \A p \in Participants(s) : peers[p] # 0
        /\ \A i, j \in DOMAIN sessions[s].participants :
              sessions[s].participants[i].peer = sessions[s].participants[j].peer => i = j

\* A browser that reacts to an event by fetching the registry finds what the
\* event announced.
EventsFollowState ==
    /\ \A p \in Peers : PeerSeen(p) \in announced => peers[p] # 0
    /\ \A s \in HoprSessions : SessionObserved(s) \in announced => Observed(s)

\* While one process runs, an observed session keeps what it was first seen
\* with and every peer that ever took part, whichever exports update it.
SessionsOnlyGrow ==
    [][\A s \in HoprSessions : Observed(s) /\ sessions'[s] # Unseen =>
          /\ sessions'[s].firstSeen = sessions[s].firstSeen
          /\ sessions'[s].protocol = sessions[s].protocol
          /\ Participants(s) \subseteq Participants(s)']_vars

\* An update that had its entry to itself while it waited shows there: the report
\* of a peer in last_seen until the request is through, that of a session between
\* first_seen and last_seen when its event leaves.  Nothing older replaces either,
\* whatever overlapped before or overlaps after.  (Of two updates that wait for
\* one entry together the older may come last.)
LastSeenIsCurrent ==
    \A e \in Exports :
        /\ export[e].step \in Steps \ {"arrived", "recording"} =>
              <<e, 0>> \in overlapped \/ peers[export[e].peer] >= export[e].seen
        /\ export[e].step = "announcingSession" =>
              \/ Update(e) \in overlapped
              \/ /\ sessions[Span(e).session].firstSeen <= export[e].stamp
                 /\ sessions[Span(e).session].lastSeen >= export[e].stamp
=============================================================================
