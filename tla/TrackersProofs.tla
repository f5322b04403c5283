--------------------------- MODULE TrackersProofs ---------------------------
(***************************************************************************)
(* Proofs about the two registries, for any peers, sessions, requests and  *)
(* attributes, and any interleaving of exports, cancellations and restarts. *)
(***************************************************************************)
EXTENDS Trackers, SequenceTheorems, TLAPS

\* Where a request that was stamped, or recorded, or is at a span, stands.
Recorded == Steps \ {"arrived", "recording"}
AtSpan == {"reading", "updating", "announcingSession"}
Updating == {"updating", "announcingSession"}

\* What a request carries once it has come so far.
RequestInOrder(e) ==
    /\ export[e].step \in {"arrived", "recording", "announcingPeer"} => export[e].at = 0
    /\ export[e].step = "recording" => export[e].seen # 0
    /\ export[e].step \in AtSpan => export[e].at \in DOMAIN export[e].spans
    /\ export[e].step = "updating" => export[e].stamp # 0
    /\ export[e].step \in {"updating", "announcingSession"} => Span(e).session # Empty

RequestsInOrder == \A e \in Exports : RequestInOrder(e)

TypeInv == TypeOK /\ now # 0 /\ RequestsInOrder

\* A request that was recorded has its peer in the registry, and one that is to
\* announce a session has it in the other.
RecordedIsTracked ==
    \A e \in Exports :
        /\ export[e].step \in Recorded => peers[export[e].peer] # 0
        /\ export[e].step = "announcingSession" => Observed(Span(e).session)

\* No clock reading is ahead of the clock.
StampsArePast ==
    /\ \A p \in Peers : peers[p] <= now
    /\ \A s \in HoprSessions : Observed(s) => sessions[s].firstSeen <= now
    /\ \A e \in Exports :
          /\ export[e].step \in Steps \ {"arrived"} => export[e].seen <= now
          /\ export[e].step \in Updating => export[e].stamp <= now

\* Two reports of a peer that wait for the lock both overlapped, and one that waits
\* is not older than one that has had the lock, unless that one overlapped.
ReportsTakeTurns ==
    \A e, g \in Exports :
        /\ e # g
        /\ export[e].step = "recording"
        /\ export[g].step \in Steps
        /\ export[g].peer = export[e].peer
        => /\ export[g].step = "recording" => <<e, 0>> \in overlapped /\ <<g, 0>> \in overlapped
           /\ export[g].step \in Recorded =>
                 <<g, 0>> \in overlapped \/ export[g].seen <= export[e].seen

\* The same of two updates of a session.
UpdatesTakeTurns ==
    \A e, g \in Exports :
        /\ e # g
        /\ export[e].step = "updating"
        /\ export[g].step \in Updating
        /\ Span(g).session = Span(e).session
        => /\ export[g].step = "updating" => Update(e) \in overlapped /\ Update(g) \in overlapped
           /\ export[g].step = "announcingSession" =>
                 Update(g) \in overlapped \/ export[g].stamp <= export[e].stamp

\* The session of an update was not first seen after it, unless it overlapped.
FirstSeenFirst ==
    \A e \in Exports :
        export[e].step \in Updating /\ Observed(Span(e).session) =>
            \/ Update(e) \in overlapped
            \/ sessions[Span(e).session].firstSeen <= export[e].stamp

-----------------------------------------------------------------------------
(* Lemmas about the operators *)

\* A request that is at one of its steps is a request record.
LEMMA AtAStep ==
    ASSUME TypeOK, NEW e \in Exports, export[e].step \in Steps
    PROVE  export[e] \in Requests
BY DEF TypeOK, Unused, Done, Steps

\* The attributes of a span read as a span of the declared kinds.
LEMMA SpanIsTyped ==
    ASSUME TypeInv, NEW e \in Exports, export[e].step \in AtSpan
    PROVE  /\ Span(e) \in Spans
           /\ Span(e).session # Empty => Span(e).session \in HoprSessions
<1>1. export[e] \in Requests
  BY AtAStep DEF TypeInv, AtSpan, Steps
<1>2. export[e].spans \in SpanLists /\ export[e].at \in DOMAIN export[e].spans
  BY <1>1 DEF TypeInv, RequestsInOrder, RequestInOrder, Requests
<1>3. Span(e) \in Spans
  BY <1>2, RequestsAssumption DEF Span
<1> QED
  BY <1>3 DEF Spans

\* The next span of a request is one it has, or the request is through.
LEMMA NextSpanIsTyped ==
    ASSUME TypeInv, NEW e \in Exports, export[e].step \in Steps,
           export[e].step \in {"announcingPeer"} \cup AtSpan
    PROVE  \/ NextSpan(e) = Done
           \/ /\ NextSpan(e) \in Requests
              /\ NextSpan(e).step = "reading"
              /\ NextSpan(e).peer = export[e].peer
              /\ NextSpan(e).seen = export[e].seen
              /\ NextSpan(e).at \in DOMAIN NextSpan(e).spans
<1>1. export[e] \in Requests
  BY AtAStep DEF TypeInv
<1>2. export[e].spans \in Seq(Range(export[e].spans)) /\ export[e].at \in Nat
  BY <1>1, RequestsAssumption DEF Requests
<1>3. Len(export[e].spans) \in Nat /\ DOMAIN export[e].spans = 1 .. Len(export[e].spans)
  BY <1>2, LenProperties
<1>4. export[e].at = 0 \/ export[e].at \in 1 .. Len(export[e].spans)
  BY <1>3 DEF TypeInv, RequestsInOrder, RequestInOrder
<1>5. CASE export[e].at # Len(export[e].spans)
  <2>1. export[e].at + 1 \in 1 .. Len(export[e].spans)
    BY <1>2, <1>3, <1>4, <1>5
  <2>2. NextSpan(e) = [export[e] EXCEPT !.step = "reading", !.at = @ + 1]
    BY <1>5 DEF NextSpan
  <2>3. NextSpan(e) = [step |-> "reading", peer |-> export[e].peer, spans |-> export[e].spans,
                       at |-> export[e].at + 1, seen |-> export[e].seen,
                       stamp |-> export[e].stamp]
    BY <1>1, <2>2 DEF Requests
  <2> QED
    BY <1>1, <1>2, <1>3, <2>1, <2>3 DEF Requests, Steps
<1> QED
  BY <1>5 DEF NextSpan

\* The updates that come to overlap are updates of requests.
LEMMA JoinsAreTyped ==
    ASSUME TypeOK, NEW e \in Exports, export[e].step \in Steps,
           NEW others, \A g \in others : g \in Exports /\ export[g].step \in Steps,
           Joins(e, others)
    PROVE  overlapped' \subseteq Exports \X Nat
<1>1. \A g \in others \cup {e} : Update(g) \in Exports \X Nat
  BY AtAStep DEF Update, Requests
<1> QED
  BY <1>1 DEF Joins, TypeOK

\* All that wait together overlap.
LEMMA JoinsMark ==
    ASSUME NEW e, NEW others, NEW g \in others, Joins(e, others)
    PROVE  Update(e) \in overlapped' /\ Update(g) \in overlapped'
BY DEF Joins

\* A step that moves one request leaves the others where they are.
OnlyMoves(e) ==
    /\ export' \in [Exports -> {Unused, Done} \cup Requests]
    /\ \A g \in Exports \ {e} : export'[g] = export[g]

\* What a step within a span or a report keeps of its request.
SameReport(e) ==
    /\ export[e] \in Requests /\ export'[e] \in Requests
    /\ export'[e].peer = export[e].peer
    /\ export'[e].spans = export[e].spans
    /\ export'[e].at = export[e].at

\* The clock of the peer's entry is read, and nothing else changes.
LEMMA StampPeerMoves ==
    ASSUME TypeInv, NEW e \in Exports, StampPeer(e)
    PROVE  /\ OnlyMoves(e) /\ SameReport(e)
           /\ export'[e].step = "recording" /\ export'[e].seen = now
<1>1. export[e] \in Requests /\ now \in Nat /\ export \in [Exports -> {Unused, Done} \cup Requests]
  BY AtAStep DEF TypeInv, TypeOK, StampPeer, Steps
<1> QED
  BY <1>1 DEF StampPeer, Requests, Steps, OnlyMoves, SameReport

\* The peer's entry gets the time that was read for it.
LEMMA RecordPeerMoves ==
    ASSUME TypeInv, NEW e \in Exports, RecordPeer(e)
    PROVE  /\ OnlyMoves(e) /\ SameReport(e)
           /\ export'[e].step = "announcingPeer" /\ export'[e].seen = export[e].seen
           /\ peers' \in [Peers -> Nat]
           /\ peers'[export[e].peer] = export[e].seen
           /\ \A p \in Peers \ {export[e].peer} : peers'[p] = peers[p]
<1>1. /\ export[e] \in Requests /\ export \in [Exports -> {Unused, Done} \cup Requests]
      /\ peers \in [Peers -> Nat]
  BY AtAStep DEF TypeInv, TypeOK, RecordPeer, Steps
<1> QED
  BY <1>1 DEF RecordPeer, Requests, Steps, OnlyMoves, SameReport

\* The clock of the session's entry is read, and nothing else changes.
LEMMA StampSessionMoves ==
    ASSUME TypeInv, NEW e \in Exports, StampSession(e)
    PROVE  /\ OnlyMoves(e) /\ SameReport(e)
           /\ export'[e].step = "updating" /\ export'[e].seen = export[e].seen
           /\ export'[e].stamp = now
<1>1. export[e] \in Requests /\ now \in Nat /\ export \in [Exports -> {Unused, Done} \cup Requests]
  BY AtAStep DEF TypeInv, TypeOK, StampSession, Steps
<1> QED
  BY <1>1 DEF StampSession, Requests, Steps, OnlyMoves, SameReport

\* A request goes on to announce the session it updated.
LEMMA UpdateSessionMoves ==
    ASSUME TypeInv, NEW e \in Exports, UpdateSession(e)
    PROVE  /\ OnlyMoves(e) /\ SameReport(e)
           /\ export'[e].step = "announcingSession" /\ export'[e].seen = export[e].seen
           /\ export'[e].stamp = export[e].stamp
<1>1. export[e] \in Requests /\ export \in [Exports -> {Unused, Done} \cup Requests]
  BY AtAStep DEF TypeInv, TypeOK, UpdateSession, Steps
<1> QED
  BY <1>1 DEF UpdateSession, Requests, Steps, OnlyMoves, SameReport

\* A request goes on to its next span, or is done after the last.
LEMMA NextSpanMoves ==
    ASSUME TypeInv, NEW e \in Exports, AnnouncePeer(e) \/ SkipSpan(e) \/ AnnounceSession(e)
    PROVE  /\ OnlyMoves(e) /\ export[e] \in Requests
           /\ \/ export'[e] = Done
              \/ /\ export'[e] \in Requests
                 /\ export'[e].step = "reading"
                 /\ export'[e].peer = export[e].peer
                 /\ export'[e].seen = export[e].seen
                 /\ export'[e].at \in DOMAIN export'[e].spans
<1>1. /\ export[e].step \in Steps /\ export[e].step \in {"announcingPeer"} \cup AtSpan
      /\ export' = [export EXCEPT ![e] = NextSpan(e)]
  BY DEF AnnouncePeer, SkipSpan, AnnounceSession, Steps, AtSpan
<1>2. export[e] \in Requests /\ export \in [Exports -> {Unused, Done} \cup Requests]
  BY <1>1, AtAStep DEF TypeInv, TypeOK
<1>3. export'[e] = NextSpan(e)
  BY <1>1, <1>2
<1>4. NextSpan(e) \in {Unused, Done} \cup Requests
  BY <1>1, NextSpanIsTyped
<1> QED
  BY <1>1, <1>2, <1>3, <1>4, NextSpanIsTyped DEF OnlyMoves

\* A request that is cut short does nothing more.
LEMMA CancelledMoves ==
    ASSUME TypeInv, NEW e \in Exports, Cancelled(e)
    PROVE  OnlyMoves(e) /\ export'[e] = Done
BY DEF TypeInv, TypeOK, Cancelled, OnlyMoves

\* A request starts before its first span.
LEMMA ArriveMoves ==
    ASSUME TypeInv, NEW e \in Exports, NEW p \in Peers, NEW spans \in SpanLists, Arrive(e, p, spans)
    PROVE  /\ OnlyMoves(e) /\ export'[e] \in Requests
           /\ export'[e].step = "arrived" /\ export'[e].at = 0
BY DEF TypeInv, TypeOK, Arrive, OnlyMoves, Requests, Steps

-----------------------------------------------------------------------------
(* Lemmas about the entry of a session *)

Roles == {"entry", "relay", "exit"}
PeersOf(participants) == {participants[i].peer : i \in DOMAIN participants}
Once(participants) ==
    \A i, j \in DOMAIN participants : participants[i].peer = participants[j].peer => i = j

\* Merging a peer into participants that are listed once each leaves them listed
\* once, and adds that peer and no other.
LEMMA MergeAddsPeer ==
    ASSUME NEW participants \in Seq(Participation), NEW p \in Peers, NEW role \in Roles
    PROVE  /\ Merge(participants, p, role) \in Seq(Participation)
           /\ PeersOf(Merge(participants, p, role)) = PeersOf(participants) \cup {p}
           /\ Once(participants) => Once(Merge(participants, p, role))
<1> DEFINE merged == Merge(participants, p, role)
<1>1. /\ Len(participants) \in Nat
      /\ DOMAIN participants = 1 .. Len(participants)
      /\ \A i \in 1 .. Len(participants) : participants[i] \in Participation
  BY ElementOfSeq, LenProperties
<1>2. CASE \E i \in DOMAIN participants : participants[i].peer = p
  <2>1. merged = [i \in DOMAIN participants |->
                     IF participants[i].peer = p THEN [participants[i] EXCEPT !.role = role]
                     ELSE participants[i]]
    BY <1>2 DEF Merge
  <2>2. /\ DOMAIN merged = DOMAIN participants
        /\ \A i \in DOMAIN participants :
              merged[i] \in Participation /\ merged[i].peer = participants[i].peer
    BY <1>1, <2>1 DEF Participation, Roles
  <2>3. merged \in [1 .. Len(participants) -> Participation]
    BY <1>1, <2>1, <2>2
  <2>4. merged \in Seq(Participation)
    BY <1>1, <2>3, IsASeq
  <2>5. PeersOf(merged) = PeersOf(participants) /\ p \in PeersOf(participants)
    BY <1>2, <2>2 DEF PeersOf
  <2>6. Once(participants) => Once(merged)
    BY <2>2 DEF Once
  <2> QED
    BY <2>4, <2>5, <2>6
<1>3. CASE ~ \E i \in DOMAIN participants : participants[i].peer = p
  <2> DEFINE new == [peer |-> p, role |-> role]
  <2>1. merged = Append(participants, new)
    BY <1>3 DEF Merge
  <2>2. new \in Participation
    BY DEF Participation, Roles
  <2>3. /\ merged \in Seq(Participation)
        /\ Len(merged) = Len(participants) + 1
        /\ \A i \in 1 .. Len(participants) : merged[i] = participants[i]
        /\ merged[Len(participants) + 1] = new
    BY <2>1, <2>2, AppendProperties
  <2>4. DOMAIN merged = 1 .. Len(participants) + 1
    BY <2>3, LenProperties
  <2>5. \A i \in 1 .. Len(participants) + 1 :
           i \in 1 .. Len(participants) \/ i = Len(participants) + 1
    BY <1>1
  <2>6. PeersOf(merged) = PeersOf(participants) \cup {p}
    <3>1. \A x : x \in PeersOf(merged) => x \in PeersOf(participants) \cup {p}
      BY <1>1, <2>3, <2>4, <2>5 DEF PeersOf
    <3>2. \A x : x \in PeersOf(participants) => x \in PeersOf(merged)
      BY <1>1, <2>3, <2>4 DEF PeersOf
    <3>3. p \in PeersOf(merged)
      BY <1>1, <2>3, <2>4 DEF PeersOf
    <3> QED
      BY <3>1, <3>2, <3>3
  <2>7. ASSUME Once(participants), NEW i \in DOMAIN merged, NEW j \in DOMAIN merged,
               merged[i].peer = merged[j].peer
        PROVE  i = j
    BY <1>1, <1>3, <2>3, <2>4, <2>5, <2>7 DEF Once
  <2> QED
    BY <2>3, <2>6, <2>7 DEF Once
<1> QED
  BY <1>2, <1>3

\* What an update leaves: an entry of the type, with the peers there were and
\* the peer of the span, each once, first seen when it was first seen.
LEMMA UpdatedIsEntry ==
    ASSUME NEW old \in {Unseen} \cup Entries, NEW span \in Spans, NEW p \in Peers,
           NEW stamp \in Nat, stamp # 0
    PROVE  /\ Updated(old, span, p, stamp) \in Entries
           /\ old = Unseen =>
                 /\ PeersOf(Updated(old, span, p, stamp).participants) = {p}
                 /\ Once(Updated(old, span, p, stamp).participants)
           /\ old # Unseen =>
                 /\ PeersOf(Updated(old, span, p, stamp).participants) =
                        PeersOf(old.participants) \cup {p}
                 /\ Once(old.participants) => Once(Updated(old, span, p, stamp).participants)
                 /\ Updated(old, span, p, stamp).firstSeen = old.firstSeen
                 /\ Updated(old, span, p, stamp).protocol = old.protocol
<1> DEFINE role == RoleOf(span.role)
           hops == HopCount(span.hops)
<1>1. role \in Roles
  BY DEF RoleOf, Roles
<1>2. hops \in 0 .. HopModulus - 1
  BY NumbersAssumption DEF HopCount, Spans
<1>3. span.protocol \in Protocols \cup {Empty}
  BY DEF Spans
<1>4. CASE old = Unseen
  <2> DEFINE first == [firstSeen |-> stamp, lastSeen |-> stamp, protocol |-> span.protocol,
                       hopCount |-> hops, participants |-> <<[peer |-> p, role |-> role]>>]
  <2>1. Updated(old, span, p, stamp) = first
    BY <1>4 DEF Updated
  <2>2. <<[peer |-> p, role |-> role]>> \in Seq(Participation)
    BY <1>1 DEF Participation, Roles
  <2>3. PeersOf(<<[peer |-> p, role |-> role]>>) = {p} /\ Once(<<[peer |-> p, role |-> role]>>)
    BY DEF PeersOf, Once
  <2>4. first \in Entries
    BY <1>2, <1>3, <2>2 DEF Entries
  <2> QED
    BY <1>4, <2>1, <2>3, <2>4
<1>5. CASE old # Unseen
  <2>1. old \in Entries
    BY <1>5
  <2> DEFINE merged == Merge(old.participants, p, role)
  <2>2. /\ merged \in Seq(Participation)
        /\ PeersOf(merged) = PeersOf(old.participants) \cup {p}
        /\ Once(old.participants) => Once(merged)
    BY <1>1, <2>1, MergeAddsPeer DEF Entries
  <2>3. Updated(old, span, p, stamp) =
           [old EXCEPT !.lastSeen = stamp, !.hopCount = hops, !.participants = merged]
    BY <1>5 DEF Updated
  <2>4. Updated(old, span, p, stamp) =
           [firstSeen |-> old.firstSeen, lastSeen |-> stamp, protocol |-> old.protocol,
            hopCount |-> hops, participants |-> merged]
    BY <2>1, <2>3 DEF Entries
  <2> HIDE DEF merged, hops, role
  <2>5. Updated(old, span, p, stamp) \in Entries
    BY <1>2, <2>1, <2>2, <2>4 DEF Entries
  <2> QED
    BY <1>5, <2>2, <2>4, <2>5
<1> QED
  BY <1>4, <1>5

\* The session of the span, and no other, gets the entry of the span.
LEMMA UpdateSessionUpdates ==
    ASSUME TypeInv, NEW e \in Exports, UpdateSession(e)
    PROVE  /\ export[e].peer \in Peers
           /\ Span(e) \in Spans /\ Span(e).session \in HoprSessions
           /\ export[e].stamp \in Nat /\ export[e].stamp # 0
           /\ sessions' \in [HoprSessions -> {Unseen} \cup Entries]
           /\ sessions'[Span(e).session] =
                  Updated(sessions[Span(e).session], Span(e), export[e].peer, export[e].stamp)
           /\ \A s \in HoprSessions \ {Span(e).session} : sessions'[s] = sessions[s]
<1>1. export[e].step = "updating"
  BY DEF UpdateSession
<1>2. export[e] \in Requests
  BY <1>1, AtAStep DEF TypeInv, Steps
<1>3. export[e].peer \in Peers /\ export[e].stamp \in Nat
  BY <1>2 DEF Requests
<1>4. export[e].stamp # 0 /\ Span(e).session # Empty
  BY <1>1 DEF TypeInv, RequestsInOrder, RequestInOrder
<1>5. Span(e) \in Spans /\ Span(e).session \in HoprSessions
  BY <1>1, <1>4, SpanIsTyped DEF AtSpan
<1>6. sessions \in [HoprSessions -> {Unseen} \cup Entries]
  BY DEF TypeInv, TypeOK
<1>7. Updated(sessions[Span(e).session], Span(e), export[e].peer, export[e].stamp) \in Entries
  BY <1>3, <1>4, <1>5, <1>6, UpdatedIsEntry
<1>8. sessions' = [sessions EXCEPT ![Span(e).session] =
           Updated(sessions[Span(e).session], Span(e), export[e].peer, export[e].stamp)]
  BY DEF UpdateSession
<1> QED
  BY <1>3, <1>4, <1>5, <1>6, <1>7, <1>8

\* What an update does to its session: an entry with the peers there were and the
\* peer of the request, each once, first seen when it was first seen.
LEMMA UpdateSessionEntry ==
    ASSUME TypeInv, NEW e \in Exports, UpdateSession(e), NEW s, s = Span(e).session
    PROVE  /\ sessions'[s] \in Entries
           /\ sessions[s] = Unseen =>
                 /\ PeersOf(sessions'[s].participants) = {export[e].peer}
                 /\ Once(sessions'[s].participants)
           /\ sessions[s] # Unseen =>
                 /\ PeersOf(sessions'[s].participants) =
                        PeersOf(sessions[s].participants) \cup {export[e].peer}
                 /\ Once(sessions[s].participants) => Once(sessions'[s].participants)
                 /\ sessions'[s].firstSeen = sessions[s].firstSeen
                 /\ sessions'[s].protocol = sessions[s].protocol
<1> DEFINE old == sessions[s]
           span == Span(e)
           p == export[e].peer
           stamp == export[e].stamp
<1>1. /\ s \in HoprSessions /\ p \in Peers /\ span \in Spans
      /\ stamp \in Nat /\ stamp # 0
      /\ sessions'[s] = Updated(old, span, p, stamp)
  BY UpdateSessionUpdates
<1>2. old \in {Unseen} \cup Entries
  BY <1>1 DEF TypeInv, TypeOK
<1> HIDE DEF old, span, p, stamp
<1> DEFINE new == Updated(old, span, p, stamp)
<1>3. /\ new \in Entries
      /\ old = Unseen => PeersOf(new.participants) = {p} /\ Once(new.participants)
      /\ old # Unseen =>
            /\ PeersOf(new.participants) = PeersOf(old.participants) \cup {p}
            /\ Once(old.participants) => Once(new.participants)
            /\ new.firstSeen = old.firstSeen
            /\ new.protocol = old.protocol
  BY <1>1, <1>2, UpdatedIsEntry
<1>4. sessions'[s] = new
  BY <1>1
<1> HIDE DEF new
<1> QED
  BY <1>3, <1>4 DEF old, p

\* An observed session has an entry.
LEMMA ObservedIsEntry ==
    ASSUME TypeOK, NEW s \in HoprSessions
    PROVE  Observed(s) <=> sessions[s] \in Entries
<1>1. Unseen \notin Entries
  BY DEF Unseen, Entries
<1> QED
  BY <1>1 DEF TypeOK, Observed

-----------------------------------------------------------------------------
(* Types *)

\* When one request moves, only its own order is at stake.
LEMMA OneRequestInOrder ==
    ASSUME RequestsInOrder, NEW e \in Exports, OnlyMoves(e), RequestInOrder(e)'
    PROVE  RequestsInOrder'
<1> SUFFICES ASSUME NEW g \in Exports, g # e PROVE RequestInOrder(g)'
  BY DEF RequestsInOrder
<1>1. export'[g] = export[g]
  BY DEF OnlyMoves
<1> QED
  BY <1>1 DEF RequestsInOrder, RequestInOrder, Span

\* Every step keeps the types and the order of a request.
LEMMA TypeStep ==
    ASSUME TypeInv, [Next]_vars
    PROVE  TypeInv'
<1> USE DEF TypeInv
<1>1. ASSUME NEW e \in Exports, NEW resource \in Resources, ArriveUnnamed(e, resource)
      PROVE  TypeInv'
  <2>1. OnlyMoves(e) /\ export'[e] = Done
    BY <1>1 DEF TypeOK, ArriveUnnamed, OnlyMoves
  <2>2. RequestInOrder(e)'
    BY <2>1 DEF RequestInOrder, Done, AtSpan
  <2> QED
    BY <1>1, <2>1, <2>2, OneRequestInOrder DEF TypeOK, ArriveUnnamed, OnlyMoves
<1>2. ASSUME NEW e \in Exports, NEW p \in Peers, NEW spans \in SpanLists, Arrive(e, p, spans)
      PROVE  TypeInv'
  <2>1. OnlyMoves(e) /\ export'[e].step = "arrived" /\ export'[e].at = 0
    BY <1>2, ArriveMoves
  <2>2. RequestInOrder(e)'
    BY <2>1 DEF RequestInOrder, AtSpan
  <2> QED
    BY <1>2, <2>1, <2>2, OneRequestInOrder DEF TypeOK, Arrive, OnlyMoves
<1>3. ASSUME NEW e \in Exports, StampPeer(e)
      PROVE  TypeInv'
  <2>1. OnlyMoves(e) /\ SameReport(e) /\ export'[e].step = "recording" /\ export'[e].seen = now
    BY <1>3, StampPeerMoves
  <2>2. export[e].at = 0
    BY <1>3 DEF StampPeer, RequestsInOrder, RequestInOrder
  <2>3. RequestInOrder(e)'
    BY <2>1, <2>2 DEF RequestInOrder, AtSpan, SameReport
  <2>4. overlapped' \subseteq Exports \X Nat
    BY <1>3, JoinsAreTyped DEF StampPeer, Steps
  <2> QED
    BY <1>3, <2>1, <2>3, <2>4, OneRequestInOrder DEF TypeOK, StampPeer, OnlyMoves
<1>4. ASSUME NEW e \in Exports, RecordPeer(e)
      PROVE  TypeInv'
  <2>1. /\ OnlyMoves(e) /\ SameReport(e) /\ export'[e].step = "announcingPeer"
        /\ peers' \in [Peers -> Nat]
    BY <1>4, RecordPeerMoves
  <2>2. export[e].at = 0
    BY <1>4 DEF RecordPeer, RequestsInOrder, RequestInOrder
  <2>3. RequestInOrder(e)'
    BY <2>1, <2>2 DEF RequestInOrder, AtSpan, SameReport
  <2> QED
    BY <1>4, <2>1, <2>3, OneRequestInOrder DEF TypeOK, RecordPeer, OnlyMoves
<1>5. ASSUME NEW e \in Exports, AnnouncePeer(e) \/ SkipSpan(e) \/ AnnounceSession(e)
      PROVE  TypeInv'
  <2>1. /\ OnlyMoves(e) /\ export[e] \in Requests
        /\ \/ export'[e] = Done
           \/ export'[e].step = "reading" /\ export'[e].at \in DOMAIN export'[e].spans
    BY <1>5, NextSpanMoves
  <2>2. RequestInOrder(e)'
    BY <2>1 DEF RequestInOrder, AtSpan, Done
  <2>3. announced' \subseteq {PeerSeen(p) : p \in Peers} \cup {SessionObserved(s) : s \in HoprSessions}
    <3>1. CASE AnnouncePeer(e)
      BY <2>1, <3>1 DEF TypeOK, AnnouncePeer, Requests
    <3>2. CASE SkipSpan(e)
      BY <3>2 DEF TypeOK, SkipSpan
    <3>3. CASE AnnounceSession(e)
      <4>1. Span(e).session \in HoprSessions
        BY <3>3, SpanIsTyped DEF AnnounceSession, AtSpan, RequestsInOrder, RequestInOrder
      <4> QED
        BY <3>3, <4>1 DEF TypeOK, AnnounceSession
    <3> QED
      BY <1>5, <3>1, <3>2, <3>3
  <2>4. UNCHANGED <<peers, sessions, now, overlapped>>
    BY <1>5 DEF AnnouncePeer, SkipSpan, AnnounceSession
  <2> QED
    BY <2>1, <2>2, <2>3, <2>4, OneRequestInOrder DEF TypeOK, OnlyMoves
<1>6. ASSUME NEW e \in Exports, StampSession(e)
      PROVE  TypeInv'
  <2>1. OnlyMoves(e) /\ SameReport(e) /\ export'[e].step = "updating" /\ export'[e].stamp = now
    BY <1>6, StampSessionMoves
  <2>2. export[e].at \in DOMAIN export[e].spans /\ Span(e).session # Empty
    BY <1>6 DEF StampSession, RequestsInOrder, RequestInOrder, AtSpan
  <2>3. RequestInOrder(e)'
    BY <2>1, <2>2 DEF RequestInOrder, AtSpan, SameReport, Span
  <2>4. overlapped' \subseteq Exports \X Nat
    BY <1>6, JoinsAreTyped DEF StampSession, JoinsUpdates, Steps
  <2> QED
    BY <1>6, <2>1, <2>3, <2>4, OneRequestInOrder DEF TypeOK, StampSession, OnlyMoves
<1>7. ASSUME NEW e \in Exports, UpdateSession(e)
      PROVE  TypeInv'
  <2>1. OnlyMoves(e) /\ SameReport(e) /\ export'[e].step = "announcingSession"
    BY <1>7, UpdateSessionMoves
  <2>2. export[e].at \in DOMAIN export[e].spans /\ Span(e).session # Empty
    BY <1>7 DEF UpdateSession, RequestsInOrder, RequestInOrder, AtSpan
  <2>3. RequestInOrder(e)'
    BY <2>1, <2>2 DEF RequestInOrder, AtSpan, SameReport, Span
  <2>4. sessions' \in [HoprSessions -> {Unseen} \cup Entries]
    BY <1>7, UpdateSessionUpdates
  <2> QED
    BY <1>7, <2>1, <2>3, <2>4, OneRequestInOrder DEF TypeOK, UpdateSession, OnlyMoves
<1>8. ASSUME NEW e \in Exports, Cancelled(e)
      PROVE  TypeInv'
  <2>1. OnlyMoves(e) /\ export'[e] = Done
    BY <1>8, CancelledMoves
  <2>2. RequestInOrder(e)'
    BY <2>1 DEF RequestInOrder, Done, AtSpan
  <2> QED
    BY <1>8, <2>1, <2>2, OneRequestInOrder DEF TypeOK, Cancelled, OnlyMoves
<1>9. CASE TimePasses
  BY <1>9 DEF TypeOK, TimePasses, RequestsInOrder, RequestInOrder, Span
<1>10. CASE Restart
  <2>1. \A e \in Exports : export'[e] = Unused \/ export'[e] = Done
    BY <1>10 DEF Restart
  <2>2. RequestsInOrder'
    BY <2>1 DEF RequestsInOrder, RequestInOrder, Unused, Done, AtSpan
  <2> QED
    BY <1>10, <2>2 DEF TypeOK, Restart
<1>11. CASE UNCHANGED vars
  BY <1>11 DEF vars, TypeOK, RequestsInOrder, RequestInOrder, Span
<1>12. \A resource \in Resources : PeerIds(resource) \subseteq Peers
  BY RequestsAssumption
<1> QED
  BY <1>1, <1>2, <1>3, <1>4, <1>5, <1>6, <1>7, <1>8, <1>9, <1>10, <1>11, <1>12 DEF Next

\* Every variable keeps its type, in every reachable state.
LEMMA TypeInvariant == Spec => []TypeInv
<1>1. Init => TypeInv
  BY DEF Init, TypeInv, TypeOK, RequestsInOrder, RequestInOrder, Unused, AtSpan
<1> QED
  BY <1>1, TypeStep, PTL DEF Spec

\* The registries, the events and the requests keep their types: hop counts fit
\* u32, and a session that was never seen has no entry.
THEOREM TypeCorrect == Spec => []TypeOK
BY TypeInvariant, PTL DEF TypeInv

-----------------------------------------------------------------------------
(* What the registries hold *)

\* Only recording and restarts change the peers.
LEMMA WhoChangesPeers ==
    ASSUME [Next]_vars
    PROVE  UNCHANGED peers \/ Restart \/ \E e \in Exports : RecordPeer(e)
BY DEF Next, vars, ArriveUnnamed, Arrive, StampPeer, AnnouncePeer, SkipSpan, StampSession,
       UpdateSession, AnnounceSession, Cancelled, TimePasses

\* Nothing but a restart takes a peer or a session out of its registry, and only
\* an update changes a session.
LEMMA NothingForgotten ==
    ASSUME TypeInv, [Next]_vars, ~ Restart
    PROVE  /\ \A p \in Peers : peers[p] # 0 => peers'[p] # 0
           /\ \A s \in HoprSessions : Observed(s) => Observed(s)'
           /\ \/ UNCHANGED sessions
              \/ \E e \in Exports : UpdateSession(e)
<1>1. ASSUME NEW e \in Exports, RecordPeer(e)
      PROVE  \A p \in Peers : peers[p] # 0 => peers'[p] # 0
  <2>1. export[e].seen # 0
    BY <1>1 DEF RecordPeer, TypeInv, RequestsInOrder, RequestInOrder
  <2> QED
    BY <1>1, <2>1, RecordPeerMoves
<1>2. UNCHANGED peers \/ Restart \/ \E e \in Exports : RecordPeer(e)
  BY WhoChangesPeers
<1>3. ASSUME NEW e \in Exports, UpdateSession(e)
      PROVE  \A s \in HoprSessions : Observed(s) => Observed(s)'
  <2>1. sessions'[Span(e).session] \in Entries /\ Span(e).session \in HoprSessions
    <3>1. sessions \in [HoprSessions -> {Unseen} \cup Entries]
      BY DEF TypeInv, TypeOK
    <3> QED
      BY <1>3, <3>1, UpdateSessionUpdates, UpdatedIsEntry
  <2>2. Unseen \notin Entries
    BY DEF Unseen, Entries
  <2> QED
    BY <1>3, <2>1, <2>2, UpdateSessionUpdates DEF Observed
<1>4. UNCHANGED sessions \/ Restart \/ \E e \in Exports : UpdateSession(e)
  BY DEF Next, vars, ArriveUnnamed, Arrive, StampPeer, RecordPeer, AnnouncePeer, SkipSpan,
         StampSession, AnnounceSession, Cancelled, TimePasses
<1>5. UNCHANGED sessions => \A s \in HoprSessions : Observed(s) => Observed(s)'
  BY DEF Observed
<1> QED
  BY <1>1, <1>2, <1>3, <1>4, <1>5

\* A request is past the lock of the peers only if it was, or has just recorded
\* its peer; its peer and what it saw stay.  It is to announce a session only if
\* it was, or has just updated that session.
LEMMA HowRequestsGetOn ==
    ASSUME TypeInv, [Next]_vars, NEW e \in Exports
    PROVE  /\ export'[e].step \in Recorded =>
                 /\ export[e].step \in Steps
                 /\ export'[e].peer = export[e].peer
                 /\ export'[e].seen = export[e].seen
                 /\ export[e].step \in Recorded \/ RecordPeer(e)
           /\ export'[e].step = "announcingSession" =>
                 /\ Span(e)' = Span(e)
                 /\ export[e].step = "announcingSession" \/ UpdateSession(e)
<1>0. Recorded = {"announcingPeer", "reading", "updating", "announcingSession"}
  BY DEF Recorded, Steps
<1>00. Recorded \subseteq Steps
  BY DEF Recorded
<1>1. ASSUME UNCHANGED export[e]
      PROVE  /\ export'[e].step \in Recorded =>
                   /\ export[e].step \in Steps
                   /\ export'[e].peer = export[e].peer
                   /\ export'[e].seen = export[e].seen
                   /\ export[e].step \in Recorded \/ RecordPeer(e)
             /\ export'[e].step = "announcingSession" =>
                   /\ Span(e)' = Span(e)
                   /\ export[e].step = "announcingSession" \/ UpdateSession(e)
  BY <1>00, <1>1 DEF Span
<1>2. ASSUME export'[e].step \notin Recorded
      PROVE  export'[e].step # "announcingSession"
  BY <1>0, <1>2
<1>3. CASE \E resource \in Resources :
              \/ ArriveUnnamed(e, resource)
              \/ \E p \in PeerIds(resource), spans \in SpanLists : Arrive(e, p, spans)
  <2>1. export'[e].step \in {"done", "arrived"}
    BY <1>3 DEF ArriveUnnamed, Arrive, Done, TypeInv, TypeOK
  <2> QED
    BY <1>0, <2>1
<1>4. CASE StampPeer(e)
  BY <1>0, <1>4, StampPeerMoves
<1>5. CASE RecordPeer(e)
  BY <1>0, <1>5, RecordPeerMoves DEF SameReport, RecordPeer, Steps
<1>6. CASE AnnouncePeer(e) \/ SkipSpan(e) \/ AnnounceSession(e)
  <2>1. export[e].step \in Recorded
    BY <1>0, <1>6 DEF AnnouncePeer, SkipSpan, AnnounceSession
  <2>2. \/ export'[e].step = "done"
        \/ /\ export'[e].step = "reading"
           /\ export'[e].peer = export[e].peer
           /\ export'[e].seen = export[e].seen
    BY <1>6, NextSpanMoves DEF Done
  <2> QED
    BY <1>0, <1>00, <2>1, <2>2
<1>7. CASE StampSession(e)
  BY <1>0, <1>00, <1>7, StampSessionMoves DEF StampSession, SameReport
<1>8. CASE UpdateSession(e)
  BY <1>0, <1>00, <1>8, UpdateSessionMoves DEF UpdateSession, SameReport, Span
<1>9. CASE Cancelled(e)
  BY <1>0, <1>9, CancelledMoves DEF Done
<1>10. CASE Restart
  <2>1. export'[e].step \in {"done", "unused"}
    BY <1>10 DEF Restart, Done, Unused
  <2> QED
    BY <1>0, <2>1
<1>11. CASE TimePasses \/ UNCHANGED vars
  BY <1>1, <1>11 DEF TimePasses, vars
<1>12. ASSUME NEW g \in Exports \ {e},
              \/ \E resource \in Resources :
                    \/ ArriveUnnamed(g, resource)
                    \/ \E p \in PeerIds(resource), spans \in SpanLists : Arrive(g, p, spans)
              \/ StampPeer(g) \/ RecordPeer(g) \/ AnnouncePeer(g)
              \/ SkipSpan(g)
              \/ StampSession(g) \/ UpdateSession(g) \/ AnnounceSession(g)
              \/ Cancelled(g)
       PROVE  UNCHANGED export[e]
  BY <1>12 DEF ArriveUnnamed, Arrive, StampPeer, RecordPeer, AnnouncePeer, SkipSpan,
               StampSession, UpdateSession, AnnounceSession, Cancelled, TypeInv, TypeOK
<1> QED
  BY <1>1, <1>3, <1>4, <1>5, <1>6, <1>7, <1>8, <1>9, <1>10, <1>11, <1>12 DEF Next

\* A recorded request's peer stays tracked and an updated session observed.
LEMMA RecordedStep ==
    ASSUME TypeInv, RecordedIsTracked, [Next]_vars
    PROVE  RecordedIsTracked'
<1> SUFFICES ASSUME NEW e \in Exports
             PROVE  /\ export'[e].step \in Recorded => peers'[export'[e].peer] # 0
                    /\ export'[e].step = "announcingSession" => Observed(Span(e).session)'
  BY DEF RecordedIsTracked
<1>1. CASE Restart
  <2>1. export'[e].step \in {"done", "unused"}
    BY <1>1 DEF Restart, Done, Unused
  <2> QED
    BY <2>1 DEF Recorded, Steps
<1>2. CASE ~ Restart
  <2>1. ASSUME export'[e].step \in Recorded
        PROVE  peers'[export'[e].peer] # 0
    <3>1. /\ export[e].step \in Steps
          /\ export'[e].peer = export[e].peer
          /\ export[e].step \in Recorded \/ RecordPeer(e)
      BY <2>1, HowRequestsGetOn
    <3>2. export[e].peer \in Peers
      BY <3>1, AtAStep DEF TypeInv, Requests
    <3>3. CASE export[e].step \in Recorded
      BY <1>2, <3>1, <3>2, <3>3, NothingForgotten DEF RecordedIsTracked
    <3>4. CASE RecordPeer(e)
      <4>1. export[e].seen # 0
        BY <3>4 DEF RecordPeer, TypeInv, RequestsInOrder, RequestInOrder
      <4> QED
        BY <3>1, <3>4, <4>1, RecordPeerMoves
    <3> QED
      BY <3>1, <3>3, <3>4
  <2>2. ASSUME export'[e].step = "announcingSession"
        PROVE  Observed(Span(e).session)'
    <3>1. /\ Span(e)' = Span(e)
          /\ export[e].step = "announcingSession" \/ UpdateSession(e)
      BY <2>2, HowRequestsGetOn
    <3>2. Span(e).session \in HoprSessions
      BY <3>1, SpanIsTyped
         DEF UpdateSession, AtSpan, TypeInv, RequestsInOrder, RequestInOrder
    <3>3. CASE export[e].step = "announcingSession"
      BY <1>2, <3>1, <3>2, <3>3, NothingForgotten DEF RecordedIsTracked, Observed
    <3>4. CASE UpdateSession(e)
      <4>1. sessions \in [HoprSessions -> {Unseen} \cup Entries]
        BY DEF TypeInv, TypeOK
      <4>2. sessions'[Span(e).session] \in Entries
        BY <3>4, <4>1, UpdateSessionUpdates, UpdatedIsEntry
      <4> QED
        BY <3>1, <4>2 DEF Observed, Unseen, Entries
    <3> QED
      BY <3>1, <3>3, <3>4
  <2> QED
    BY <2>1, <2>2
<1> QED
  BY <1>1, <1>2

\* No step lists a participant twice, or one that is not tracked.
LEMMA ParticipantsStep ==
    ASSUME TypeInv, RecordedIsTracked, ParticipantsAreTrackedOnce, [Next]_vars
    PROVE  ParticipantsAreTrackedOnce'
<1> SUFFICES ASSUME NEW s \in HoprSessions, Observed(s)'
             PROVE  /\ \A p \in Participants(s)' : peers'[p] # 0
                    /\ Once(sessions'[s].participants)
  BY DEF ParticipantsAreTrackedOnce, Once
<1>1. ~ Restart
  BY DEF Restart, Observed
<1>2. sessions \in [HoprSessions -> {Unseen} \cup Entries]
  BY DEF TypeInv, TypeOK
<1>3. Observed(s) => /\ \A p \in Participants(s) : p \in Peers /\ peers[p] # 0
                     /\ Once(sessions[s].participants)
  <2>1. ASSUME Observed(s), NEW p \in Participants(s)
        PROVE  p \in Peers
    <3>1. sessions[s].participants \in Seq(Participation)
      BY <2>1, ObservedIsEntry DEF TypeInv, Entries
    <3>2. \A i \in DOMAIN sessions[s].participants :
             sessions[s].participants[i] \in Participation
      BY <3>1, ElementOfSeq, LenProperties
    <3> QED
      BY <2>1, <3>2 DEF Participants, Participation
  <2> QED
    BY <2>1 DEF ParticipantsAreTrackedOnce, Once
<1>4. Participants(s) = PeersOf(sessions[s].participants)
  BY DEF Participants, PeersOf
<1>5. Participants(s)' = PeersOf(sessions'[s].participants)
  BY DEF Participants, PeersOf
<1>6. CASE UNCHANGED sessions[s]
  <2>1. Observed(s) /\ Participants(s)' = Participants(s)
    BY <1>6 DEF Observed, Participants
  <2> QED
    BY <1>1, <1>3, <1>6, <2>1, NothingForgotten
<1>7. ASSUME NEW e \in Exports, UpdateSession(e), Span(e).session = s
      PROVE  /\ \A p \in Participants(s)' : peers'[p] # 0
             /\ Once(sessions'[s].participants)
  <2>1. export[e].peer \in Peers
    BY <1>7, UpdateSessionUpdates
  <2>2. peers'[export[e].peer] # 0
    <3>1. peers[export[e].peer] # 0
      BY <1>7 DEF UpdateSession, RecordedIsTracked, Recorded, Steps
    <3> QED
      BY <1>1, <2>1, <3>1, NothingForgotten
  <2>3. CASE sessions[s] = Unseen
    <3>1. PeersOf(sessions'[s].participants) = {export[e].peer} /\ Once(sessions'[s].participants)
      BY <1>7, <2>3, UpdateSessionEntry
    <3> QED
      BY <1>5, <2>2, <3>1
  <2>4. CASE sessions[s] # Unseen
    <3>1. Observed(s)
      BY <2>4 DEF Observed
    <3>2. /\ PeersOf(sessions'[s].participants) =
                 PeersOf(sessions[s].participants) \cup {export[e].peer}
          /\ Once(sessions'[s].participants)
      BY <1>3, <1>7, <2>4, <3>1, UpdateSessionEntry
    <3> QED
      BY <1>1, <1>3, <1>4, <1>5, <2>2, <3>1, <3>2, NothingForgotten
  <2> QED
    BY <2>3, <2>4
<1> QED
  BY <1>1, <1>6, <1>7, NothingForgotten, UpdateSessionUpdates

\* No step announces what is not in the state, nor loses what was announced.
LEMMA EventsStep ==
    ASSUME TypeInv, RecordedIsTracked, EventsFollowState, [Next]_vars
    PROVE  EventsFollowState'
<1>1. CASE Restart
  BY <1>1 DEF Restart, EventsFollowState
<1>2. CASE ~ Restart
  <2>1. ASSUME NEW p \in Peers, PeerSeen(p) \in announced'
        PROVE  peers[p] # 0
    <3>1. CASE PeerSeen(p) \in announced
      BY <3>1 DEF EventsFollowState
    <3>2. ASSUME NEW e \in Exports, AnnouncePeer(e), PeerSeen(p) \notin announced
          PROVE  peers[p] # 0
      <4>1. p = export[e].peer
        BY <2>1, <3>2 DEF AnnouncePeer, PeerSeen
      <4> QED
        BY <3>2, <4>1 DEF AnnouncePeer, RecordedIsTracked, Recorded, Steps
    <3>3. ASSUME NEW e \in Exports, AnnounceSession(e)
          PROVE  PeerSeen(p) \in announced
      BY <2>1, <3>3 DEF AnnounceSession, PeerSeen, SessionObserved
    <3>4. \/ UNCHANGED announced
          \/ \E e \in Exports : AnnouncePeer(e) \/ AnnounceSession(e)
      BY <1>2 DEF Next, vars, ArriveUnnamed, Arrive, StampPeer, RecordPeer, SkipSpan,
                  StampSession, UpdateSession, Cancelled, TimePasses
    <3> QED
      BY <2>1, <3>1, <3>2, <3>3, <3>4
  <2>2. ASSUME NEW s \in HoprSessions, SessionObserved(s) \in announced'
        PROVE  Observed(s)
    <3>1. CASE SessionObserved(s) \in announced
      BY <3>1 DEF EventsFollowState
    <3>2. ASSUME NEW e \in Exports, AnnounceSession(e), SessionObserved(s) \notin announced
          PROVE  Observed(s)
      <4>1. s = Span(e).session
        BY <2>2, <3>2 DEF AnnounceSession, SessionObserved
      <4> QED
        BY <3>2, <4>1 DEF AnnounceSession, RecordedIsTracked
    <3>3. ASSUME NEW e \in Exports, AnnouncePeer(e)
          PROVE  SessionObserved(s) \in announced
      BY <2>2, <3>3 DEF AnnouncePeer, PeerSeen, SessionObserved
    <3>4. \/ UNCHANGED announced
          \/ \E e \in Exports : AnnouncePeer(e) \/ AnnounceSession(e)
      BY <1>2 DEF Next, vars, ArriveUnnamed, Arrive, StampPeer, RecordPeer, SkipSpan,
                  StampSession, UpdateSession, Cancelled, TimePasses
    <3> QED
      BY <2>2, <3>1, <3>2, <3>3, <3>4
  <2>3. ASSUME NEW p \in Peers, PeerSeen(p) \in announced'
        PROVE  peers'[p] # 0
    BY <1>2, <2>1, <2>3, NothingForgotten
  <2>4. ASSUME NEW s \in HoprSessions, SessionObserved(s) \in announced'
        PROVE  Observed(s)'
    BY <1>2, <2>2, <2>4, NothingForgotten
  <2> QED
    BY <2>3, <2>4 DEF EventsFollowState
<1> QED
  BY <1>1, <1>2

\* Whatever the exports, each participant of a HOPR session is listed once and
\* is in the peer registry.
THEOREM ParticipantsTracked == Spec => []ParticipantsAreTrackedOnce
<1>1. Init => RecordedIsTracked /\ ParticipantsAreTrackedOnce
  BY DEF Init, RecordedIsTracked, ParticipantsAreTrackedOnce, Observed, Unused, Recorded, Steps
<1> QED
  BY <1>1, TypeInvariant, RecordedStep, ParticipantsStep, PTL DEF Spec

\* Whatever the exports, an event announces only what its registry holds.
THEOREM EventsTrueToState == Spec => []EventsFollowState
<1>1. Init => RecordedIsTracked /\ EventsFollowState
  BY DEF Init, RecordedIsTracked, EventsFollowState, Unused, Recorded, Steps
<1> QED
  BY <1>1, TypeInvariant, RecordedStep, EventsStep, PTL DEF Spec

\* No export, however it interleaves with others, makes an observed session
\* forget a participant, its protocol or when it was first seen.
THEOREM SessionsGrow == Spec => SessionsOnlyGrow
<1>1. ASSUME TypeInv, [Next]_vars, NEW s \in HoprSessions, Observed(s), sessions'[s] # Unseen
      PROVE  /\ sessions'[s].firstSeen = sessions[s].firstSeen
             /\ sessions'[s].protocol = sessions[s].protocol
             /\ Participants(s) \subseteq Participants(s)'
  <2>1. ~ Restart
    BY <1>1 DEF Restart
  <2>2. CASE UNCHANGED sessions[s]
    BY <2>2 DEF Participants
  <2>3. ASSUME NEW e \in Exports, UpdateSession(e), Span(e).session = s
        PROVE  /\ sessions'[s].firstSeen = sessions[s].firstSeen
               /\ sessions'[s].protocol = sessions[s].protocol
               /\ PeersOf(sessions[s].participants) \subseteq PeersOf(sessions'[s].participants)
    <3>1. sessions[s] # Unseen
      BY <1>1 DEF Observed
    <3>2. /\ PeersOf(sessions'[s].participants) =
                 PeersOf(sessions[s].participants) \cup {export[e].peer}
          /\ sessions'[s].firstSeen = sessions[s].firstSeen
          /\ sessions'[s].protocol = sessions[s].protocol
      BY <1>1, <2>3, <3>1, UpdateSessionEntry
    <3> QED
      BY <3>2
  <2>4. /\ Participants(s) = PeersOf(sessions[s].participants)
        /\ Participants(s)' = PeersOf(sessions'[s].participants)
    BY DEF Participants, PeersOf
  <2> QED
    BY <1>1, <2>1, <2>2, <2>3, <2>4, NothingForgotten, UpdateSessionUpdates
<1>2. TypeInv /\ [Next]_vars =>
          [\A s \in HoprSessions : Observed(s) /\ sessions'[s] # Unseen =>
             /\ sessions'[s].firstSeen = sessions[s].firstSeen
             /\ sessions'[s].protocol = sessions[s].protocol
             /\ Participants(s) \subseteq Participants(s)']_vars
  BY <1>1
<1> QED
  BY <1>2, TypeInvariant, PTL DEF Spec, SessionsOnlyGrow

-----------------------------------------------------------------------------
(* Last seen *)

\* A request that is past its clock reading has just made it, or keeps what it
\* read then.
LEMMA HowReportsGetOn ==
    ASSUME TypeInv, [Next]_vars, NEW e \in Exports, export'[e].step \in Steps \ {"arrived"}
    PROVE  /\ export[e] \in Requests
           /\ export'[e].peer = export[e].peer
           /\ \/ StampPeer(e)
              \/ /\ export[e].step \in Steps \ {"arrived"}
                 /\ export'[e].seen = export[e].seen
                 /\ export'[e].step = "recording" => export[e].step = "recording"
<1>1. CASE export'[e].step = "recording"
  <2>1. CASE StampPeer(e)
    BY <2>1, StampPeerMoves DEF SameReport
  <2>2. ASSUME NEW g \in Exports,
               \/ \E resource \in Resources :
                     \/ ArriveUnnamed(g, resource)
                     \/ \E p \in PeerIds(resource), spans \in SpanLists : Arrive(g, p, spans)
               \/ RecordPeer(g)
               \/ AnnouncePeer(g) \/ SkipSpan(g) \/ AnnounceSession(g)
               \/ StampSession(g) \/ UpdateSession(g) \/ Cancelled(g)
        PROVE  UNCHANGED export[e]
    <3>1. export \in [Exports -> {Unused, Done} \cup Requests]
      BY DEF TypeInv, TypeOK
    <3>2. CASE \E resource \in Resources :
                  \/ ArriveUnnamed(g, resource)
                  \/ \E p \in PeerIds(resource), spans \in SpanLists : Arrive(g, p, spans)
      BY <1>1, <3>1, <3>2 DEF ArriveUnnamed, Arrive, Done
    <3>3. CASE RecordPeer(g)
      BY <1>1, <3>3, RecordPeerMoves DEF OnlyMoves
    <3>4. CASE AnnouncePeer(g) \/ SkipSpan(g) \/ AnnounceSession(g)
      BY <1>1, <3>4, NextSpanMoves DEF OnlyMoves, Done
    <3>5. CASE StampSession(g)
      BY <1>1, <3>5, StampSessionMoves DEF OnlyMoves
    <3>6. CASE UpdateSession(g)
      BY <1>1, <3>6, UpdateSessionMoves DEF OnlyMoves
    <3>7. CASE Cancelled(g)
      BY <1>1, <3>7, CancelledMoves DEF OnlyMoves, Done
    <3> QED
      BY <2>2, <3>2, <3>3, <3>4, <3>5, <3>6, <3>7
  <2>3. ASSUME NEW g \in Exports \ {e}, StampPeer(g)
        PROVE  UNCHANGED export[e]
    BY <2>3, StampPeerMoves DEF OnlyMoves
  <2>4. ~ Restart
    BY <1>1 DEF Restart, Unused, Done
  <2>5. TimePasses \/ UNCHANGED vars => UNCHANGED export[e]
    BY DEF TimePasses, vars
  <2>6. StampPeer(e) \/ UNCHANGED export[e]
    BY <2>2, <2>3, <2>4, <2>5 DEF Next
  <2>7. UNCHANGED export[e] => export[e] \in Requests /\ export[e].step \in Steps \ {"arrived"}
    BY <1>1, AtAStep DEF TypeInv, Steps
  <2> QED
    BY <2>1, <2>6, <2>7
<1>2. CASE export'[e].step # "recording"
  <2>1. export'[e].step \in Recorded
    BY <1>2 DEF Recorded
  <2>2. /\ export[e].step \in Steps
        /\ export'[e].peer = export[e].peer
        /\ export'[e].seen = export[e].seen
        /\ export[e].step \in Recorded \/ RecordPeer(e)
    BY <2>1, HowRequestsGetOn
  <2>3. export[e].step \in Steps \ {"arrived"}
    BY <2>2 DEF Recorded, RecordPeer
  <2> QED
    BY <1>2, <2>2, <2>3, AtAStep DEF TypeInv
<1> QED
  BY <1>1, <1>2

\* An update of a session that is under way has just read the clock, or keeps what
\* it read then and the session it is about.
LEMMA HowUpdatesGetOn ==
    ASSUME TypeInv, [Next]_vars, NEW e \in Exports, export'[e].step \in Updating
    PROVE  /\ export[e] \in Requests
           /\ Span(e)' = Span(e) /\ Update(e)' = Update(e)
           /\ \/ StampSession(e)
              \/ /\ export[e].step \in Updating
                 /\ export'[e].stamp = export[e].stamp
                 /\ export'[e].step = "updating" => export[e].step = "updating"
                 /\ export'[e].step = "announcingSession" =>
                       export[e].step = "announcingSession" \/ UpdateSession(e)
<1> USE DEF Updating
<1>1. CASE UNCHANGED export[e]
  <2>1. export[e] \in Requests
    BY <1>1, AtAStep DEF TypeInv, Steps
  <2> QED
    BY <1>1, <2>1 DEF Span, Update
<1>2. ASSUME NEW g \in Exports,
             \/ \E resource \in Resources :
                   \/ ArriveUnnamed(g, resource)
                   \/ \E p \in PeerIds(resource), spans \in SpanLists : Arrive(g, p, spans)
             \/ StampPeer(g) \/ RecordPeer(g)
             \/ AnnouncePeer(g) \/ SkipSpan(g) \/ AnnounceSession(g) \/ Cancelled(g)
      PROVE  UNCHANGED export[e]
  <2>1. export \in [Exports -> {Unused, Done} \cup Requests]
    BY DEF TypeInv, TypeOK
  <2>2. CASE \E resource \in Resources :
                \/ ArriveUnnamed(g, resource)
                \/ \E p \in PeerIds(resource), spans \in SpanLists : Arrive(g, p, spans)
    BY <2>1, <2>2 DEF ArriveUnnamed, Arrive, Done
  <2>3. CASE StampPeer(g) \/ RecordPeer(g)
    BY <2>3, StampPeerMoves, RecordPeerMoves DEF OnlyMoves
  <2>4. CASE AnnouncePeer(g) \/ SkipSpan(g) \/ AnnounceSession(g)
    BY <2>4, NextSpanMoves DEF OnlyMoves, Done
  <2>5. CASE Cancelled(g)
    BY <2>5, CancelledMoves DEF OnlyMoves, Done
  <2> QED
    BY <1>2, <2>2, <2>3, <2>4, <2>5
<1>3. ASSUME NEW g \in Exports \ {e}, StampSession(g) \/ UpdateSession(g)
      PROVE  UNCHANGED export[e]
  BY <1>3, StampSessionMoves, UpdateSessionMoves DEF OnlyMoves
<1>4. CASE StampSession(e)
  BY <1>4, StampSessionMoves DEF SameReport, Span, Update
<1>5. CASE UpdateSession(e)
  <2>1. /\ SameReport(e) /\ export[e].step = "updating"
        /\ export'[e].step = "announcingSession" /\ export'[e].stamp = export[e].stamp
    BY <1>5, UpdateSessionMoves DEF UpdateSession
  <2> QED
    BY <1>5, <2>1 DEF SameReport, Span, Update
<1>6. ~ Restart
  BY DEF Restart, Unused, Done
<1>7. TimePasses \/ UNCHANGED vars => UNCHANGED export[e]
  BY DEF TimePasses, vars
<1> QED
  BY <1>1, <1>2, <1>3, <1>4, <1>5, <1>6, <1>7 DEF Next

\* The clock does not go back, and updates that overlapped stay known.
LEMMA ClockAndHistory ==
    ASSUME TypeInv, [Next]_vars
    PROVE  /\ now \in Nat /\ now' \in Nat /\ now <= now'
           /\ overlapped \subseteq overlapped'
<1>1. now \in Nat
  BY DEF TypeInv, TypeOK
<1>2. now' = now \/ now' = now + 1
  BY DEF Next, vars, ArriveUnnamed, Arrive, StampPeer, RecordPeer, AnnouncePeer, SkipSpan,
         StampSession, UpdateSession, AnnounceSession, Cancelled, TimePasses, Restart
<1>3. overlapped \subseteq overlapped'
  BY DEF Next, vars, ArriveUnnamed, Arrive, StampPeer, RecordPeer, AnnouncePeer, SkipSpan,
         StampSession, UpdateSession, AnnounceSession, Cancelled, TimePasses, Restart,
         JoinsUpdates, Joins
<1> QED
  BY <1>1, <1>2, <1>3

\* Only updates and restarts change a session.  An update leaves its session with
\* the time it read as last_seen, and as first_seen if there was no entry.
LEMMA WhatUpdatesLeave ==
    ASSUME TypeInv, [Next]_vars
    PROVE  /\ UNCHANGED sessions \/ Restart \/ \E e \in Exports : UpdateSession(e)
           /\ \A e \in Exports : UpdateSession(e) =>
                 LET s == Span(e).session
                 IN  /\ s \in HoprSessions
                     /\ export[e].stamp \in Nat
                     /\ sessions'[s].lastSeen = export[e].stamp
                     /\ sessions'[s].firstSeen =
                            IF Observed(s) THEN sessions[s].firstSeen ELSE export[e].stamp
                     /\ \A t \in HoprSessions \ {s} : sessions'[t] = sessions[t]
<1>1. UNCHANGED sessions \/ Restart \/ \E e \in Exports : UpdateSession(e)
  BY NothingForgotten
<1>2. ASSUME NEW e \in Exports, UpdateSession(e), NEW s, s = Span(e).session
      PROVE  /\ s \in HoprSessions
             /\ export[e].stamp \in Nat
             /\ sessions'[s].lastSeen = export[e].stamp
             /\ sessions'[s].firstSeen =
                    IF Observed(s) THEN sessions[s].firstSeen ELSE export[e].stamp
             /\ \A t \in HoprSessions \ {s} : sessions'[t] = sessions[t]
  <2>1. /\ s \in HoprSessions /\ export[e].stamp \in Nat
        /\ sessions'[s] = Updated(sessions[s], Span(e), export[e].peer, export[e].stamp)
        /\ \A t \in HoprSessions \ {s} : sessions'[t] = sessions[t]
    BY <1>2, UpdateSessionUpdates
  <2>2. sessions[s] \in {Unseen} \cup Entries
    BY <2>1 DEF TypeInv, TypeOK
  <2>3. CASE sessions[s] = Unseen
    BY <2>1, <2>3 DEF Updated, Observed
  <2>4. CASE sessions[s] # Unseen
    BY <2>1, <2>2, <2>4 DEF Updated, Observed, Entries
  <2> QED
    BY <2>1, <2>3, <2>4
<1> QED
  BY <1>1, <1>2

\* Whatever time is recorded was read from the clock before.
LEMMA StampsStep ==
    ASSUME TypeInv, StampsArePast, [Next]_vars
    PROVE  StampsArePast'
<1>1. /\ now \in Nat /\ now' \in Nat /\ now <= now'
      /\ peers \in [Peers -> Nat]
  BY ClockAndHistory DEF TypeInv, TypeOK
<1>2. ASSUME NEW p \in Peers
      PROVE  peers'[p] <= now'
  <2>1. peers[p] \in Nat /\ peers[p] <= now
    BY <1>1 DEF StampsArePast
  <2>2. CASE UNCHANGED peers
    BY <1>1, <2>1, <2>2
  <2>3. CASE Restart
    BY <1>1, <2>3 DEF Restart
  <2>4. ASSUME NEW e \in Exports, RecordPeer(e)
        PROVE  peers'[p] <= now'
    <3>1. export[e].seen \in Nat /\ export[e].seen <= now
      BY <2>4, AtAStep DEF RecordPeer, TypeInv, StampsArePast, Steps, Requests
    <3>2. peers'[p] = peers[p] \/ peers'[p] = export[e].seen
      BY <2>4, RecordPeerMoves
    <3> QED
      BY <1>1, <2>1, <3>1, <3>2
  <2> QED
    BY <2>2, <2>3, <2>4, WhoChangesPeers
<1>3. ASSUME NEW s \in HoprSessions, Observed(s)'
      PROVE  sessions'[s].firstSeen <= now'
  <2>1. ~ Restart
    BY <1>3 DEF Restart, Observed
  <2>2. Observed(s) => sessions[s].firstSeen \in Nat /\ sessions[s].firstSeen <= now
    BY ObservedIsEntry DEF TypeInv, Entries, StampsArePast
  <2>3. CASE UNCHANGED sessions[s]
    BY <1>1, <1>3, <2>2, <2>3 DEF Observed
  <2>4. ASSUME NEW e \in Exports, UpdateSession(e), s = Span(e).session
        PROVE  sessions'[s].firstSeen <= now'
    <3>1. export[e].stamp \in Nat /\ export[e].stamp <= now
      BY <2>4, WhatUpdatesLeave DEF StampsArePast, UpdateSession, Updating
    <3>2. sessions'[s].firstSeen =
              IF Observed(s) THEN sessions[s].firstSeen ELSE export[e].stamp
      BY <2>4, WhatUpdatesLeave
    <3> QED
      BY <1>1, <2>2, <3>1, <3>2
  <2> QED
    BY <2>1, <2>3, <2>4, WhatUpdatesLeave
<1>4. ASSUME NEW e \in Exports, export'[e].step \in Steps \ {"arrived"}
      PROVE  export'[e].seen <= now'
  <2>1. CASE StampPeer(e)
    BY <1>1, <2>1, StampPeerMoves
  <2>2. CASE ~ StampPeer(e)
    <3>1. /\ export[e].step \in Steps \ {"arrived"}
          /\ export'[e].seen = export[e].seen
          /\ export[e] \in Requests
      BY <1>4, <2>2, HowReportsGetOn
    <3>2. export[e].seen \in Nat /\ export[e].seen <= now
      BY <3>1 DEF StampsArePast, Requests
    <3> QED
      BY <1>1, <3>1, <3>2
  <2> QED
    BY <2>1, <2>2
<1>5. ASSUME NEW e \in Exports, export'[e].step \in Updating
      PROVE  export'[e].stamp <= now'
  <2>1. CASE StampSession(e)
    BY <1>1, <2>1, StampSessionMoves
  <2>2. CASE ~ StampSession(e)
    <3>1. /\ export[e].step \in Updating
          /\ export'[e].stamp = export[e].stamp
          /\ export[e] \in Requests
      BY <1>5, <2>2, HowUpdatesGetOn
    <3>2. export[e].stamp \in Nat /\ export[e].stamp <= now
      BY <3>1 DEF StampsArePast, Requests
    <3> QED
      BY <1>1, <3>1, <3>2
  <2> QED
    BY <2>1, <2>2
<1> QED
  BY <1>2, <1>3, <1>4, <1>5 DEF StampsArePast

\* Two reports of one peer that wait for the lock together both count as
\* overlapping, and the clock readings of the others come in order.
LEMMA TurnsStep ==
    ASSUME TypeInv, StampsArePast, ReportsTakeTurns, [Next]_vars
    PROVE  ReportsTakeTurns'
<1> SUFFICES ASSUME NEW e \in Exports, NEW g \in Exports, e # g,
                    export'[e].step = "recording",
                    export'[g].step \in Steps,
                    export'[g].peer = export'[e].peer
             PROVE  /\ export'[g].step = "recording" =>
                          <<e, 0>> \in overlapped' /\ <<g, 0>> \in overlapped'
                    /\ export'[g].step \in Recorded =>
                          <<g, 0>> \in overlapped' \/ export'[g].seen <= export'[e].seen
  BY DEF ReportsTakeTurns
<1>1. /\ export'[e].step \in Steps \ {"arrived"}
      /\ "arrived" \notin Recorded /\ "recording" \notin Recorded
      /\ Recorded \subseteq Steps
  BY DEF Steps, Recorded
<1>2. export'[e].peer = export[e].peer
  BY <1>1, HowReportsGetOn
<1>3. overlapped \subseteq overlapped'
  BY ClockAndHistory
<1>4. CASE StampPeer(e)
  <2>1. export'[g] = export[g] /\ export'[e].seen = now
    BY <1>4, StampPeerMoves DEF OnlyMoves
  <2>2. export'[g].step = "recording" => <<e, 0>> \in overlapped' /\ <<g, 0>> \in overlapped'
    BY <1>2, <1>4, <2>1, JoinsMark
       DEF StampPeer, Update, TypeInv, RequestsInOrder, RequestInOrder
  <2>3. export'[g].step \in Recorded => export'[g].seen <= now
    BY <1>1, <2>1 DEF StampsArePast
  <2> QED
    BY <2>1, <2>2, <2>3
<1>5. CASE ~ StampPeer(e) /\ StampPeer(g)
  <2>1. export'[e] = export[e] /\ export'[g].step = "recording"
    BY <1>5, StampPeerMoves DEF OnlyMoves
  <2>2. <<e, 0>> \in overlapped' /\ <<g, 0>> \in overlapped'
    <3>1. export[g].peer = export[e].peer
      BY <1>2, <1>5, StampPeerMoves DEF SameReport
    <3> QED
      BY <1>5, <2>1, <3>1, JoinsMark
         DEF StampPeer, Update, TypeInv, RequestsInOrder, RequestInOrder
  <2> QED
    BY <1>1, <2>1, <2>2
<1>6. CASE ~ StampPeer(e) /\ ~ StampPeer(g)
  <2>1. export[e].step = "recording" /\ export'[e].seen = export[e].seen
    BY <1>1, <1>6, HowReportsGetOn
  <2>2. CASE export'[g].step = "arrived"
    BY <1>1, <2>2
  <2>3. CASE export'[g].step # "arrived"
    <3>1. /\ export[g].step \in Steps \ {"arrived"}
          /\ export'[g].peer = export[g].peer
          /\ export'[g].seen = export[g].seen
          /\ export'[g].step = "recording" => export[g].step = "recording"
      BY <1>6, <2>3, HowReportsGetOn
    <3>2. /\ export[g].step = "recording" => <<e, 0>> \in overlapped /\ <<g, 0>> \in overlapped
          /\ export[g].step \in Recorded =>
                <<g, 0>> \in overlapped \/ export[g].seen <= export[e].seen
      BY <1>2, <2>1, <3>1 DEF ReportsTakeTurns
    <3> QED
      BY <1>3, <2>1, <3>1, <3>2 DEF Recorded
  <2> QED
    BY <2>2, <2>3
<1> QED
  BY <1>4, <1>5, <1>6

\* The same of two updates of one session.
LEMMA UpdateTurnsStep ==
    ASSUME TypeInv, StampsArePast, UpdatesTakeTurns, [Next]_vars
    PROVE  UpdatesTakeTurns'
<1> SUFFICES ASSUME NEW e \in Exports, NEW g \in Exports, e # g,
                    export'[e].step = "updating",
                    export'[g].step \in Updating,
                    (Span(g).session = Span(e).session)'
             PROVE  /\ export'[g].step = "updating" =>
                          Update(e)' \in overlapped' /\ Update(g)' \in overlapped'
                    /\ export'[g].step = "announcingSession" =>
                          Update(g)' \in overlapped' \/ export'[g].stamp <= export'[e].stamp
  BY DEF UpdatesTakeTurns
<1>1. export'[e].step \in Updating
  BY DEF Updating
<1>2. /\ Span(e)' = Span(e) /\ Update(e)' = Update(e)
      /\ Span(g)' = Span(g) /\ Update(g)' = Update(g)
  BY <1>1, HowUpdatesGetOn
<1>3. overlapped \subseteq overlapped'
  BY ClockAndHistory
<1>4. CASE StampSession(e)
  <2>1. export'[g] = export[g] /\ export'[e].stamp = now
    BY <1>4, StampSessionMoves DEF OnlyMoves
  <2>2. export'[g].step = "updating" => Update(e) \in overlapped' /\ Update(g) \in overlapped'
    BY <1>2, <1>4, <2>1, JoinsMark DEF StampSession, JoinsUpdates
  <2>3. export'[g].stamp <= now
    BY <2>1 DEF StampsArePast
  <2> QED
    BY <1>2, <2>1, <2>2, <2>3
<1>5. CASE ~ StampSession(e) /\ StampSession(g)
  <2>1. export'[e] = export[e] /\ export'[g].step = "updating"
    BY <1>5, StampSessionMoves DEF OnlyMoves
  <2>2. Update(e) \in overlapped' /\ Update(g) \in overlapped'
    BY <1>2, <1>5, <2>1, JoinsMark DEF StampSession, JoinsUpdates
  <2> QED
    BY <1>2, <2>1, <2>2
<1>6. CASE ~ StampSession(e) /\ ~ StampSession(g)
  <2>1. export[e].step = "updating" /\ export'[e].stamp = export[e].stamp
    BY <1>1, <1>6, HowUpdatesGetOn
  <2>2. /\ export[g].step \in Updating
        /\ export'[g].stamp = export[g].stamp
        /\ export'[g].step = "updating" => export[g].step = "updating"
    BY <1>6, HowUpdatesGetOn
  <2>3. /\ export[g].step = "updating" => Update(e) \in overlapped /\ Update(g) \in overlapped
        /\ export[g].step = "announcingSession" =>
              Update(g) \in overlapped \/ export[g].stamp <= export[e].stamp
    BY <1>2, <2>1, <2>2 DEF UpdatesTakeTurns
  <2> QED
    BY <1>2, <1>3, <2>1, <2>2, <2>3 DEF Updating
<1> QED
  BY <1>4, <1>5, <1>6

\* A session that an update waits for is created by another only if both wait.
LEMMA FirstSeenStep ==
    ASSUME TypeInv, RecordedIsTracked, StampsArePast, UpdatesTakeTurns, FirstSeenFirst,
           [Next]_vars
    PROVE  FirstSeenFirst'
<1> SUFFICES ASSUME NEW e \in Exports, export'[e].step \in Updating,
                    Observed(Span(e).session)',
                    Update(e)' \notin overlapped'
             PROVE  sessions'[(Span(e).session)'].firstSeen <= export'[e].stamp
  BY DEF FirstSeenFirst
<1> DEFINE s == Span(e).session
<1>1. /\ export[e] \in Requests
      /\ Span(e)' = Span(e) /\ Update(e)' = Update(e)
      /\ \/ StampSession(e)
         \/ /\ export[e].step \in Updating
            /\ export'[e].stamp = export[e].stamp
  BY HowUpdatesGetOn
<1>2. Update(e) \notin overlapped
  BY <1>1, ClockAndHistory
<1>3. s \in HoprSessions /\ sessions'[s] # Unseen
  <2>1. export[e].step \in AtSpan /\ s # Empty
    BY <1>1 DEF StampSession, AtSpan, Updating, TypeInv, RequestsInOrder, RequestInOrder
  <2> QED
    BY <1>1, <2>1, SpanIsTyped DEF Observed
<1> HIDE DEF s
<1>4. CASE StampSession(e)
  <2>1. export'[e].stamp = now /\ sessions'[s] = sessions[s]
    BY <1>4, StampSessionMoves DEF StampSession
  <2>2. sessions[s].firstSeen <= now
    BY <1>3, <2>1 DEF StampsArePast, Observed
  <2> QED
    BY <1>1, <2>1, <2>2 DEF s
<1>5. CASE ~ StampSession(e)
  <2>1. export[e].step \in Updating /\ export'[e].stamp = export[e].stamp
    BY <1>1, <1>5
  <2>2. Observed(s) => sessions[s].firstSeen <= export[e].stamp
    BY <1>2, <2>1 DEF FirstSeenFirst, s
  <2>3. ~ Restart
    BY <1>3 DEF Restart
  <2>4. ASSUME sessions'[s] = sessions[s]
        PROVE  sessions'[s].firstSeen <= export'[e].stamp
    BY <1>3, <2>1, <2>2, <2>4 DEF Observed
  <2>5. ASSUME NEW g \in Exports, UpdateSession(g), Span(g).session = s
        PROVE  sessions'[s].firstSeen <= export'[e].stamp
    <3>1. sessions'[s].firstSeen =
              IF Observed(s) THEN sessions[s].firstSeen ELSE export[g].stamp
      BY <2>5, WhatUpdatesLeave
    <3>2. CASE Observed(s)
      BY <2>1, <2>2, <3>1, <3>2
    <3>3. CASE ~ Observed(s) /\ g = e
      <4>1. export[e].stamp \in Nat
        BY <1>1 DEF Requests
      <4> QED
        BY <2>1, <3>1, <3>3, <4>1
    <3>4. CASE ~ Observed(s) /\ g # e
      <4>1. export[g].step = "updating" /\ export'[e] = export[e]
        BY <2>5, <3>4, UpdateSessionMoves DEF UpdateSession, OnlyMoves
      <4>2. export[e].step = "updating"
        BY <2>1, <3>4 DEF Updating, RecordedIsTracked, s
      <4>3. Update(e) \in overlapped
        BY <2>5, <3>4, <4>1, <4>2 DEF UpdatesTakeTurns, Updating, s
      <4> QED
        BY <1>2, <4>3
    <3> QED
      BY <3>2, <3>3, <3>4
  <2>6. sessions'[s].firstSeen <= export'[e].stamp
    BY <1>3, <2>3, <2>4, <2>5, WhatUpdatesLeave
  <2> QED
    BY <1>1, <2>6 DEF s
<1> QED
  BY <1>4, <1>5

\* The entry of a peer does not fall behind a report that had it to itself.
LEMMA PeerSeenStep ==
    ASSUME TypeInv, ReportsTakeTurns, LastSeenIsCurrent, [Next]_vars,
           NEW g \in Exports, export'[g].step \in Recorded, <<g, 0>> \notin overlapped'
    PROVE  peers'[export'[g].peer] >= export'[g].seen
<1>1. /\ export[g].step \in Steps
      /\ export'[g].peer = export[g].peer
      /\ export'[g].seen = export[g].seen
      /\ export[g].step \in Recorded \/ RecordPeer(g)
  BY HowRequestsGetOn
<1>2. export[g].peer \in Peers /\ export[g].seen \in Nat
  BY <1>1, AtAStep DEF TypeInv, Requests
<1>3. CASE RecordPeer(g)
  BY <1>1, <1>2, <1>3, RecordPeerMoves
<1>4. CASE export[g].step \in Recorded
  <2>1. <<g, 0>> \notin overlapped
    BY ClockAndHistory
  <2>2. peers[export[g].peer] >= export[g].seen
    BY <1>4, <2>1 DEF LastSeenIsCurrent, Recorded
  <2>3. ~ Restart
    <3>1. Restart => export'[g].step \in {"done", "unused"}
      BY DEF Restart, Done, Unused
    <3> QED
      BY <3>1 DEF Recorded, Steps
  <2>4. CASE UNCHANGED peers
    BY <1>1, <2>2, <2>4
  <2>5. ASSUME NEW e \in Exports, RecordPeer(e), e # g
        PROVE  peers'[export[g].peer] >= export[g].seen
    <3>1. CASE export[e].peer = export[g].peer
      <4>1. export[e].step = "recording"
        BY <2>5 DEF RecordPeer
      <4>2. export[e].seen \in Nat
        BY <4>1, AtAStep DEF TypeInv, Steps, Requests
      <4>3. export[g].seen <= export[e].seen
        BY <1>1, <1>4, <2>1, <2>5, <3>1, <4>1 DEF ReportsTakeTurns
      <4>4. peers'[export[g].peer] = export[e].seen
        BY <2>5, <3>1, RecordPeerMoves
      <4> QED
        BY <1>2, <4>2, <4>3, <4>4
    <3>2. CASE export[e].peer # export[g].peer
      BY <1>2, <2>2, <2>5, <3>2, RecordPeerMoves
    <3> QED
      BY <3>1, <3>2
  <2> QED
    BY <1>1, <1>3, <2>3, <2>4, <2>5, WhoChangesPeers
<1> QED
  BY <1>1, <1>3, <1>4

\* Nor does that of a session fall behind an update that had it to itself.
LEMMA SessionSeenStep ==
    ASSUME TypeInv, UpdatesTakeTurns, LastSeenIsCurrent, [Next]_vars,
           NEW g \in Exports, export'[g].step = "announcingSession",
           Update(g)' \notin overlapped'
    PROVE  sessions'[(Span(g).session)'].lastSeen >= export'[g].stamp
<1> DEFINE s == Span(g).session
<1>1. /\ export[g] \in Requests
      /\ Span(g)' = Span(g) /\ Update(g)' = Update(g)
      /\ export[g].step \in Updating
      /\ export'[g].stamp = export[g].stamp
      /\ export[g].step = "announcingSession" \/ UpdateSession(g)
  BY HowUpdatesGetOn, StampSessionMoves DEF Updating
<1>2. export[g].stamp \in Nat
  BY <1>1 DEF Requests
<1>3. s \in HoprSessions
  BY <1>1, SpanIsTyped DEF AtSpan, Updating, TypeInv, RequestsInOrder, RequestInOrder
<1>4. CASE UpdateSession(g)
  <2>1. sessions'[s].lastSeen = export[g].stamp
    BY <1>4, WhatUpdatesLeave
  <2> QED
    BY <1>1, <1>2, <2>1
<1>5. CASE export[g].step = "announcingSession"
  <2>1. Update(g) \notin overlapped
    BY <1>1, ClockAndHistory
  <2>2. sessions[s].lastSeen >= export[g].stamp
    BY <1>5, <2>1 DEF LastSeenIsCurrent
  <2>3. ~ Restart
    BY DEF Restart, Done, Unused
  <2>4. ASSUME sessions'[s] = sessions[s]
        PROVE  sessions'[s].lastSeen >= export[g].stamp
    BY <2>2, <2>4
  <2>5. ASSUME NEW e \in Exports, UpdateSession(e), Span(e).session = s
        PROVE  sessions'[s].lastSeen >= export[g].stamp
    <3>1. export[e].step = "updating" /\ e # g
      BY <1>5, <2>5 DEF UpdateSession
    <3>2. export[g].stamp <= export[e].stamp
      BY <1>5, <2>1, <2>5, <3>1 DEF UpdatesTakeTurns, Updating
    <3>3. sessions'[s].lastSeen = export[e].stamp /\ export[e].stamp \in Nat
      BY <2>5, WhatUpdatesLeave
    <3> QED
      BY <1>2, <3>2, <3>3
  <2> HIDE DEF s
  <2>6. sessions'[s].lastSeen >= export[g].stamp
    BY <1>3, <2>3, <2>4, <2>5, WhatUpdatesLeave
  <2> QED
    BY <1>1, <2>6 DEF s
<1> QED
  BY <1>1, <1>4, <1>5

\* No step puts an older reading over an update that had its entry to itself.
LEMMA LastSeenStep ==
    ASSUME TypeInv, ReportsTakeTurns, UpdatesTakeTurns, FirstSeenFirst', RecordedIsTracked',
           LastSeenIsCurrent, [Next]_vars
    PROVE  LastSeenIsCurrent'
<1>1. ASSUME NEW e \in Exports, export'[e].step \in Steps \ {"arrived", "recording"}
      PROVE  <<e, 0>> \in overlapped' \/ peers'[export'[e].peer] >= export'[e].seen
  BY <1>1, PeerSeenStep DEF Recorded
<1>2. ASSUME NEW e \in Exports, export'[e].step = "announcingSession",
             Update(e)' \notin overlapped'
      PROVE  /\ sessions'[(Span(e).session)'].firstSeen <= export'[e].stamp
             /\ sessions'[(Span(e).session)'].lastSeen >= export'[e].stamp
  <2>1. Observed(Span(e).session)'
    BY <1>2 DEF RecordedIsTracked
  <2>2. sessions'[(Span(e).session)'].firstSeen <= export'[e].stamp
    BY <1>2, <2>1 DEF FirstSeenFirst, Updating
  <2> QED
    BY <1>2, <2>2, SessionSeenStep
<1> QED
  BY <1>1, <1>2 DEF LastSeenIsCurrent

\* However exports wait for the locks, what an update recorded shows in the times of
\* its entry, but for updates that waited for the entry together.
THEOREM LastSeenCurrent == Spec => []LastSeenIsCurrent
<1>1. Init => /\ StampsArePast /\ RecordedIsTracked
              /\ ReportsTakeTurns /\ UpdatesTakeTurns /\ FirstSeenFirst
              /\ LastSeenIsCurrent
  BY DEF Init, StampsArePast, RecordedIsTracked, ReportsTakeTurns, UpdatesTakeTurns,
         FirstSeenFirst, LastSeenIsCurrent, Unused, Steps, Recorded, Updating, Observed
<1> QED
  BY <1>1, TypeInvariant, RecordedStep, StampsStep, TurnsStep, UpdateTurnsStep, FirstSeenStep,
     LastSeenStep, PTL DEF Spec
=============================================================================
