\* Two exports at once, of one peer or of two, over sessions they share; a request
\* may be cancelled at any lock and the process restarted at any moment.
CONSTANTS
    p1 = p1
    p2 = p2
    s1 = s1
    s2 = s2
    tcp = tcp
    udp = udp
    Peers = {p1, p2}
    HoprSessions = {s1, s2}
    Protocols = {tcp, udp}
    PeerLabel = "hopr.peer_id"
    Resources <- MCResources
    SpanLists <- MCSpanLists
    HopModulus = 4
    Exports = {e1, e2}
    MaxTime = 3
    Restarts = TRUE
SPECIFICATION Spec
INVARIANTS
    TypeOK
    ParticipantsAreTrackedOnce
    EventsFollowState
    LastSeenIsCurrent
PROPERTIES
    SessionsOnlyGrow
