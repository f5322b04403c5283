\* Well-behaved clients, no restart: what create and end promise.
CONSTANTS
    p1 = p1
    p2 = p2
    Sessions = {s1, s2}
    Peers = {p1, p2}
    PeerLists <- MCPeerLists
    Handlers = {h1, h2, h3}
    Retention = 0
    MaxTime = 1
    Disconnects = FALSE
    EarlyEnds = FALSE
    Restarts = FALSE
SPECIFICATION FairSpec
INVARIANTS
    EndedSessionsRevert
    ActiveSessionsCaptured
PROPERTIES
    EndedSessionsEventuallyRevert
    ActiveSessionsEventuallyCaptured
