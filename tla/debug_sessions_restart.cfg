\* A restart loses the routes of the sessions that are still active.
CONSTANTS
    p1 = p1
    p2 = p2
    Sessions = {s1, s2}
    Peers = {p1, p2}
    PeerLists <- MCPeerLists
    Handlers = {h1, h2}
    Retention = 1
    MaxTime = 3
    Disconnects = FALSE
    EarlyEnds = FALSE
    Restarts = TRUE
SPECIFICATION Spec
INVARIANTS
    ActiveSessionsCaptured
