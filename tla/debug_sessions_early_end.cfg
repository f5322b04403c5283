\* A session ended between the commit of its creation and its registration with
\* the router is retained for good.
CONSTANTS
    p1 = p1
    p2 = p2
    Sessions = {s1, s2}
    Peers = {p1, p2}
    PeerLists <- MCPeerLists
    Handlers = {h1, h2}
    Retention = 1
    MaxTime = 3
    Disconnects = FALSE
    EarlyEnds = TRUE
    Restarts = FALSE
SPECIFICATION FairSpec
PROPERTIES
    EndedSessionsEventuallyRevert
