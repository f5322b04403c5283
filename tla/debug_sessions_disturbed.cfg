\* Clients that disconnect, sessions ended before their create call returned,
\* restarts at any moment: what holds all the same.
CONSTANTS
    p1 = p1
    p2 = p2
    Sessions = {s1, s2}
    Peers = {p1, p2}
    PeerLists <- MCPeerLists
    Handlers = {h1, h2}
    Retention = 1
    MaxTime = 3
    Disconnects = TRUE
    EarlyEnds = TRUE
    Restarts = TRUE
SPECIFICATION Spec
INVARIANTS
    TypeOK
    RoutesMatchClaims
    OneEndWins
PROPERTIES
    StatusMovesForward
    KeptForRetention
