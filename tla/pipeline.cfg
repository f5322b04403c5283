\* One export of two items, one operator request at a time, one completed
\* session purged while telemetry is on its way, Ctrl-C and crashes anywhere.
CONSTANTS
    s1 = s1
    s2 = s2
    p1 = p1
    p2 = p2
    Sessions = {s1, s2}
    Peers = {p1, p2}
    PeerLists <- MCPeerLists
    Handlers = {h1}
    Retention = 0
    MaxTime = 1
    Disconnects = TRUE
    EarlyEnds = FALSE
    Restarts = TRUE
    BufferSize = 1
    BatchSize = 2
    FlushInterval = 5
    Exports = {e1}
    Items = 2
SPECIFICATION Spec
SYMMETRY MCSymmetry
VIEW MCView
INVARIANTS
    TypeOK
PROPERTIES
    IsCapture
    EndedTakesNoMore
