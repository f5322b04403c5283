\* Three events through a channel that holds two: both pages lag, break off and
\* connect again, requests fail and overtake each other.
CONSTANTS
    p1 = p1
    p2 = p2
    e1 = e1
    e2 = e2
    Peers = {p1, p2}
    Exports = {e1, e2}
    Capacity = 2
    Cooldown = 2
    MaxRows = 1
    MaxEvents = 3
    MaxTime = 2
SPECIFICATION Spec
SYMMETRY MCSymmetry
INVARIANTS
    TypeOK
    CounterIsCurrentAtRest
    TracesAreRare
    InspectorShowsLatest
