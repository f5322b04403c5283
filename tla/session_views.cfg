\* One reader at a time, pages of one row, and a capture that creates, fills in
\* batches of up to two, ends and purges two sessions meanwhile.
CONSTANTS
    s1 = s1
    s2 = s2
    p1 = p1
    p2 = p2
    i1 = i1
    i2 = i2
    i3 = i3
    i4 = i4
    i5 = i5
    Sessions = {s1, s2}
    Peers = {p1, p2}
    Records <- MCRecords
    MaxBatch = 2
    Readers = {r1}
    Limit = 1
    MaxPages = 3
SPECIFICATION SpecViews
SYMMETRY MCSymmetry
INVARIANTS
    TypeOK
    ShownWithItsPeers
    RowsComeFromShownPeers
    PageIsOfOneMoment
    NoRowSkipped
