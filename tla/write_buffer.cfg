\* Five records through a channel of two and batches of two, with failed
\* flushes, shutdowns, crashes and restarts.
CONSTANTS
    Records = {r1, r2, r3, r4, r5}
    BufferSize = 2
    BatchSize = 2
    FlushInterval = 5
    Crashes = TRUE
SPECIFICATION FairSpec
INVARIANTS
    TypeOK
    BufferBounded
    EachRecordOnce
PROPERTIES
    IsBestEffortStore
    AcceptedIsSettled
