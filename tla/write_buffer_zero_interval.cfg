\* HOSE_WRITE_BUFFER_FLUSH_SECS=0: the flush task dies when it first runs.
CONSTANTS
    Records = {r1, r2, r3, r4}
    BufferSize = 2
    BatchSize = 2
    FlushInterval = 0
    Crashes = FALSE
SPECIFICATION Spec
PROPERTIES
    RefusedOnlyWhenFull
