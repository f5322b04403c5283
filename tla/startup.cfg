\* One setting at a time in any of the layers, three statements of schema, and
\* two crashes, failures, shutdowns or taken ports anywhere.
\* With hours of 4 seconds and words of 24, 5 hours are too long for the clock and
\* 7 hours wrap to 1.
CONSTANTS
    Addresses = {"a", "g", "h"}
    Defaults <- MCDefaults
    Layerings <- MCLayerings
    HourSecs = 4
    Word = 24
    MaxPermits = 4
    MaxCutoffHours = 4
    Statements = 3
    MaxFaults = 2
SPECIFICATION FairSpec
INVARIANTS
    TypeOK
    RunsAsConfigured
PROPERTIES
    ReadyMeansWorking
    KeepsServing
