SPECIFICATION FairSpec
CONSTANTS
    Tolerances <- MCTolerances
    Cap = 3
    Latency = 2
    MaxCalls = 2
INVARIANTS
    IInv
    TraceTellsOutcome
PROPERTIES
    EveryCallEnds
    KeepsPromise
CHECK_DEADLOCK FALSE
