SPECIFICATION Spec
CONSTANTS
    Batches <- MCBatches
    MaxSteps = 4
    MaxSessions = 2
INVARIANTS
    IInv
    ReaderRestores
    RetiredIsCovered
    AlarmsAreTrue
CHECK_DEADLOCK FALSE
