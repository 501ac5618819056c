SPECIFICATION FairSpec
CONSTANTS
    Messages <- MCMessages
    Workers = 2
INVARIANTS
    IInv
    AllOrNothing
    TraceFollowsCalls
PROPERTIES
    DispatchEnds
    ActsSequentially
CHECK_DEADLOCK FALSE
