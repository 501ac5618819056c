SPECIFICATION Spec
CONSTANTS
    Runs = {r1, r2}
    ConfigIds = {c}
    EvalIds = {"e"}
    CheckLists <- MCCheckLists
    Files <- MCFiles
    Answers <- MCAnswers
    Replies <- MCReplies
    Earlier <- MCEarlier
    Registered = {"exact_match", "judge", "trajectory"}
    Missing = Missing
    None = None
    Unused = Unused
    Deleted = Deleted
    Torn = Torn
INVARIANTS
    LastRunIsTrue
    GateHolds
    AcceptedGraphBuilds
SYMMETRY RunSymmetry
CHECK_DEADLOCK FALSE
