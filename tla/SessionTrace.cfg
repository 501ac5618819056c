SPECIFICATION Spec
CONSTANTS
    MaxSteps <- TwoSteps
    Resumed <- AfterOne
    MaxTools <- TwoAtTheTop
    MaxQueries <- OneQuery
INVARIANT TreeIsTrue
INVARIANT UsageAgrees
INVARIANT SumCheckPasses
\* The run ends, and a killed process takes no step.
CHECK_DEADLOCK FALSE
