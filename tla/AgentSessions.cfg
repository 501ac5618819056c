SPECIFICATION Spec
CONSTANTS
  r1 = r1
  r2 = r2
  r3 = r3
  Run <- TwoRuns
  MaxDepth = 1
  Budget = {2}
  Opening <- UnfilledOpening
  Overlap = TRUE
  ResumeLive = FALSE
  NoSession = NoSession
INVARIANT KilledRunIsResumable
INVARIANT ContinuationIsNewer
INVARIANT FinishedTaskLeavesNoCheckpoint
INVARIANT HintIsResumable
INVARIANT ResumedIsNewer
INVARIANT StepsLostOnlyToYoungContinuation
PROPERTY DeadCheckpointImmutable
SYMMETRY RunSymmetry
CHECK_DEADLOCK FALSE
