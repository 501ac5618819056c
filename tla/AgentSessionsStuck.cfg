SPECIFICATION Spec
CONSTANTS
  r1 = r1
  r2 = r2
  r3 = r3
  Run <- TwoRuns
  MaxDepth = 1
  Budget = {2}
  Opening <- LowOpening
  Overlap = FALSE
  ResumeLive = FALSE
  NoSession = NoSession
INVARIANT ResumedRunProceeds
SYMMETRY RunSymmetry
CHECK_DEADLOCK FALSE
