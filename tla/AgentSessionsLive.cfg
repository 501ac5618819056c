SPECIFICATION FairSpec
CONSTANTS
  r1 = r1
  r2 = r2
  r3 = r3
  Run <- OneRun
  MaxDepth = 2
  Budget = {1, 3}
  Opening <- AnyOpening
  Overlap = FALSE
  ResumeLive = FALSE
  NoSession = NoSession
INVARIANT ChainWithinBudget
INVARIANT IInv
PROPERTY EveryRunEnds
CHECK_DEADLOCK FALSE
