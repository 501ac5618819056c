SPECIFICATION FairSpec
CONSTANTS
  Stages = 5
  Decider <- MCDecider
  JumpTarget <- MCJumpTarget
  MaxRounds <- MCMaxRounds
  ReceivesFrom <- MCReceivesFrom
  MaxSteps = 12
  Unbounded = Unbounded
  Nobody = Nobody
INVARIANT TypeOK
INVARIANT RoundsBounded
INVARIANT OvershootBounded
INVARIANT EventsTellRounds
INVARIANT StopReasonIsTrue
INVARIANT AcceptsTheNewest
PROPERTY Terminates
CHECK_DEADLOCK FALSE
