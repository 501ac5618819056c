SPECIFICATION Spec
CONSTANTS
  Stages = 5
  Decider <- MCDecider
  JumpTarget <- MCJumpTarget
  MaxRounds <- MCMaxRounds
  ReceivesFrom <- MCReceivesFrom
  MaxSteps = 9
  Unbounded = Unbounded
  Nobody = Nobody
INVARIANT FailureKeepsRounds
CHECK_DEADLOCK FALSE
