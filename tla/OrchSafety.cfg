\* Every fault and fatal event, two lanes of one worker each, no operator.
\* Deadlock is not checked: a dead process takes no step.
CONSTANTS
  TrackerFaults = TRUE
  Issues = {i1, i2, i3}
  MaxConcurrency = 2
  MaxTurns = 1
  MaxAttempts = 1
  Policies = {"resume_same_session"}
  Exclude <- Settled
  Lanes <- TwoLanes
  LaneOf <- InLanes
  LaneLimit <- OneEach
  NoLane = NoLane
  FatalEvents <- AllFatal
  AttemptCap = 2
  MaxOperatorMoves = 0
SPECIFICATION Spec
INVARIANTS TypeOK WorkOnlyUnderClaim LimitsKept
PROPERTIES SettledStaysSettled ImplementsLifecycle HopelessRunIsLast
CHECK_DEADLOCK FALSE
