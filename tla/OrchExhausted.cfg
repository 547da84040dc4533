\* Violation: an issue whose runs time out is retried without end.
CONSTANTS
  TrackerFaults = FALSE
  Issues = {i1, i2}
  MaxConcurrency = 1
  MaxTurns = 1
  MaxAttempts = 1
  Policies = {"resume_same_session"}
  Exclude <- Settled
  Lanes <- NoLanes
  LaneOf <- InNoLane
  LaneLimit <- NoLimits
  NoLane = NoLane
  FatalEvents <- NoFatal
  AttemptCap = 2
  MaxOperatorMoves = 0
SPECIFICATION FairSpec
PROPERTIES ExhaustedRetriesSurface
