\* No fault, a slot for every issue, an operator who closes, exempts and requeues.
CONSTANTS
  TrackerFaults = FALSE
  Issues = {i1, i2}
  MaxConcurrency = 2
  MaxTurns = 2
  MaxAttempts = 1
  Policies = {"resume_same_session"}
  Exclude <- Settled
  Lanes <- NoLanes
  LaneOf <- InNoLane
  LaneLimit <- NoLimits
  NoLane = NoLane
  FatalEvents <- NoFatal
  AttemptCap = 2
  MaxOperatorMoves = 2
SPECIFICATION FairSpec
INVARIANTS NoOrphanedClaim
PROPERTIES ReadyIssueIsClaimed
