\* Violation: finished runs are resumed after a restart, their records never having been closed.
CONSTANTS
  TrackerFaults = FALSE
  Issues = {i1}
  MaxConcurrency = 1
  MaxTurns = 1
  MaxAttempts = 1
  Policies <- Policy
  Exclude <- Settled
  Lanes <- NoLanes
  LaneOf <- InNoLane
  LaneLimit <- NoLimits
  NoLane = NoLane
  FatalEvents <- NoFatal
  AttemptCap = 2
  MaxOperatorMoves = 1
  MaxSessions = 3
  MaxCrashes = 2
SPECIFICATION DaemonSpec
PROPERTIES OnlyCutOffRunsAreResumed
CHECK_DEADLOCK FALSE
