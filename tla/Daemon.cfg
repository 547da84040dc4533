\* Two crashes, three sessions, every recovery policy; no tracker call fails.
\* Deadlock is not checked: the bounds on sessions and crashes stop the daemon.
CONSTANTS
  TrackerFaults = FALSE
  Issues = {i1}
  MaxConcurrency = 1
  MaxTurns = 1
  MaxAttempts = 1
  Policies <- Policy
  Exclude <- Settled
  Lanes <- NoLanes
  LaneOf <- InNoLane
  LaneLimit <- NoLimits
  NoLane = NoLane
  FatalEvents <- NoFatal
  AttemptCap = 2
  MaxOperatorMoves = 1
  MaxSessions = 3
  MaxCrashes = 2
SPECIFICATION FairDaemonSpec
INVARIANTS DaemonTypeOK
PROPERTIES RecoveryReleasesClaims CarryNeverGoesBack 
CHECK_DEADLOCK FALSE
