\* One retry, one process left behind at a time, one crash, one requeue.
\* Deadlock is not checked: an issue that was blocked is the end.
CONSTANTS
  TrackerFaults = FALSE
  MaxAttempts = 1
  Exclude = {"blocked", "done"}
  MaxLeftovers = 1
  MaxCrashes = 1
  MaxOperatorMoves = 1
SPECIFICATION FairSpec
INVARIANTS RemoteTypeOK CompletedIsGenuine CompletedHasItsArtifacts
PROPERTIES DispatchReturns FailuresSurface
CHECK_DEADLOCK FALSE
