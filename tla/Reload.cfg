\* Two writes, one of them possibly between any two steps of the daemon.
\* Deadlock is not checked: a file that does not load keeps the daemon down.
CONSTANTS
  Fixed = {1, 2}
  Wired = {1, 2}
  MaxWrites = 2
  MaxMoves = 1
  MaxStarts = 2
SPECIFICATION FairSpec
INVARIANTS ReloadTypeOK LastKnownGood
PROPERTIES DispatchIsCurrent EditTakesEffect
CHECK_DEADLOCK FALSE
