\* Every trigger is on; two days make a workspace old, and two an attempt.
\* Deadlock is not checked: no day need pass once nothing is queued.
CONSTANTS
  MaxAge = 2
  OnTerminal = TRUE
  OnClosedPr = TRUE
  DryRun = FALSE
  Retention = 2
  RoleStates = {"none", "ordinary", "terminal"}
  LastAttempt = 2
  MaxCrashes = 1
  MaxRequeues = 1
SPECIFICATION Spec
INVARIANTS WorkspaceTypeOK StartsFromBase
PROPERTIES KeptForInspection
CHECK_DEADLOCK FALSE
