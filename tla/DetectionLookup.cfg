\* Violation: a run whose pull requests could not be looked up ends in the blocked gate.
\* Deadlock is not checked: a detection ends.
CONSTANTS
  States <- MStates
  Terminal <- MTerminal
  RoleOrder <- MRoleOrder
  Actor <- MActor
  CanClaim <- MCanClaim
  ClaimState <- MClaimState
  Transitions <- MTransitions
  RoleOf <- MRoleOf
  FromStates <- MFromStates
  ToState <- MToState
  Requires <- MRequires
  BlockedLabel = "blocked"
  ClaimLabel = "reviewing"
  ReadyLabel = "ready"
  None = None
  PullRequests = {p1}
  Speeches <- MSpeeches
  MaxChanges = 0
SPECIFICATION DetectionSpec
INVARIANTS LookupFailureDoesNotBlock
CHECK_DEADLOCK FALSE
