\* Two pull requests however linked, one change while the detector asks, any call failing.
\* Deadlock is not checked: a detection ends.
CONSTANTS
  States <- MStates
  Terminal <- MTerminal
  RoleOrder <- MRoleOrder
  Actor <- MActor
  CanClaim <- MCanClaim
  ClaimState <- MClaimState
  Transitions <- MTransitions
  RoleOf <- MRoleOf
  FromStates <- MFromStates
  ToState <- MToState
  Requires <- MRequires
  BlockedLabel = "blocked"
  ClaimLabel = "reviewing"
  ReadyLabel = "ready"
  None = None
  PullRequests = {p1, p2}
  Speeches <- MSpeeches
  MaxChanges = 1
SPECIFICATION DetectionSpec
INVARIANTS DetectionTypeOK ResultIsDetectable ThreadsBlockApproval PullRequestsAreSeen
SYMMETRY PRSymmetry
CHECK_DEADLOCK FALSE
