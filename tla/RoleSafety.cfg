\* Two daemons that share the roles; calls may be rejected; one crash, one human move.
\* Deadlock is not checked: a settled issue and its daemons may rest.
CONSTANTS
  States <- PStates
  Terminal <- PTerminal
  RoleOrder <- PRoleOrder
  Actor <- PActor
  CanClaim <- PCanClaim
  ClaimState <- PClaimState
  Transitions <- PTransitions
  RoleOf <- PRoleOf
  FromStates <- PFromStates
  ToState <- PToState
  Requires <- PRequires
  BlockedLabel = "blocked_operator"
  ClaimLabel = "implementing"
  ReadyLabel = "ready_impl"
  None = None
  Daemons = {"a", "b"}
  Enabled <- Crew
  Exclude <- ExcludeDone
  Policies <- AllPolicies
  FaultModels <- Rejections
  FirstState = "ready_impl"
  MaxCrashes = 1
  MaxRecords = 1
  MaxHumanMoves = 1
SPECIFICATION Spec
INVARIANTS RoleTypeOK OneWorkerPerIssue WorkerKeepsItsState IdleIssueHasAState
PROPERTIES GatesNeedEvidence ImplementsHandoff
CHECK_DEADLOCK FALSE
