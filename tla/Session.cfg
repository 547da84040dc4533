\* Two runs of up to two turns under every provider, policy, fault and timeout.
\* Deadlock is not checked: the bound on the runs ends a behaviour.
CONSTANTS
  Providers = {"claude_code", "codex"}
  Policies = {"resume_same_session", "new_session_with_summary", "fail_closed"}
  MaxTurns = 2
  MaxAttempts = 1
  StallBudget = 2
  TurnBudget = 3
  MaxRuns = 2
  MaxEvents = 4
SPECIFICATION FairSessionSpec
INVARIANTS SessionTypeOK AnnouncedFirst RecordsNameTheirConversation VerdictMatchesEvents ProcessesAccountedFor
PROPERTIES RunEnds
CHECK_DEADLOCK FALSE
