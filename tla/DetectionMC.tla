----------------------------- MODULE DetectionMC -----------------------------
(* An implementer, a reviewer and a leader as values of the constants of    *)
(* RoleGraph, and what the agent may have said.                             *)
EXTENDS Detection, TLC

MRoleOrder   == <<"implementer", "reviewer", "leader">>
MClaimState  == [implementer |-> "implementing", reviewer |-> "reviewing", leader |-> "leading"]
MRoles       == DOMAIN MClaimState
MStates      == {"ready", "implementing", "reviewing", "leading", "blocked", "merged"}
MTerminal    == {"merged"}
MActor       == [r \in MRoles |-> "agent"]
MCanClaim    == [r \in MRoles |-> {"ready"}]
MRoleOf      == [operator_blocked |-> "implementer", approved |-> "reviewer",
                 decision_to_impl |-> "leader"]
MTransitions == DOMAIN MRoleOf
MFromStates  == [t \in MTransitions |-> {MClaimState[MRoleOf[t]]}]
MToState     == [operator_blocked |-> "blocked", approved |-> "merged",
                 decision_to_impl |-> "ready"]
MRequires    == [operator_blocked |-> {"issue_comment"},
                 approved |-> {"pr_approval", "pr_merged"},
                 decision_to_impl |-> {"design_checklist"}]

Silence == [typed |-> None, claims |-> {}, spoken |-> None, noPR |-> "none", design |-> FALSE]

MSpeeches ==
  {Silence,
   [Silence EXCEPT !.noPR = "work"],
   [Silence EXCEPT !.noPR = "operator", !.design = TRUE],
   [Silence EXCEPT !.spoken = "approved"],
   [Silence EXCEPT !.spoken = "bogus", !.noPR = "work"],
   [Silence EXCEPT !.spoken = "approved", !.typed = "invalid"],
   [Silence EXCEPT !.typed = "invalid"],
   [Silence EXCEPT !.typed = "approved", !.claims = {"approval", "pass"}],
   [Silence EXCEPT !.typed = "decision_to_impl", !.claims = {"fail", "design"}, !.spoken = "approved"]}

PRSymmetry == Permutations(PullRequests)
=============================================================================
