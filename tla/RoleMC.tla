------------------------------- MODULE RoleMC -------------------------------
(* The production-line graph of symphony init, without the release role,    *)
(* as values of the constants of RoleHandoff.                               *)
EXTENDS RoleHandoff, TLC

PStates == {"ready_impl", "implementing", "ready_review", "reviewing",
            "changes_requested", "needs_design", "needs_leader", "blocked_operator",
            "leader_reviewing", "ready_verify", "verifying", "done"}
PTerminal  == {"done"}
PRoleOrder == <<"implementer", "reviewer", "leader", "verifier">>
PActor == [r \in {"implementer", "reviewer", "leader", "verifier"} |->
             CASE r = "leader" -> "hybrid" [] r = "verifier" -> "human" [] OTHER -> "agent"]
PCanClaim ==
  [implementer |-> {"ready_impl", "changes_requested"},
   reviewer    |-> {"ready_review"},
   leader      |-> {"needs_design", "needs_leader", "blocked_operator"},
   verifier    |-> {"ready_verify"}]
PClaimState ==
  [implementer |-> "implementing", reviewer |-> "reviewing",
   leader |-> "leader_reviewing", verifier |-> "verifying"]

\* One row per transition: its role, its source, its end, what it requires.
Row(r, from, to, requires) == [role |-> r, from |-> from, to |-> to, requires |-> requires]
Table ==
  [pr_delivered      |-> Row("implementer", "implementing", "ready_review", {"pr_link"}),
   design_needed     |-> Row("implementer", "implementing", "needs_design", {"issue_comment"}),
   operator_blocked  |-> Row("implementer", "implementing", "blocked_operator", {"issue_comment"}),
   no_work_needed    |-> Row("implementer", "implementing", "done", {"issue_comment"}),
   approved          |-> Row("reviewer", "reviewing", "ready_verify", {"pr_approval", "pr_merged"}),
   changes_requested |-> Row("reviewer", "reviewing", "changes_requested", {"review_comment"}),
   needs_leader      |-> Row("reviewer", "reviewing", "needs_leader", {"issue_comment"}),
   decision_to_impl  |-> Row("leader", "leader_reviewing", "ready_impl", {"design_checklist"}),
   decision_to_review |-> Row("leader", "leader_reviewing", "ready_review", {"design_checklist"}),
   verified          |-> Row("verifier", "verifying", "done", {"review_comment"}),
   verification_failed |-> Row("verifier", "verifying", "changes_requested", {"review_comment"})]

PTransitions == DOMAIN Table
PRoleOf      == [t \in PTransitions |-> Table[t].role]
PFromStates  == [t \in PTransitions |-> {Table[t].from}]
PToState     == [t \in PTransitions |-> Table[t].to]
PRequires    == [t \in PTransitions |-> Table[t].requires]

ExcludeDone == {"done"}
AllPolicies == {"resume_same_session", "new_session_with_summary", "fail_closed"}
Resuming    == {"resume_same_session"}

\* Daemon a implements, daemon b reviews and leads.
Crew == [d \in {"a", "b"} |-> IF d = "a" THEN {"implementer"} ELSE {"reviewer", "leader"}]

NoFault    == {{}}
Rejections == {{}, {"rejected"}}
=============================================================================
