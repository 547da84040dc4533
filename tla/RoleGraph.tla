----------------------------- MODULE RoleGraph -----------------------------
(***************************************************************************)
(* The role graph of a workflow and the pure decisions taken on it: which  *)
(* state an issue is in (resolve_issue_state), what a role may do there    *)
(* (plan_transition, plan_claim, plan_reverse_claim), and what the end of  *)
(* a run asks for and falls back to (_route_role_terminal_issue_state).    *)
(*                                                                         *)
(* Every state has one label, which stands for it: so do all graphs that   *)
(* symphony init writes.  The labels the legacy operations set and drop    *)
(* are state labels there, too.                                            *)
(***************************************************************************)
EXTENDS Integers, FiniteSets, Sequences

CONSTANTS
  States,        \* graph.states
  Terminal,      \* those that are terminal
  RoleOrder,     \* graph.roles, in the order of the file
  Actor,         \* role.actor
  CanClaim,      \* role.can_claim
  ClaimState,    \* role.claim_state, or None
  Transitions,   \* graph.transitions
  RoleOf,        \* transition.role
  FromStates,    \* transition.from_states
  ToState,       \* transition.to_state
  Requires,      \* transition.requires, without "none"
  BlockedLabel, ClaimLabel, ReadyLabel,  \* github.*_label
  None

Roles == {RoleOrder[k] : k \in DOMAIN RoleOrder}

Requirement == {"pr_link", "pr_approval", "pr_merged", "design_checklist",
                "issue_comment", "review_comment", "decision_comment"}

\* _validate_role_graph; the two names are those of operations, see Routing.
ASSUME RoleGraphAssumption ==
  /\ RoleOrder \in Seq(Roles)
  /\ IsFiniteSet(States) /\ None \notin States \cup Transitions
  /\ Transitions \cap {"release", "block"} = {}
  /\ Terminal \subseteq States
  /\ Actor \in [Roles -> {"agent", "human", "hybrid"}]
  /\ CanClaim \in [Roles -> SUBSET States]
  /\ ClaimState \in [Roles -> States \cup {None}]
  /\ RoleOf \in [Transitions -> Roles]
  /\ FromStates \in [Transitions -> SUBSET States]
  /\ ToState \in [Transitions -> States]
  /\ Requires \in [Transitions -> SUBSET Requirement]
  /\ {BlockedLabel, ClaimLabel, ReadyLabel} \subseteq States

----------------------------------------------------------------------------
(* Resolution.                                                             *)

\* The labels resolve to a state when exactly one matches.
Resolves(labels) == Cardinality(labels) = 1
StateIn(labels)  == CHOOSE s \in labels : TRUE

\* The first role of the file that can claim a state.
Claimants(s)    == {k \in DOMAIN RoleOrder : s \in CanClaim[RoleOrder[k]]}
DispatchRole(s) ==
  IF Claimants(s) = {} THEN None
  ELSE RoleOrder[CHOOSE k \in Claimants(s) : \A j \in Claimants(s) : k <= j]

ByAgent(r) == Actor[r] \in {"agent", "hybrid"}

\* Mutant of Dispatchable: agent.roles is not looked at.
DispatchableToAll(labels, enabled) ==
  /\ Resolves(labels)
  /\ LET r == DispatchRole(StateIn(labels))
     IN  r # None /\ ByAgent(r) /\ StateIn(labels) \notin Terminal /\ ClaimState[r] # None

\* Dispatchable to a daemon whose agent.roles are enabled, with a claim plan.
Dispatchable(labels, enabled) ==
  /\ Resolves(labels)
  /\ LET s == StateIn(labels)
         r == DispatchRole(s)
     IN  /\ r # None /\ ByAgent(r) /\ r \in enabled
         /\ s \notin Terminal
         /\ ClaimState[r] # None

\* The role whose claimed state the issue is in: _resolve_recovery_role.
Claimed(labels) ==
  IF ~Resolves(labels) THEN {}
  ELSE {r \in Roles : ClaimState[r] = StateIn(labels)}

----------------------------------------------------------------------------
(* Transitions.                                                            *)

\* Mutant of PlanTransition: the evidence is not checked.
PlanTransitionUnproven(r, t, from, evidence) ==
  IF t \notin Transitions           THEN "unknown_transition"
  ELSE IF RoleOf[t] # r             THEN "transition_role_mismatch"
  ELSE IF from \notin FromStates[t] THEN "source_state_not_allowed"
  ELSE "ok"

\* plan_transition: "ok", or the code of its TransitionError.
PlanTransition(r, t, from, evidence) ==
  IF t \notin Transitions                THEN "unknown_transition"
  ELSE IF RoleOf[t] # r                  THEN "transition_role_mismatch"
  ELSE IF from \notin FromStates[t]      THEN "source_state_not_allowed"
  ELSE IF ~(Requires[t] \subseteq evidence) THEN "missing_evidence"
  ELSE "ok"

\* The first of some transition names that is one of the role.
FirstTransition(r, names) ==
  LET own == {k \in DOMAIN names : names[k] \in Transitions /\ RoleOf[names[k]] = r}
  IN  IF own = {} THEN None
      ELSE names[CHOOSE k \in own : \A j \in own : k <= j]

----------------------------------------------------------------------------
(* What the evidence detector found out about a run, and what it asks for. *)

Tasks == {"role_outcome", "role_action_error", "with_pr", "no_pr", "no_pr_design",
          "no_evidence", "permission_denied", "unknown", "retryable", "hopeless"}

\* name: the transition a role outcome names, of this role or of any other.
\* The rest are the facts read from GitHub and the transcript: linked PR, PR
\* merged, approval evidence, unaddressed review threads, the verdicts of the
\* review checklists found, a complete design checklist.
Outcome == [task : Tasks, name : Transitions \cup {"bogus", None},
            linked : BOOLEAN, merged : BOOLEAN, approval : BOOLEAN,
            threads : BOOLEAN, checklists : SUBSET {"pass", "fail"}, design : BOOLEAN]

\* The outcomes detect can return, as far as the orchestrator reads them (an
\* invalid role action hides a role outcome).  A typed role action may claim
\* an approval and a checklist although there is no pull request.
Detectable(o) ==
  /\ (o.name # None) = (o.task = "role_outcome")
  /\ o.merged => o.linked /\ (o.name = "approved" \/ o.task = "role_action_error")
  /\ o.approval \/ o.checklists # {} => o.linked \/ o.task = "role_outcome"
  /\ o.threads => o.linked
  /\ o.task = "with_pr" => o.linked
  /\ o.linked => o.task \in {"with_pr", "role_outcome", "role_action_error"}
  /\ o.design => o.task \notin {"retryable", "hopeless"}

\* _has_verified_pr_approval.
VerifiedApproval(o) == o.approval /\ ~o.threads /\ "pass" \in o.checklists

ShouldBlock(o) == o.task \in {"hopeless", "no_evidence", "permission_denied", "no_pr_design"}

\* _role_transition_for_outcome.
Requested(r, o) ==
  CASE o.task = "role_outcome"  -> o.name
    [] o.task = "with_pr"       -> FirstTransition(r, <<"pr_delivered">>)
    [] o.task = "no_pr_design"  -> FirstTransition(r, <<"design_needed">>)
    [] o.task = "no_pr"         -> FirstTransition(r, <<"no_work_needed", "done">>)
    [] o.task \in {"hopeless", "no_evidence", "permission_denied"}
                                -> FirstTransition(r, <<"operator_blocked">>)
    [] OTHER                    -> None

\* _role_outcome_evidence_for_transition: what a role outcome attests to.
Attested(t, o) ==
  CASE t = "approved" ->
         {"review_comment"}
           \cup (IF VerifiedApproval(o) THEN {"pr_approval"} ELSE {})
           \cup (IF o.merged THEN {"pr_merged"} ELSE {})
    [] t = "changes_requested" -> {"review_comment"}
    [] t \in {"decision_to_impl", "decision_to_review", "verified", "verification_failed"} ->
         {"decision_comment", "review_comment"}
    [] t \in {"needs_leader", "design_needed", "operator_blocked", "no_work_needed"} ->
         {"issue_comment"}
    [] OTHER -> {"issue_comment", "review_comment", "decision_comment"}

\* _transition_evidence_for_outcome.
Evidence(t, o) ==
  (IF o.linked THEN {"pr_link"} ELSE {})
    \cup (IF o.name = t
            THEN Attested(t, o) \cup (IF o.design THEN {"design_checklist"} ELSE {})
            ELSE {})
    \cup (IF \/ t \in {"design_needed", "operator_blocked", "no_work_needed"}
             \/ o.task \in {"no_pr", "no_pr_design"} \/ ShouldBlock(o)
            THEN {"issue_comment"} ELSE {})

----------------------------------------------------------------------------
(* Terminal routing: the label operations a finished run tries, in order,  *)
(* until one is applied.  An operation is the name of a transition,        *)
(* Release (the reverse of the claim) or Block (mark_issue_blocked).       *)

Release == "release"
Block   == "block"

OnlyIf(cond, ops) == IF cond THEN ops ELSE <<>>

\* changes_requested, if the graph allows it here.
ChangesRequested(r, s) ==
  OnlyIf(PlanTransition(r, "changes_requested", s, {"review_comment"}) = "ok",
         <<"changes_requested">>)

\* _route_review_gate_needs_leader_override: a reviewer who asks for the
\* leader with a PR at hand is sent back to the open ends of the review.
Override(r, s, claimed, o) ==
  OnlyIf(s = "reviewing" /\ Requested(r, o) = "needs_leader" /\ o.linked,
         OnlyIf(o.threads, ChangesRequested(r, s))
           \o OnlyIf("pass" \notin o.checklists, ChangesRequested(r, s))
           \o OnlyIf(~o.approval /\ claimed, <<Release>>))

\* _route_role_fallback after the plan failed with some code.
Fallback(r, s, claimed, o, code) ==
  LET asked    == Requested(r, o)
      escalate == FirstTransition(r, <<"operator_blocked", "needs_leader">>)
      design   == asked \in {"decision_to_impl", "decision_to_review"}
                    /\ code = "missing_evidence"
      review   == asked = "approved" /\ code = "missing_evidence" /\ ~VerifiedApproval(o)
  IN  OnlyIf(design /\ claimed, <<Release>>)
        \o OnlyIf(review /\ (o.threads \/ "fail" \in o.checklists \/ "pass" \notin o.checklists),
                  ChangesRequested(r, s))
        \o OnlyIf(review /\ claimed, <<Release>>)
        \o OnlyIf(escalate \notin {None, asked}
                    /\ PlanTransition(r, escalate, s, {"issue_comment"}) = "ok",
                  <<escalate>>)
        \o <<Block>>

\* _route_role_terminal_issue_state of a worker of role r in state s.
Routing(r, s, claimed, o) ==
  LET asked == Requested(r, o)
      code  == PlanTransition(r, asked, s, Evidence(asked, o))
  IN  IF o.task = "role_action_error" THEN IF claimed THEN <<Release>> ELSE <<Block>>
      ELSE IF asked = None THEN Fallback(r, s, claimed, o, "no_transition_for_outcome")
      ELSE Override(r, s, claimed, o)
             \o IF code = "ok"
                  THEN <<asked>> \o Fallback(r, s, claimed, o, "apply_transition_failed")
                  ELSE Fallback(r, s, claimed, o, code)

\* A role that can escalate from its claimed state does so before it blocks the
\* issue.  It cannot when the graph gives it no such transition there, or only
\* one that requires more than the comment.
CannotEscalate(r) ==
  LET t == FirstTransition(r, <<"operator_blocked", "needs_leader">>)
  IN  t = None \/ PlanTransition(r, t, ClaimState[r], {"issue_comment"}) # "ok"
=============================================================================
