------------------------------ MODULE Detection ------------------------------
(***************************************************************************)
(* How the evidence detector comes to the outcome that RoleGraph routes:   *)
(* EvidenceDetector.detect and detect_preflight_approved_review, one call  *)
(* to GitHub after the other.  Each call may fail, and people open, merge, *)
(* close and discuss pull requests between the calls.                      *)
(*                                                                         *)
(* GitHub's pull requests are the model's world; what a reviews or         *)
(* comments call finds is free.  The Outcome of RoleGraph is what the      *)
(* orchestrator reads out of the DetectorResult.                           *)
(***************************************************************************)
EXTENDS RoleGraph

CONSTANTS
  PullRequests,  \* those the issue may be linked to
  Speeches,      \* what the agent may have said at the end, see Speech
  MaxChanges     \* bound: changes at GitHub while the detector asks

\* typed: the type of the role_action of the last event, "invalid" when it is
\* malformed.  claims: the evidence entries of that action.  spoken: the
\* Symphony-Role-Outcome in the text.  noPR: the Symphony-No-PR, apart by
\* whether its reason asks for the operator.  design: a complete design
\* checklist in the text.
Name   == Transitions \cup {"bogus"}
Claim  == {"approval", "pass", "fail", "design"}
Speech == [typed : Name \cup {"invalid", None}, claims : SUBSET Claim,
           spoken : Name \cup {None}, noPR : {"none", "work", "operator"},
           design : BOOLEAN]

ASSUME DetectionAssumption ==
  /\ IsFiniteSet(PullRequests) /\ None \notin PullRequests
  /\ Speeches \subseteq Speech /\ MaxChanges \in Nat
  /\ \A s \in Speeches : s.typed \in {"invalid", None} => s.claims = {}

VARIABLES
  run,       \* what detect is called with, or that it is the preflight
  pr,        \* the state of each pull request at GitHub
  threads,   \* pull requests with an unresolved thread nobody has answered
  linkedBy,  \* pull requests on the issue's branch, and those naming the issue
  changes,   \* changes at GitHub so far
  at,        \* where the detector is
  scope,     \* the `state' of the pull request lookup in progress
  answered,  \* how the lookup of each scope ended
  listed,    \* pull requests with a pr_linked entry
  todo,      \* pull requests whose review gate is still to be read
  current,   \* the one being read
  approved,  \* does its reviews answer have an independent approval?
  gated,     \* pull requests with a gate entry other than a failed query
  unread,    \* pull requests whose gate query failed
  found,     \* what the entries say so far
  touched    \* history: pull requests that changed since the first call

github == <<pr, threads, linkedBy, changes, touched>>
lookup == <<scope, answered, listed>>
gates  == <<todo, current, approved, gated, unread>>
dvars  == <<run, github, at, lookup, gates, found>>

Run == [preflight : BOOLEAN,
        terminal  : {"none", "completed", "failed", "cancelled", "crashed"},
        retryable : BOOLEAN, blocked : BOOLEAN, denials : BOOLEAN,
        labelled  : BOOLEAN, speech : Speeches]

\* _is_retryable and non_retryable_failure, as the orchestrator computes them.
Callable(r) ==
  /\ r.blocked => r.terminal = "failed" /\ ~r.retryable
  /\ r.retryable => r.terminal \notin {"completed", "none"}
  /\ r.denials => r.terminal = "completed"
  /\ r.preflight => /\ r.terminal = "completed" /\ ~r.denials
                    /\ "approved" \in Transitions
                    /\ r.speech = CHOOSE s \in Speeches : TRUE  \* not looked at

At    == {"derive", "by_head", "by_body", "gates", "threads", "issue_comments",
          "pr_comments", "design", "done", "nothing"}
Facts == [merged : BOOLEAN, approval : BOOLEAN, threads : BOOLEAN,
          checklists : SUBSET {"pass", "fail"}, design : BOOLEAN]

DetectionTypeOK ==
  /\ run \in Run
  /\ pr \in [PullRequests -> {"none", "open", "merged", "closed"}]
  /\ threads \subseteq PullRequests /\ touched \subseteq PullRequests
  /\ linkedBy \in [{"head", "body"} -> SUBSET PullRequests]
  /\ changes \in 0..MaxChanges
  /\ at \in At /\ scope \in {"open", "all"}
  /\ answered \in [{"open", "all"} -> {"no", "failed", "not_found", "yes"}]
  /\ listed \subseteq PullRequests
  /\ todo \subseteq PullRequests /\ current \in PullRequests \cup {None}
  /\ approved \in BOOLEAN
  /\ gated \subseteq listed /\ unread \subseteq listed \ gated
  /\ found \in Facts

DetectionInit ==
  /\ run \in {r \in Run : Callable(r)}
  /\ pr \in [PullRequests -> {"none", "open", "merged", "closed"}]
  /\ threads \in SUBSET {p \in PullRequests : pr[p] # "none"}
  /\ linkedBy \in {l \in [{"head", "body"} -> SUBSET PullRequests] :
                     l["head"] \cup l["body"] = PullRequests}
  /\ changes = 0 /\ touched = {}
  /\ at = IF run.terminal = "completed" THEN "by_head" ELSE "derive"
  /\ scope = IF run.preflight THEN "all" ELSE "open"
  /\ answered = [s \in {"open", "all"} |-> "no"]
  /\ listed = {} /\ todo = {} /\ current = None /\ approved = FALSE
  /\ gated = {} /\ unread = {}
  /\ found = [merged |-> FALSE, approval |-> FALSE, threads |-> FALSE,
              checklists |-> {}, design |-> FALSE]

----------------------------------------------------------------------------
(* What the agent said.                                                    *)

TypedAction == run.speech.typed \notin {"invalid", None}
ActionError == run.speech.typed = "invalid"

\* The typed action first, the sentinel second.
RoleOutcome == IF run.preflight THEN "approved"
               ELSE IF TypedAction THEN run.speech.typed ELSE run.speech.spoken

ToldBy(c) == ~run.preflight /\ c \in run.speech.claims

----------------------------------------------------------------------------
(* The lookup of the linked pull requests (find_linked_pull_requests).     *)

\* Mutant of Visible: only open pull requests are ever asked for.
VisibleOpen == {p \in PullRequests : pr[p] = "open"}

Visible == {p \in PullRequests : pr[p] = "open" \/ (scope = "all" /\ pr[p] # "none")}

\* Which of the answered pull requests count.  For an approval they are those
\* that are merged or, failing those and outside the preflight, the open ones.
Pursued(prs) ==
  LET merged == {p \in prs : pr[p] = "merged"}
  IN IF scope = "open" THEN prs
     ELSE IF merged # {} \/ run.preflight THEN merged
     ELSE {p \in prs : pr[p] = "open"}

\* Mutant of LookedUp: gates that were read are read again.
LookedUpAgain(how, prs) ==
  LET pursued == Pursued(prs)
  IN /\ answered' = [answered EXCEPT ![scope] = how]
     /\ listed' = listed \cup pursued
     /\ todo' = pursued
     /\ found' = [found EXCEPT !.merged = @ \/ (scope = "all" /\ \E p \in pursued : pr[p] = "merged")]
     /\ at' = IF run.preflight /\ pursued = {} THEN "nothing" ELSE "gates"
     /\ UNCHANGED <<scope, current, approved, gated, unread>>

\* The lookup of this scope ends, with some pull requests to go on with.
LookedUp(how, prs) ==
  LET pursued == Pursued(prs)
  IN /\ answered' = [answered EXCEPT ![scope] = how]
     /\ listed' = listed \cup pursued
     /\ todo' = pursued \ gated
     /\ found' = [found EXCEPT !.merged = @ \/ (scope = "all" /\ \E p \in pursued : pr[p] = "merged")]
     /\ at' = IF run.preflight /\ pursued = {} THEN "nothing" ELSE "gates"
     /\ UNCHANGED <<scope, current, approved, gated, unread>>

\* Mutant of LookupFails: an error passes for an empty answer.
LookupFailsEmpty ==
  /\ at \in {"by_head", "by_body"}
  /\ LookedUp("yes", {})
  /\ UNCHANGED <<run, github>>

\* A GitHubError: of this scope nothing is known.
LookupFails ==
  /\ at \in {"by_head", "by_body"}
  /\ LookedUp("failed", {})
  /\ UNCHANGED <<run, github>>

\* The list of pull requests is answered by 404, which the first of the two
\* calls takes for an empty list.
NotFound ==
  /\ at = "by_head"
  /\ LookedUp("not_found", {})
  /\ UNCHANGED <<run, github>>

ByHead ==
  /\ at = "by_head"
  /\ LET prs == Visible \cap linkedBy["head"]
     IN IF prs # {} THEN LookedUp("yes", prs)
        ELSE at' = "by_body" /\ UNCHANGED <<lookup, gates, found>>
  /\ UNCHANGED <<run, github>>

ByBody ==
  /\ at = "by_body"
  /\ LookedUp("yes", Visible \cap linkedBy["body"])
  /\ UNCHANGED <<run, github>>

----------------------------------------------------------------------------
(* The review gate of one pull request.                                    *)

\* Either of the first two calls failed: of this gate nothing is recorded.
GateFails ==
  /\ at \in {"gates", "threads"}
  /\ \E p \in IF at = "gates" THEN todo ELSE {current} :
       todo' = todo \ {p} /\ unread' = unread \cup {p}
  /\ at' = "gates" /\ current' = None /\ approved' = FALSE
  /\ UNCHANGED <<run, github, lookup, gated, found>>

ReadReviews ==
  /\ at = "gates"
  /\ \E p \in todo : current' = p /\ todo' = todo \ {p}
  /\ approved' \in BOOLEAN
  /\ at' = "threads"
  /\ UNCHANGED <<run, github, lookup, gated, unread, found>>

\* Mutant of ReadThreads: the threads of an approved pull request are left.
ReadThreadsUnapproved ==
  /\ at = "threads"
  /\ found' = [found EXCEPT !.threads = @ \/ (current \in threads /\ ~approved),
                            !.approval = @ \/ approved \/ run.labelled]
  /\ gated' = gated \cup {current} /\ unread' = unread \ {current}
  /\ at' = "issue_comments"
  /\ UNCHANGED <<run, github, lookup, todo, current, approved>>

ReadThreads ==
  /\ at = "threads"
  /\ found' = [found EXCEPT !.threads = @ \/ current \in threads,
                            !.approval = @ \/ approved \/ run.labelled]
  /\ gated' = gated \cup {current} /\ unread' = unread \ {current}
  /\ at' = "issue_comments"
  /\ UNCHANGED <<run, github, lookup, todo, current, approved>>

\* The comments of the issue, then those of the pull request.  A failed call
\* is passed over, like comments without an approval and a checklist.
ReadComments ==
  /\ at \in {"issue_comments", "pr_comments"}
  /\ \E approval \in BOOLEAN, checklists \in SUBSET {"pass", "fail"} :
       found' = [found EXCEPT !.approval = @ \/ approval,
                              !.checklists = @ \cup checklists]
  /\ IF at = "issue_comments"
     THEN at' = "pr_comments" /\ UNCHANGED <<current, approved>>
     ELSE at' = "gates" /\ current' = None /\ approved' = FALSE
  /\ UNCHANGED <<run, github, lookup, todo, gated, unread>>

\* What follows the gates: for an approval the lookup of all pull requests,
\* for a decision of the leader the comments with the design checklist.
GatesRead ==
  /\ at = "gates" /\ todo = {}
  /\ IF RoleOutcome = "approved" /\ scope = "open"
     THEN at' = "by_head" /\ scope' = "all"
     ELSE /\ at' = IF RoleOutcome \in {"decision_to_impl", "decision_to_review"}
                   THEN "design" ELSE "done"
          /\ UNCHANGED scope
  /\ UNCHANGED <<run, github, answered, listed, gates, found>>

\* The last design checklist since the session began, if it is a complete one
\* and the call does not fail.
ReadDesign ==
  /\ at = "design" /\ at' = "done"
  /\ \E complete \in BOOLEAN : found' = [found EXCEPT !.design = complete]
  /\ UNCHANGED <<run, github, lookup, gates>>

----------------------------------------------------------------------------
(* The decision.                                                           *)

\* Mutant of Decided: a pull request goes before a role outcome.
DecidedByPullRequest ==
  IF ~run.preflight /\ ActionError THEN "role_action_error"
  ELSE IF listed # {}              THEN "with_pr"
  ELSE IF RoleOutcome # None       THEN "role_outcome"
  ELSE "unknown"

\* The outcome of a completed run.  The orchestrator looks at the error of a
\* role action before it looks at a role outcome.
Decided ==
  IF ~run.preflight /\ ActionError      THEN "role_action_error"
  ELSE IF RoleOutcome # None            THEN "role_outcome"
  ELSE IF listed # {}                   THEN "with_pr"
  ELSE IF run.speech.noPR = "work"      THEN "no_pr"
  ELSE IF run.speech.noPR = "operator"  THEN "no_pr_design"
  ELSE IF run.denials                   THEN "permission_denied"
  ELSE IF answered["open"] # "failed"   THEN "no_evidence"
  ELSE "unknown"

\* The outcome of any other run (_derive).
Derived ==
  CASE run.terminal = "failed" /\ run.blocked -> "hopeless"
    [] run.retryable                          -> "retryable"
    [] OTHER                                  -> "unknown"

Derive ==
  /\ at = "derive" /\ at' = "done"
  /\ UNCHANGED <<run, github, lookup, gates, found>>

\* The DetectorResult, once at = "done": nothing but the task for a run that
\* did not complete.
Result ==
  LET task == IF run.terminal = "completed" THEN Decided ELSE Derived
      told == run.terminal = "completed"
  IN [task       |-> task,
      name       |-> IF task = "role_outcome" THEN RoleOutcome ELSE None,
      linked     |-> listed # {},
      merged     |-> found.merged,
      approval   |-> found.approval \/ (told /\ ToldBy("approval")),
      threads    |-> found.threads,
      checklists |-> found.checklists
                       \cup (IF told THEN {c \in {"pass", "fail"} : ToldBy(c)} ELSE {}),
      design     |-> \/ found.design
                     \/ told /\ ~run.preflight /\ (ToldBy("design") \/ run.speech.design)]

----------------------------------------------------------------------------
(* The people at GitHub.                                                   *)

Changed(p) == changes' = changes + 1 /\ touched' = touched \cup {p}

Busy == at \notin {"derive", "done", "nothing"} /\ changes < MaxChanges

PullRequestMoves(p) ==
  /\ Busy
  /\ \E s \in CASE pr[p] = "open" -> {"merged", "closed"}
                [] pr[p] \in {"none", "closed"} -> {"open"}
                [] OTHER -> {} : pr' = [pr EXCEPT ![p] = s]
  /\ Changed(p)
  /\ UNCHANGED <<run, threads, linkedBy, at, lookup, gates, found>>

ThreadMoves(p) ==
  /\ Busy /\ pr[p] # "none"
  /\ threads' = IF p \in threads THEN threads \ {p} ELSE threads \cup {p}
  /\ Changed(p)
  /\ UNCHANGED <<run, pr, linkedBy, at, lookup, gates, found>>

Detector ==
  \/ LookupFails \/ NotFound \/ ByHead \/ ByBody
  \/ GateFails \/ ReadReviews \/ ReadThreads \/ ReadComments \/ GatesRead
  \/ ReadDesign \/ Derive

DetectionNext ==
  \/ Detector
  \/ \E p \in PullRequests : PullRequestMoves(p) \/ ThreadMoves(p)

DetectionSpec == DetectionInit /\ [][DetectionNext]_dvars

----------------------------------------------------------------------------
(* Properties.                                                             *)

Steady == PullRequests \ touched

\* Every outcome the detector can come to, the preflight's included, is one
\* that RoleGraph's routing is modelled for.
ResultIsDetectable ==
  at = "done" => Result \in Outcome /\ Detectable(Result)

\* A verified approval means that no listed pull request had an open thread
\* all the time, unless its gate could not be read (the last read counts).
ThreadsBlockApproval ==
  at = "done" /\ VerifiedApproval(Result) =>
    threads \cap listed \cap Steady \subseteq unread

\* A completed run is blocked as one without evidence only if GitHub said that
\* there is no open pull request: an error never passes for that, and a pull
\* request that is open all the time is found, however it is linked.
NoEvidenceIsAbsence ==
  at = "done" /\ Result.task = "no_evidence" =>
    /\ answered["open"] \in {"yes", "not_found"}
    /\ answered["open"] = "yes" => \A p \in Steady : pr[p] # "open"

\* When an approval is asked for and the lookup is answered, a merged pull
\* request is seen, if it is on the issue's branch or nothing else is.
MergedIsSeen ==
  at \in {"done", "nothing"} /\ RoleOutcome = "approved" /\ answered["all"] = "yes" =>
    \A p \in Steady :
      (/\ pr[p] = "merged"
       /\ p \in linkedBy["head"] \/ \A q \in linkedBy["head"] : q \in Steady /\ pr[q] = "none")
      => at = "done" /\ found.merged

\* What the lookups conclude about the pull requests is so.
PullRequestsAreSeen == NoEvidenceIsAbsence /\ MergedIsSeen

----------------------------------------------------------------------------
(* What the repository's documents say and the code does not do.           *)

\* "A transient GitHub failure during a completed run MUST NOT cause Symphony
\* to mark the issue blocked" (evidence.py): whatever the role of a run that
\* declared nothing, its routing does not begin at the blocked gate.
LookupFailureDoesNotBlock ==
  /\ at = "done" /\ run.terminal = "completed" /\ answered["open"] = "failed"
  /\ Result.task \in {"unknown", "permission_denied"}
  => \A r \in Roles :
       LET op == Head(Routing(r, ClaimState[r], TRUE, Result))
       IN op # Block /\ (op \in Transitions => ToState[op] # BlockedLabel)
=============================================================================
