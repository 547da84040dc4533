------------------------------ MODULE Tracker ------------------------------
(***************************************************************************)
(* The label operations of GitHubTracker, as functions from the labels an  *)
(* issue carries to the set of answers the adapter can give.  One          *)
(* operation is one or more REST calls; a call answers, fails without      *)
(* having changed anything, or is applied by the server while its answer   *)
(* is lost (a client-side timeout), and then it raises all the same.       *)
(*                                                                         *)
(* The configured label names are abstracted to four fixed ones, and the   *)
(* comments the adapter posts are left out: no operation reads them back.  *)
(***************************************************************************)
CONSTANT TrackerFaults   \* may a REST call fail?

ASSUME TrackerFaultsAssumption == TrackerFaults \in BOOLEAN

Ready   == "ready"       \* github.ready_label, tracker.include_labels[0]
Running == "running"     \* github.claim_label
Blocked == "blocked"     \* github.blocked_label
Done    == "done"        \* github.done_label

Label == {Ready, Running, Blocked, Done}

(***************************************************************************)
(* What a caller sees of an operation: the labels it left on the issue and *)
(* whether it raised TrackerError.                                         *)
(***************************************************************************)
Answer == [raised : BOOLEAN, labels : SUBSET Label]

Ok(L)     == [raised |-> FALSE, labels |-> L]
Raised(L) == [raised |-> TRUE,  labels |-> L]

\* One REST call that turns the labels L into M.
Call(L, M) == {Ok(M)} \cup (IF TrackerFaults THEN {Raised(L), Raised(M)} ELSE {})

\* The claim and the ready label are dropped by two calls whose errors are
\* logged and forgotten, so any of the two may survive.
DropBestEffort(L) ==
  IF TrackerFaults THEN {L \ S : S \in SUBSET {Running, Ready}}
                   ELSE {L \ {Running, Ready}}

\* Mutant of AddThenDrop: the labels are dropped before the new one is added.
DropThenAdd(L, l) == UNION {Call(M, M \cup {l}) : M \in DropBestEffort(L)}

\* Add label l, and if that did not raise drop claim and ready label.
AddThenDrop(L, l) ==
  {a \in Call(L, L \cup {l}) : a.raised}
    \cup {Ok(M) : M \in DropBestEffort(L \cup {l})}

ReleaseIssue(L)     == Call(L, L \ {Running})
DequeueIssue(L)     == {Ok(M) : M \in DropBestEffort(L)}
MarkIssueDone(L)    == AddThenDrop(L, Done)
MarkIssueBlocked(L) == AddThenDrop(L, Blocked)

(***************************************************************************)
(* claim_issue re-reads the labels and answers "conflict" when the claim   *)
(* label is already there; only then does it post the label.               *)
(***************************************************************************)
ClaimConflict(L) == Running \in L
ClaimIssue(L)    == Call(L, L \cup {Running})

\* Mutant of IsCandidate: the excluded labels are not looked at.
IsCandidateUnfiltered(isOpen, L, Exclude) == isOpen /\ Ready \in L /\ Running \notin L

\* What fetch_candidate_issues keeps: an open issue that carries the
\* included label, no excluded label, and no claim.
IsCandidate(isOpen, L, Exclude) ==
  /\ isOpen
  /\ Ready \in L
  /\ L \cap Exclude = {}
  /\ Running \notin L
============================================================================
