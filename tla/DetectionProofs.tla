--------------------------- MODULE DetectionProofs ---------------------------
(***************************************************************************)
(* What the evidence detector may conclude, proved for every role graph,   *)
(* every set of pull requests, whatever the agent said and however often   *)
(* people change the pull requests while the detector asks.                *)
(***************************************************************************)
EXTENDS Detection, FiniteSetTheorems, TLAPS

----------------------------------------------------------------------------
(* The inductive invariant.                                                *)

Asking    == at \in {"by_head", "by_body"}
Commented == at \in {"threads", "issue_comments", "pr_comments"}

RunType == run \in Run /\ Callable(run)

GithubType ==
  /\ pr \in [PullRequests -> {"none", "open", "merged", "closed"}]
  /\ threads \subseteq PullRequests /\ touched \subseteq PullRequests
  /\ linkedBy \in [{"head", "body"} -> SUBSET PullRequests]
  /\ linkedBy["head"] \cup linkedBy["body"] = PullRequests
  /\ changes \in 0..MaxChanges

LookupType ==
  /\ at \in At /\ scope \in {"open", "all"}
  /\ answered \in [{"open", "all"} -> {"no", "failed", "not_found", "yes"}]
  /\ listed \subseteq PullRequests

GatesType ==
  /\ todo \subseteq listed /\ gated \subseteq listed /\ unread \subseteq listed
  /\ current \in PullRequests \cup {None} /\ approved \in BOOLEAN

TypeParts == RunType /\ GithubType /\ LookupType /\ GatesType /\ found \in Facts

\* A run that did not complete is not asked about, the preflight asks once,
\* and all pull requests are only asked for when an approval is requested.
Asked ==
  /\ run.terminal # "completed" =>
       /\ at \in {"derive", "done"} /\ listed = {}
       /\ found.design = FALSE
  /\ scope = "all" => RoleOutcome = "approved"
  /\ run.preflight => scope = "all"
  /\ run.preflight /\ Asking => ~found.merged
  /\ at = "nothing" => ~found.merged

\* A pull request that is listed is still to be read, being read, or read.
Reading ==
  /\ at \notin {"gates", "threads", "issue_comments", "pr_comments"} => todo = {}
  /\ Commented => current \in listed /\ current \notin todo
  /\ at = "threads" => current \notin gated
  /\ todo \cap gated = {} /\ unread \cap gated = {}
  /\ listed \subseteq gated \cup unread \cup todo \cup (IF at = "threads" THEN {current} ELSE {})

\* A fact has a pull request it was read from.
FromListed ==
  /\ found.merged => listed # {} /\ RoleOutcome = "approved"
  /\ found.approval \/ found.threads \/ found.checklists # {} => listed # {}

\* An open thread of a gate that was read is known, if it was there all the time.
ThreadsKnown == ~found.threads => threads \cap gated \cap Steady = {}

\* The lookup of the open ones has an answer once it is over, and misses none.
OpenSeen ==
  /\ answered["open"] = "no" =>
       run.preflight \/ run.terminal # "completed" \/ (Asking /\ scope = "open")
  /\ at = "by_body" /\ scope = "open" => \A p \in Steady \cap linkedBy["head"] : pr[p] # "open"
  /\ answered["open"] = "yes" => listed # {} \/ \A p \in Steady : pr[p] # "open"

\* So does that of all of them, unless another one is on the branch.
FirstOnBranch(p) == p \in linkedBy["head"] \/ \A q \in linkedBy["head"] : q \in Steady /\ pr[q] = "none"

AllSeen ==
  /\ at = "by_body" /\ scope = "all" => \A p \in Steady \cap linkedBy["head"] : pr[p] = "none"
  /\ answered["all"] = "yes" =>
       \A p \in Steady : pr[p] = "merged" /\ FirstOnBranch(p) => found.merged

Inductive ==
  /\ TypeParts /\ Asked /\ Reading /\ FromListed /\ ThreadsKnown /\ OpenSeen /\ AllSeen

----------------------------------------------------------------------------
(* The detector asks for pull requests.                                    *)

LEMMA FoundType ==
  /\ found \in Facts => /\ found.merged \in BOOLEAN /\ found.approval \in BOOLEAN
                        /\ found.threads \in BOOLEAN /\ found.design \in BOOLEAN
                        /\ found.checklists \subseteq {"pass", "fail"}
  BY DEF Facts

\* What a lookup goes on with is answered, and a merged pull request of the
\* answer is among it once all of them are asked for.
LEMMA PursuedFacts ==
  ASSUME NEW prs, scope \in {"open", "all"}
  PROVE  /\ Pursued(prs) \subseteq prs
         /\ scope = "open" => Pursued(prs) = prs
         /\ scope = "all" => \A p \in prs : pr[p] = "merged" => p \in Pursued(prs)
  BY DEF Pursued

\* The end of a lookup, whatever it was answered: with a proper answer it has
\* to contain what the properties are about.
LEMMA LookedUpKeepsInductive ==
  ASSUME Inductive, Asking,
         NEW how \in {"failed", "not_found", "yes"}, NEW prs \in SUBSET PullRequests,
         LookedUp(how, prs), UNCHANGED <<run, github>>,
         how = "yes" /\ scope = "open" => prs # {} \/ \A p \in Steady : pr[p] # "open",
         how = "yes" /\ scope = "all" =>
           \A p \in Steady : pr[p] = "merged" /\ FirstOnBranch(p) => p \in prs
  PROVE  Inductive'
<1> DEFINE pursued == Pursued(prs)
<1>1. /\ answered' = [answered EXCEPT ![scope] = how]
      /\ listed' = listed \cup pursued
      /\ todo' = pursued \ gated
      /\ found' = [found EXCEPT !.merged = @ \/ (scope = "all" /\ \E p \in pursued : pr[p] = "merged")]
      /\ at' = IF run.preflight /\ pursued = {} THEN "nothing" ELSE "gates"
      /\ UNCHANGED <<scope, current, approved, gated, unread>>
      /\ UNCHANGED <<run, pr, threads, linkedBy, changes, touched>>
  BY DEF LookedUp, github
<1>2. /\ scope \in {"open", "all"} /\ found \in Facts
      /\ pursued \subseteq prs
      /\ scope = "open" => pursued = prs
      /\ scope = "all" => \A p \in prs : pr[p] = "merged" => p \in pursued
      /\ todo = {}
  BY PursuedFacts DEF Inductive, TypeParts, LookupType, Reading, Asking
<1> HIDE DEF pursued
<1>3. /\ found'.approval = found.approval /\ found'.threads = found.threads
      /\ found'.design = found.design /\ found'.checklists = found.checklists
      /\ found'.merged = (found.merged \/ (scope = "all" /\ \E p \in pursued : pr[p] = "merged"))
      /\ found' \in Facts
  BY <1>1, <1>2 DEF Facts
<1>4. RoleOutcome' = RoleOutcome
  BY <1>1 DEF RoleOutcome, TypedAction
<1>5. TypeParts'
  <2>1. RunType' /\ GithubType'
    BY <1>1 DEF Inductive, TypeParts, RunType, GithubType
  <2>2. LookupType'
    BY <1>1, <1>2 DEF Inductive, TypeParts, LookupType, At
  <2>3. GatesType'
    BY <1>1, <1>2 DEF Inductive, TypeParts, GatesType
  <2> QED
    BY <2>1, <2>2, <2>3, <1>3 DEF TypeParts
<1>6. Asked'
  <2>1. run.terminal = "completed"
    BY DEF Inductive, Asked, Asking
  <2>2. run.preflight => ~found.merged /\ scope = "all"
    BY DEF Inductive, Asked
  <2>3. at' = "nothing" => ~found'.merged
    BY <1>1, <1>3, <2>2
  <2>4. ~Asking'
    BY <1>1 DEF Asking
  <2> QED
    BY <2>1, <2>2, <2>3, <2>4, <1>1, <1>4 DEF Inductive, Asked
<1>7. Reading'
  BY <1>1, <1>2 DEF Inductive, Reading, Commented, Asking
<1>8. FromListed'
  <2>1. scope = "all" => RoleOutcome = "approved"
    BY DEF Inductive, Asked
  <2> QED
    BY <2>1, <1>1, <1>3, <1>4 DEF Inductive, FromListed
<1>9. ThreadsKnown' /\ Steady' = Steady
  BY <1>1, <1>3 DEF Inductive, ThreadsKnown, Steady
<1>10. OpenSeen'
  <2>1. answered'["open"] = (IF scope = "open" THEN how ELSE answered["open"])
    BY <1>1, <1>2 DEF Inductive, TypeParts, LookupType
  <2>2. answered'["open"] = "no" => run.preflight
    BY <2>1, <1>2 DEF Inductive, OpenSeen, Asking, Asked
  <2>3. answered'["open"] = "yes" => listed' # {} \/ \A p \in Steady : pr[p] # "open"
    BY <2>1, <1>1, <1>2 DEF Inductive, OpenSeen
  <2> QED
    BY <2>2, <2>3, <1>1, <1>9 DEF OpenSeen
<1>11. AllSeen'
  <2>1. answered'["all"] = (IF scope = "all" THEN how ELSE answered["all"])
    BY <1>1, <1>2 DEF Inductive, TypeParts, LookupType
  <2>2. \A p : FirstOnBranch(p)' <=> FirstOnBranch(p)
    BY <1>1, <1>9 DEF FirstOnBranch
  <2>3. ASSUME answered'["all"] = "yes", NEW p \in Steady, pr[p] = "merged", FirstOnBranch(p)
        PROVE  found'.merged
    <3>1. CASE scope = "all"
      <4>1. p \in pursued
        BY <3>1, <2>1, <2>3, <1>2
      <4> QED
        BY <4>1, <3>1, <2>3, <1>3
    <3>2. CASE scope # "all"
      BY <3>2, <2>1, <2>3, <1>3 DEF Inductive, AllSeen
    <3> QED
      BY <3>1, <3>2
  <2> QED
    BY <2>2, <2>3, <1>1, <1>9 DEF AllSeen
<1> QED
  BY <1>5, <1>6, <1>7, <1>8, <1>9, <1>10, <1>11 DEF Inductive

LEMMA ByHeadKeepsInductive ==
  ASSUME Inductive, ByHead PROVE Inductive'
<1> DEFINE prs == Visible \cap linkedBy["head"]
<1>1. Asking /\ at = "by_head" /\ UNCHANGED <<run, github>>
  BY DEF ByHead, Asking
<1>2. /\ prs \in SUBSET PullRequests
      /\ \A p \in Steady \cap linkedBy["head"] :
           /\ pr[p] = "open" => p \in prs
           /\ scope = "all" /\ pr[p] # "none" => p \in prs
      /\ \A p \in prs : pr[p] # "none"
  BY DEF Visible, Steady, Inductive, TypeParts, GithubType
<1>3. CASE prs # {}
  <2>1. LookedUp("yes", prs)
    BY <1>3 DEF ByHead
  <2>2. ASSUME scope = "all", NEW p \in Steady, pr[p] = "merged", FirstOnBranch(p)
        PROVE  p \in prs
    <3>1. PICK q \in prs : TRUE
      BY <1>3
    <3>2. q \in linkedBy["head"] /\ pr[q] # "none"
      BY <1>2
    <3>3. p \in linkedBy["head"]
      BY <2>2, <3>2 DEF FirstOnBranch
    <3> QED
      BY <2>2, <3>3, <1>2
  <2> HIDE DEF prs
  <2> QED
    BY <1>1, <1>2, <1>3, <2>1, <2>2, LookedUpKeepsInductive
<1>4. CASE prs = {}
  <2>1. at' = "by_body" /\ UNCHANGED <<run, github, lookup, gates, found>>
    BY <1>1, <1>4 DEF ByHead
  <2>2. /\ scope = "open" => \A p \in Steady \cap linkedBy["head"] : pr[p] # "open"
        /\ scope = "all" => \A p \in Steady \cap linkedBy["head"] : pr[p] = "none"
    BY <1>2, <1>4
  <2> HIDE DEF prs
  <2>3. /\ UNCHANGED <<run, pr, threads, linkedBy, changes, touched, scope, answered, listed,
                      todo, current, approved, gated, unread, found>>
    BY <2>1 DEF github, lookup, gates
  <2>4. RoleOutcome' = RoleOutcome /\ Steady' = Steady
    BY <2>3 DEF RoleOutcome, TypedAction, Steady
  <2>5. TypeParts'
    BY <2>1, <2>3 DEF Inductive, TypeParts, RunType, GithubType, LookupType, GatesType, At
  <2>6. Asked' /\ Reading' /\ FromListed' /\ ThreadsKnown'
    BY <1>1, <2>1, <2>3, <2>4
       DEF Inductive, Asked, Reading, FromListed, ThreadsKnown, Asking, Commented
  <2>7. OpenSeen'
    BY <1>1, <2>1, <2>2, <2>3, <2>4 DEF Inductive, OpenSeen, Asking
  <2>8. AllSeen'
    BY <1>1, <2>1, <2>2, <2>3, <2>4 DEF Inductive, AllSeen, FirstOnBranch
  <2> QED
    BY <2>5, <2>6, <2>7, <2>8 DEF Inductive
<1> QED
  BY <1>3, <1>4

LEMMA LookupKeepsInductive ==
  ASSUME Inductive, LookupFails \/ NotFound \/ ByBody PROVE Inductive'
<1>1. CASE LookupFails
  BY <1>1, LookedUpKeepsInductive DEF LookupFails, Asking
<1>2. CASE NotFound
  BY <1>2, LookedUpKeepsInductive DEF NotFound, Asking
<1>3. CASE ByBody
  <2> DEFINE prs == Visible \cap linkedBy["body"]
  <2>1. Asking /\ at = "by_body" /\ LookedUp("yes", prs) /\ UNCHANGED <<run, github>>
    BY <1>3 DEF ByBody, Asking
  <2>2. /\ prs \in SUBSET PullRequests
        /\ \A p \in Steady \cap linkedBy["body"] :
             /\ pr[p] = "open" => p \in prs
             /\ scope = "all" /\ pr[p] # "none" => p \in prs
        /\ \A p \in Steady : p \in linkedBy["head"] \/ p \in linkedBy["body"]
    BY DEF Visible, Steady, Inductive, TypeParts, GithubType
  <2> HIDE DEF prs
  <2>3. scope = "open" => prs # {} \/ \A p \in Steady : pr[p] # "open"
    BY <2>1, <2>2 DEF Inductive, OpenSeen
  <2>4. scope = "all" => \A p \in Steady : pr[p] = "merged" => p \in prs
    BY <2>1, <2>2 DEF Inductive, AllSeen
  <2> QED
    BY <2>1, <2>2, <2>3, <2>4, LookedUpKeepsInductive
<1> QED
  BY <1>1, <1>2, <1>3

----------------------------------------------------------------------------
(* The detector reads a gate.                                              *)

\* Of a step within the gates only the facts, the gates and the place change.
WithinGates ==
  /\ UNCHANGED <<run, github, lookup>>
  /\ at \notin {"by_head", "by_body", "derive", "done", "nothing"}
  /\ at' \notin {"by_head", "by_body", "derive", "nothing"}
  /\ found'.merged = found.merged

LEMMA WithinGatesFacts ==
  ASSUME Inductive, WithinGates
  PROVE  /\ Asked' /\ OpenSeen' /\ AllSeen'
         /\ RunType' /\ GithubType'
         /\ at' \in At => LookupType'
         /\ RoleOutcome' = RoleOutcome /\ Steady' = Steady
<1>1. UNCHANGED <<run, pr, threads, linkedBy, changes, touched, scope, answered, listed>>
  BY DEF WithinGates, github, lookup
<1>2. RoleOutcome' = RoleOutcome /\ Steady' = Steady
  BY <1>1 DEF RoleOutcome, TypedAction, Steady
<1>3. Asked'
  BY <1>1, <1>2 DEF Inductive, WithinGates, Asked, Asking
<1>4. OpenSeen'
  BY <1>1, <1>2 DEF Inductive, WithinGates, OpenSeen, Asked, Asking
<1>5. AllSeen'
  BY <1>1, <1>2 DEF Inductive, WithinGates, AllSeen, FirstOnBranch
<1>6. RunType' /\ GithubType' /\ (at' \in At => LookupType')
  BY <1>1 DEF Inductive, TypeParts, RunType, GithubType, LookupType
<1> QED
  BY <1>2, <1>3, <1>4, <1>5, <1>6

LEMMA GateFailsKeepsInductive ==
  ASSUME Inductive, GateFails PROVE Inductive'
<1>1. /\ at \in {"gates", "threads"} /\ at' = "gates" /\ current' = None /\ approved' = FALSE
      /\ UNCHANGED <<run, github, lookup, gated, found>>
      /\ UNCHANGED <<threads, touched, listed>>
  BY DEF GateFails, github, lookup
<1>2. PICK p \in IF at = "gates" THEN todo ELSE {current} :
        todo' = todo \ {p} /\ unread' = unread \cup {p}
  BY DEF GateFails
<1>3. p \in listed /\ p \notin gated
  BY <1>1, <1>2 DEF Inductive, TypeParts, GatesType, Reading, Commented
<1>4. Asked' /\ OpenSeen' /\ AllSeen' /\ RunType' /\ GithubType' /\ LookupType'
      /\ RoleOutcome' = RoleOutcome /\ Steady' = Steady
  BY <1>1, WithinGatesFacts DEF WithinGates, At
<1>5. GatesType' /\ found' \in Facts
  BY <1>1, <1>2, <1>3 DEF Inductive, TypeParts, GatesType
<1>6. Reading'
  BY <1>1, <1>2, <1>3 DEF Inductive, Reading, Commented
<1>7. FromListed' /\ ThreadsKnown'
  BY <1>1, <1>4 DEF Inductive, FromListed, ThreadsKnown
<1> QED
  BY <1>4, <1>5, <1>6, <1>7 DEF Inductive, TypeParts

LEMMA ReadReviewsKeepsInductive ==
  ASSUME Inductive, ReadReviews PROVE Inductive'
<1>1. /\ at = "gates" /\ at' = "threads" /\ approved' \in BOOLEAN
      /\ UNCHANGED <<run, github, lookup, gated, unread, found>>
      /\ UNCHANGED <<threads, touched, listed>>
  BY DEF ReadReviews, github, lookup
<1>2. PICK p \in todo : current' = p /\ todo' = todo \ {p}
  BY DEF ReadReviews
<1>3. p \in listed /\ p \notin gated /\ p \in PullRequests
  BY <1>2 DEF Inductive, TypeParts, LookupType, GatesType, Reading
<1>4. Asked' /\ OpenSeen' /\ AllSeen' /\ RunType' /\ GithubType' /\ LookupType'
      /\ RoleOutcome' = RoleOutcome /\ Steady' = Steady
  BY <1>1, WithinGatesFacts DEF WithinGates, At
<1>5. GatesType' /\ found' \in Facts
  BY <1>1, <1>2, <1>3 DEF Inductive, TypeParts, GatesType
<1>6. Reading'
  BY <1>1, <1>2, <1>3 DEF Inductive, Reading, Commented
<1>7. FromListed' /\ ThreadsKnown'
  BY <1>1, <1>4 DEF Inductive, FromListed, ThreadsKnown
<1> QED
  BY <1>4, <1>5, <1>6, <1>7 DEF Inductive, TypeParts

LEMMA ReadThreadsKeepsInductive ==
  ASSUME Inductive, ReadThreads PROVE Inductive'
<1>1. /\ at = "threads" /\ at' = "issue_comments"
      /\ found' = [found EXCEPT !.threads = @ \/ current \in threads,
                                !.approval = @ \/ approved \/ run.labelled]
      /\ gated' = gated \cup {current} /\ unread' = unread \ {current}
      /\ UNCHANGED <<run, github, lookup, todo, current, approved>>
      /\ UNCHANGED <<threads, touched, listed>>
  BY DEF ReadThreads, github, lookup
<1>2. current \in listed /\ current \notin todo
  BY <1>1 DEF Inductive, Reading, Commented
<1>3. /\ found \in Facts /\ run.labelled \in BOOLEAN /\ approved \in BOOLEAN
  BY DEF Inductive, TypeParts, GatesType, RunType, Run
<1>4. /\ found' \in Facts
      /\ found'.merged = found.merged /\ found'.design = found.design
      /\ found'.checklists = found.checklists
      /\ found'.threads = (found.threads \/ current \in threads)
  BY <1>1, <1>3 DEF Facts
<1>5. Asked' /\ OpenSeen' /\ AllSeen' /\ RunType' /\ GithubType' /\ LookupType'
      /\ RoleOutcome' = RoleOutcome /\ Steady' = Steady
  BY <1>1, <1>4, WithinGatesFacts DEF WithinGates, At
<1>6. GatesType'
  BY <1>1, <1>2 DEF Inductive, TypeParts, GatesType
<1>7. Reading'
  BY <1>1, <1>2 DEF Inductive, Reading, Commented
<1>8. FromListed'
  BY <1>1, <1>2, <1>4, <1>5 DEF Inductive, FromListed
<1>9. ThreadsKnown'
  BY <1>1, <1>4, <1>5 DEF Inductive, ThreadsKnown
<1> QED
  BY <1>4, <1>5, <1>6, <1>7, <1>8, <1>9 DEF Inductive, TypeParts

LEMMA ReadCommentsKeepsInductive ==
  ASSUME Inductive, ReadComments PROVE Inductive'
<1>1. /\ at \in {"issue_comments", "pr_comments"} /\ at' \in {"pr_comments", "gates"}
      /\ \/ at' = "pr_comments" /\ UNCHANGED <<current, approved>>
         \/ at' = "gates" /\ current' = None /\ approved' = FALSE
      /\ UNCHANGED <<run, github, lookup, todo, gated, unread>>
      /\ UNCHANGED <<threads, touched, listed>>
  BY DEF ReadComments, github, lookup
<1>2. PICK approval \in BOOLEAN, checklists \in SUBSET {"pass", "fail"} :
        found' = [found EXCEPT !.approval = @ \/ approval, !.checklists = @ \cup checklists]
  BY DEF ReadComments
<1>3. current \in listed /\ current \notin todo
  BY <1>1 DEF Inductive, Reading, Commented
<1>4. found \in Facts
  BY DEF Inductive, TypeParts
<1>5. /\ found' \in Facts
      /\ found'.merged = found.merged /\ found'.design = found.design
      /\ found'.threads = found.threads
  BY <1>2, <1>4 DEF Facts
<1>6. Asked' /\ OpenSeen' /\ AllSeen' /\ RunType' /\ GithubType' /\ LookupType'
      /\ RoleOutcome' = RoleOutcome /\ Steady' = Steady
  BY <1>1, <1>5, WithinGatesFacts DEF WithinGates, At
<1>7. GatesType'
  BY <1>1 DEF Inductive, TypeParts, GatesType
<1>8. Reading'
  BY <1>1, <1>3 DEF Inductive, Reading, Commented
<1>9. FromListed'
  BY <1>1, <1>3, <1>5, <1>6 DEF Inductive, FromListed
<1>10. ThreadsKnown'
  BY <1>1, <1>5, <1>6 DEF Inductive, ThreadsKnown
<1> QED
  BY <1>5, <1>6, <1>7, <1>8, <1>9, <1>10 DEF Inductive, TypeParts

LEMMA GatesReadKeepsInductive ==
  ASSUME Inductive, GatesRead PROVE Inductive'
<1>1. /\ at = "gates" /\ todo = {}
      /\ \/ RoleOutcome = "approved" /\ scope = "open" /\ at' = "by_head" /\ scope' = "all"
         \/ at' \in {"design", "done"} /\ scope' = scope
      /\ UNCHANGED <<run, pr, threads, linkedBy, changes, touched, answered, listed,
                     todo, current, approved, gated, unread, found>>
  BY DEF GatesRead, github, gates
<1>2. RoleOutcome' = RoleOutcome /\ Steady' = Steady
  BY <1>1 DEF RoleOutcome, TypedAction, Steady
<1>3. TypeParts'
  BY <1>1 DEF Inductive, TypeParts, RunType, GithubType, LookupType, GatesType, At
<1>4. Asked'
  BY <1>1, <1>2 DEF Inductive, Asked, Asking, TypeParts, LookupType
<1>5. Reading' /\ FromListed' /\ ThreadsKnown'
  BY <1>1, <1>2 DEF Inductive, Reading, Commented, FromListed, ThreadsKnown
<1>6. OpenSeen'
  BY <1>1, <1>2 DEF Inductive, OpenSeen, Asking, Asked
<1>7. AllSeen'
  BY <1>1, <1>2 DEF Inductive, AllSeen, FirstOnBranch
<1> QED
  BY <1>3, <1>4, <1>5, <1>6, <1>7 DEF Inductive

LEMMA LastStepKeepsInductive ==
  ASSUME Inductive, ReadDesign \/ Derive PROVE Inductive'
<1>1. CASE ReadDesign
  <2>1. /\ at = "design" /\ at' = "done"
        /\ UNCHANGED <<run, github, lookup, gates>>
        /\ UNCHANGED <<threads, touched, listed, todo, current, approved, gated, unread>>
    BY <1>1 DEF ReadDesign, github, lookup, gates
  <2>2. PICK complete \in BOOLEAN : found' = [found EXCEPT !.design = complete]
    BY <1>1 DEF ReadDesign
  <2>3. /\ found' \in Facts
        /\ found'.merged = found.merged /\ found'.approval = found.approval
        /\ found'.threads = found.threads /\ found'.checklists = found.checklists
    BY <2>2 DEF Inductive, TypeParts, Facts
  <2>4. Asked' /\ OpenSeen' /\ AllSeen' /\ RunType' /\ GithubType' /\ LookupType'
        /\ RoleOutcome' = RoleOutcome /\ Steady' = Steady
    BY <2>1, <2>3, WithinGatesFacts DEF WithinGates, At
  <2>5. GatesType'
    BY <2>1 DEF Inductive, TypeParts, GatesType
  <2>6. Reading' /\ FromListed' /\ ThreadsKnown'
    BY <2>1, <2>3, <2>4 DEF Inductive, Reading, Commented, FromListed, ThreadsKnown
  <2> QED
    BY <2>3, <2>4, <2>5, <2>6 DEF Inductive, TypeParts
<1>2. CASE Derive
  <2>1. /\ at = "derive" /\ at' = "done"
        /\ UNCHANGED <<run, pr, threads, linkedBy, changes, touched, scope, answered, listed,
                       todo, current, approved, gated, unread, found>>
    BY <1>2 DEF Derive, github, lookup, gates
  <2>2. RoleOutcome' = RoleOutcome /\ Steady' = Steady
    BY <2>1 DEF RoleOutcome, TypedAction, Steady
  <2>3. TypeParts'
    BY <2>1 DEF Inductive, TypeParts, RunType, GithubType, LookupType, GatesType, At
  <2>4. Asked' /\ Reading' /\ FromListed' /\ ThreadsKnown'
    BY <2>1, <2>2 DEF Inductive, Asked, Asking, Reading, Commented, FromListed, ThreadsKnown
  <2>5. OpenSeen' /\ AllSeen'
    BY <2>1, <2>2 DEF Inductive, OpenSeen, Asking, AllSeen, FirstOnBranch
  <2> QED
    BY <2>3, <2>4, <2>5 DEF Inductive
<1> QED
  BY <1>1, <1>2

----------------------------------------------------------------------------
(* People change a pull request: it is no longer one that stayed as it was.*)

LEMMA PeopleKeepInductive ==
  ASSUME Inductive, NEW p \in PullRequests, PullRequestMoves(p) \/ ThreadMoves(p)
  PROVE  Inductive'
<1>1. /\ Busy /\ Changed(p)
      /\ UNCHANGED <<run, linkedBy, at, scope, answered, listed, todo, current, approved,
                     gated, unread, found>>
  BY DEF PullRequestMoves, ThreadMoves, lookup, gates
<1>2. /\ \A q \in PullRequests \ {p} : pr'[q] = pr[q] /\ (q \in threads' <=> q \in threads)
      /\ pr' \in [PullRequests -> {"none", "open", "merged", "closed"}]
      /\ threads' \subseteq PullRequests
  <2>1. CASE PullRequestMoves(p)
    <3>1. PICK s \in CASE pr[p] = "open" -> {"merged", "closed"}
                       [] pr[p] \in {"none", "closed"} -> {"open"}
                       [] OTHER -> {} : pr' = [pr EXCEPT ![p] = s]
      BY <2>1 DEF PullRequestMoves
    <3>2. s \in {"open", "merged", "closed"} /\ threads' = threads
      BY <2>1, <3>1 DEF PullRequestMoves, Inductive, TypeParts, GithubType
    <3> QED
      BY <3>1, <3>2 DEF Inductive, TypeParts, GithubType
  <2>2. CASE ThreadMoves(p)
    BY <2>2 DEF ThreadMoves, Inductive, TypeParts, GithubType
  <2> QED
    BY <2>1, <2>2
<1>3. Steady' = Steady \ {p} /\ Steady \subseteq PullRequests
  BY <1>1 DEF Changed, Steady
<1>4. changes' \in 0..MaxChanges
  BY <1>1, DetectionAssumption DEF Changed, Busy, Inductive, TypeParts, GithubType
<1>5. RoleOutcome' = RoleOutcome
  BY <1>1 DEF RoleOutcome, TypedAction
<1>6. TypeParts'
  <2>1. RunType' /\ LookupType' /\ GatesType' /\ found' \in Facts
    BY <1>1 DEF Inductive, TypeParts, RunType, LookupType, GatesType
  <2>2. GithubType'
    BY <1>1, <1>2, <1>4 DEF Inductive, TypeParts, GithubType, Changed
  <2> QED
    BY <2>1, <2>2 DEF TypeParts
<1>7. Asked' /\ Reading' /\ FromListed'
  BY <1>1, <1>5 DEF Inductive, Asked, Asking, Reading, Commented, FromListed
<1>8. ThreadsKnown'
  BY <1>1, <1>2, <1>3 DEF Inductive, ThreadsKnown
<1>9. OpenSeen'
  BY <1>1, <1>2, <1>3 DEF Inductive, OpenSeen, Asking
<1>10. AllSeen'
  <2>1. \A q \in Steady' : FirstOnBranch(q)' => FirstOnBranch(q)
    BY <1>1, <1>2, <1>3 DEF FirstOnBranch
  <2> QED
    BY <2>1, <1>1, <1>2, <1>3 DEF Inductive, AllSeen
<1> QED
  BY <1>6, <1>7, <1>8, <1>9, <1>10 DEF Inductive

----------------------------------------------------------------------------
(* The theorems.                                                           *)

LEMMA InitInductive == DetectionInit => Inductive
<1> SUFFICES ASSUME DetectionInit PROVE Inductive
  OBVIOUS
<1>1. found = [merged |-> FALSE, approval |-> FALSE, threads |-> FALSE,
               checklists |-> {}, design |-> FALSE] /\ found \in Facts
  BY DEF DetectionInit, Facts
<1>2. /\ run \in Run /\ Callable(run)
      /\ at = (IF run.terminal = "completed" THEN "by_head" ELSE "derive")
      /\ scope = (IF run.preflight THEN "all" ELSE "open")
      /\ answered = [s \in {"open", "all"} |-> "no"]
      /\ listed = {} /\ todo = {} /\ current = None /\ approved = FALSE
      /\ gated = {} /\ unread = {} /\ changes = 0 /\ touched = {}
  BY DEF DetectionInit
<1>3. /\ linkedBy \in [{"head", "body"} -> SUBSET PullRequests]
      /\ linkedBy["head"] \cup linkedBy["body"] = PullRequests
  BY DEF DetectionInit
<1>4. 0 \in 0..MaxChanges
  BY DetectionAssumption
<1>5. TypeParts
  <2>1. GithubType
    BY <1>2, <1>3, <1>4 DEF DetectionInit, GithubType
  <2> QED
    BY <2>1, <1>1, <1>2 DEF TypeParts, RunType, LookupType, GatesType, At
<1>6. Asked
  BY <1>1, <1>2 DEF Asked, Asking, RoleOutcome, Callable
<1>7. Reading /\ FromListed /\ ThreadsKnown
  BY <1>1, <1>2 DEF Reading, Commented, FromListed, ThreadsKnown
<1>8. OpenSeen /\ AllSeen
  BY <1>2 DEF OpenSeen, AllSeen, Asking
<1> QED
  BY <1>5, <1>6, <1>7, <1>8 DEF Inductive

LEMMA NextInductive == Inductive /\ [DetectionNext]_dvars => Inductive'
<1> SUFFICES ASSUME Inductive, [DetectionNext]_dvars PROVE Inductive'
  OBVIOUS
<1>1. CASE Detector
  BY <1>1, LookupKeepsInductive, ByHeadKeepsInductive, GateFailsKeepsInductive,
     ReadReviewsKeepsInductive, ReadThreadsKeepsInductive, ReadCommentsKeepsInductive,
     GatesReadKeepsInductive, LastStepKeepsInductive DEF Detector
<1>2. CASE \E p \in PullRequests : PullRequestMoves(p) \/ ThreadMoves(p)
  BY <1>2, PeopleKeepInductive
<1>3. CASE UNCHANGED dvars
  <2>1. UNCHANGED <<run, pr, threads, linkedBy, changes, touched, at, scope, answered, listed,
                    todo, current, approved, gated, unread, found>>
    BY <1>3 DEF dvars, github, lookup, gates
  <2>2. RoleOutcome' = RoleOutcome /\ Steady' = Steady
    BY <2>1 DEF RoleOutcome, TypedAction, Steady
  <2>3. TypeParts'
    BY <2>1 DEF Inductive, TypeParts, RunType, GithubType, LookupType, GatesType
  <2>4. Asked' /\ Reading' /\ FromListed' /\ ThreadsKnown'
    BY <2>1, <2>2 DEF Inductive, Asked, Asking, Reading, Commented, FromListed, ThreadsKnown
  <2>5. OpenSeen' /\ AllSeen'
    BY <2>1, <2>2 DEF Inductive, OpenSeen, Asking, AllSeen, FirstOnBranch
  <2> QED
    BY <2>3, <2>4, <2>5 DEF Inductive
<1> QED
  BY <1>1, <1>2, <1>3 DEF DetectionNext

\* The decision, taken apart.
LEMMA DecidedFacts ==
  ASSUME run \in Run
  PROVE  /\ Decided \in Tasks \ {"retryable", "hopeless"}
         /\ Decided = "role_outcome" => RoleOutcome # None
         /\ RoleOutcome # None => Decided \in {"role_action_error", "role_outcome"}
         /\ run.preflight \/ ~ActionError => Decided # "role_action_error"
         /\ listed # {} => Decided \in {"role_action_error", "role_outcome", "with_pr"}
         /\ Decided = "with_pr" => listed # {}
         /\ Decided = "no_evidence" =>
              RoleOutcome = None /\ listed = {} /\ answered["open"] # "failed"
<1>1. run.preflight \in BOOLEAN /\ run.denials \in BOOLEAN /\ ActionError \in BOOLEAN
  BY DEF Run, ActionError
<1>2. CASE ~run.preflight /\ ActionError
  <2>1. Decided = "role_action_error"
    BY <1>1, <1>2 DEF Decided
  <2> QED
    BY <1>2, <2>1 DEF Tasks
<1>3. CASE ~(~run.preflight /\ ActionError) /\ RoleOutcome # None
  <2>1. Decided = "role_outcome"
    BY <1>1, <1>3 DEF Decided
  <2> QED
    BY <1>3, <2>1 DEF Tasks
<1>4. CASE ~(~run.preflight /\ ActionError) /\ RoleOutcome = None /\ listed # {}
  <2>1. Decided = "with_pr"
    BY <1>1, <1>4 DEF Decided
  <2> QED
    BY <1>4, <2>1 DEF Tasks
<1>5. CASE ~(~run.preflight /\ ActionError) /\ RoleOutcome = None /\ listed = {}
  <2>1. /\ Decided \in {"no_pr", "no_pr_design", "permission_denied", "no_evidence", "unknown"}
        /\ Decided = "no_evidence" => answered["open"] # "failed"
    BY <1>1, <1>5 DEF Decided
  <2> QED
    BY <1>5, <2>1 DEF Tasks
<1> QED
  BY <1>2, <1>3, <1>4, <1>5

\* The strengthening of the invariants below holds of every behaviour.
THEOREM DetectionInductive == DetectionSpec => []Inductive
  BY InitInductive, NextInductive, PTL DEF DetectionSpec

\* Type correctness; a pull request whose gate was read, or could not be, is a
\* listed one, and never both.
THEOREM DetectionTypeCorrect == DetectionSpec => []DetectionTypeOK
<1>1. Inductive => DetectionTypeOK
  <2> SUFFICES ASSUME Inductive PROVE DetectionTypeOK
    OBVIOUS
  <2>1. todo \subseteq PullRequests /\ unread \subseteq listed \ gated
    BY DEF Inductive, TypeParts, LookupType, GatesType, Reading
  <2> QED
    BY <2>1 DEF Inductive, TypeParts, RunType, GithubType, LookupType, GatesType, DetectionTypeOK
<1> QED
  BY <1>1, DetectionInductive, PTL

\* No open thread of a pull request is missed on the way to a verified
\* approval (_has_verified_pr_approval), unless its gate could not be read.
THEOREM ThreadsBlockApprovalCorrect == DetectionSpec => []ThreadsBlockApproval
<1>1. Inductive => ThreadsBlockApproval
  <2> SUFFICES ASSUME Inductive, at = "done", VerifiedApproval(Result)
               PROVE  threads \cap listed \cap Steady \subseteq unread
    BY DEF ThreadsBlockApproval
  <2>1. ~found.threads
    BY DEF VerifiedApproval, Result
  <2>2. listed \subseteq gated \cup unread
    BY DEF Inductive, Reading
  <2> QED
    BY <2>1, <2>2 DEF Inductive, ThreadsKnown
<1> QED
  BY <1>1, DetectionInductive, PTL

\* What the two lookups conclude about the pull requests that stayed as they
\* were is so (find_linked_pull_requests, detect).
THEOREM PullRequestsAreSeenCorrect == DetectionSpec => []PullRequestsAreSeen
<1>1. ASSUME Inductive PROVE NoEvidenceIsAbsence
  <2> SUFFICES ASSUME at = "done", Result.task = "no_evidence"
               PROVE  /\ answered["open"] \in {"yes", "not_found"}
                      /\ answered["open"] = "yes" => \A p \in Steady : pr[p] # "open"
    BY DEF NoEvidenceIsAbsence
  <2>1. run.terminal = "completed" /\ Decided = "no_evidence"
    BY DEF Result, Derived
  <2>2. RoleOutcome = None /\ listed = {} /\ answered["open"] # "failed"
    BY <1>1, <2>1, DecidedFacts DEF Inductive, TypeParts, RunType
  <2>3. ~run.preflight
    BY <1>1, <2>2, RoleGraphAssumption DEF Inductive, TypeParts, RunType, Callable, RoleOutcome
  <2>4. answered["open"] \in {"yes", "not_found"}
    BY <1>1, <2>1, <2>2, <2>3 DEF Inductive, TypeParts, LookupType, OpenSeen, Asking
  <2> QED
    BY <1>1, <2>2, <2>4 DEF Inductive, OpenSeen
<1>2. ASSUME Inductive PROVE MergedIsSeen
  <2> SUFFICES ASSUME at \in {"done", "nothing"}, answered["all"] = "yes",
                      NEW p \in Steady, pr[p] = "merged", FirstOnBranch(p)
               PROVE  at = "done" /\ found.merged
    BY DEF MergedIsSeen, FirstOnBranch
  <2>1. found.merged
    BY <1>2 DEF Inductive, AllSeen
  <2> QED
    BY <1>2, <2>1 DEF Inductive, Asked
<1>3. Inductive => PullRequestsAreSeen
  BY <1>1, <1>2 DEF PullRequestsAreSeen
<1> QED
  BY <1>3, DetectionInductive, PTL

\* Every outcome is one that the routing of RoleGraph is modelled for.
THEOREM ResultIsDetectableCorrect == DetectionSpec => []ResultIsDetectable
<1>1. ASSUME Inductive, at = "done" PROVE Result \in Outcome /\ Detectable(Result)
  <2> DEFINE told == run.terminal = "completed"
  <2>1. /\ run \in Run /\ Callable(run) /\ found \in Facts
        /\ run.speech \in Speech
        /\ run.speech.typed \in {"invalid", None} => run.speech.claims = {}
    BY <1>1, DetectionAssumption DEF Inductive, TypeParts, RunType, Run
  <2>2. /\ run.speech.typed \in Name \cup {"invalid", None}
        /\ run.speech.spoken \in Name \cup {None} /\ run.speech.claims \subseteq Claim
    BY <2>1 DEF Speech
  <2>3. /\ RoleOutcome \in Transitions \cup {"bogus", None}
        /\ run.preflight => told /\ RoleOutcome # None
    BY <2>1, <2>2, RoleGraphAssumption DEF RoleOutcome, TypedAction, Callable, Name
  <2>4. \A c : ToldBy(c) => RoleOutcome # None /\ ~ActionError
    BY <2>1, <2>2 DEF ToldBy, RoleOutcome, TypedAction, ActionError
  <2>5. /\ Result.merged = found.merged /\ Result.threads = found.threads
        /\ Result.linked = (listed # {})
        /\ Result.task = (IF told THEN Decided ELSE Derived)
        /\ Result.name = (IF Result.task = "role_outcome" THEN RoleOutcome ELSE None)
        /\ Result.approval = (found.approval \/ (told /\ ToldBy("approval")))
        /\ Result.checklists = found.checklists
             \cup (IF told THEN {c \in {"pass", "fail"} : ToldBy(c)} ELSE {})
        /\ Result.design = (\/ found.design
                            \/ told /\ ~run.preflight /\ (ToldBy("design") \/ run.speech.design))
    BY DEF Result
  <2>6. Derived \in {"hopeless", "retryable", "unknown"}
    BY <2>1 DEF Derived, Run
  <2>7. Result \in Outcome
    <3>1. /\ Result.task \in Tasks
          /\ Result.name \in Transitions \cup {"bogus", None}
      BY <2>1, <2>3, <2>5, <2>6, DecidedFacts DEF Tasks
    <3>2. /\ Result.linked \in BOOLEAN /\ Result.merged \in BOOLEAN
          /\ Result.threads \in BOOLEAN /\ Result.checklists \subseteq {"pass", "fail"}
      BY <2>1, <2>5 DEF Facts
    <3>3. Result.approval \in BOOLEAN /\ Result.design \in BOOLEAN
      BY <2>1, <2>5, Zenon DEF Facts
    <3>4. Result = [task |-> Result.task, name |-> Result.name, linked |-> Result.linked,
                    merged |-> Result.merged, approval |-> Result.approval,
                    threads |-> Result.threads, checklists |-> Result.checklists,
                    design |-> Result.design]
      BY DEF Result
    <3> HIDE DEF told
    <3> QED
      BY <3>1, <3>2, <3>3, <3>4 DEF Outcome
  <2>8. CASE told
    <3>1. Result.task = Decided
      BY <2>5, <2>8
    <3>2. (Result.name # None) = (Result.task = "role_outcome")
      BY <2>1, <2>5, <3>1, DecidedFacts
    <3>3. Result.merged => /\ Result.linked
                           /\ Result.name = "approved" \/ Result.task = "role_action_error"
      BY <1>1, <2>1, <2>3, <2>5, <3>1, DecidedFacts, RoleGraphAssumption
         DEF Inductive, FromListed
    <3>4. Result.approval \/ Result.checklists # {} =>
            Result.linked \/ Result.task = "role_outcome"
      BY <1>1, <2>1, <2>4, <2>5, <3>1, DecidedFacts DEF Inductive, FromListed
    <3>5. /\ Result.threads => Result.linked
          /\ Result.task = "with_pr" => Result.linked
          /\ Result.linked => Result.task \in {"with_pr", "role_outcome", "role_action_error"}
          /\ Result.design => Result.task \notin {"retryable", "hopeless"}
      BY <1>1, <2>1, <2>5, <3>1, DecidedFacts DEF Inductive, FromListed
    <3> QED
      BY <2>7, <3>2, <3>3, <3>4, <3>5 DEF Detectable
  <2>9. CASE ~told
    <3>1. /\ Result.task \in {"hopeless", "retryable", "unknown"} /\ Result.name = None
          /\ listed = {} /\ ~Result.design
      BY <1>1, <2>5, <2>6, <2>9 DEF Inductive, Asked
    <3>2. ~Result.merged /\ ~Result.approval /\ ~Result.threads /\ Result.checklists = {}
      BY <1>1, <2>5, <2>9, <3>1 DEF Inductive, FromListed
    <3> QED
      BY <2>5, <2>7, <3>1, <3>2 DEF Detectable
  <2> QED
    BY <2>8, <2>9
<1>2. Inductive => ResultIsDetectable
  BY <1>1 DEF ResultIsDetectable
<1> QED
  BY <1>2, DetectionInductive, PTL
=============================================================================
