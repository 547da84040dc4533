---------------------------- MODULE RoleHandoff ----------------------------
(***************************************************************************)
(* One issue on its way through the role graph, between several daemons    *)
(* that share the repository (each with its own agent.roles) and a human.  *)
(*                                                                         *)
(* apply_transition_plan is not atomic: it adds the label of the new       *)
(* state, then deletes that of the old one, each by a REST call that may   *)
(* be rejected, or be applied although its answer is lost; the other       *)
(* daemons act in between.  The other issues of a daemon, its backoffs and *)
(* its slots (see Orchestrator) show here only in that any candidate may   *)
(* be passed over.                                                         *)
(***************************************************************************)
EXTENDS RoleGraph

CONSTANTS
  Daemons,
  Enabled,        \* agent.roles of each daemon
  Exclude,        \* tracker.exclude_labels
  Policies,       \* values of claude.retry_resume_policy considered
  FaultModels,    \* what may happen to a REST call, in the behaviours considered
  FirstState,     \* the state the issue begins in
  MaxCrashes,     \* bound: the crashes in one behaviour
  MaxRecords,     \* bound: more session records are not told apart
  MaxHumanMoves   \* bound: the human's moves in one behaviour

ASSUME RoleHandoffAssumption ==
  /\ Enabled \in [Daemons -> SUBSET Roles]
  /\ Exclude \subseteq States
  /\ Policies \subseteq {"resume_same_session", "new_session_with_summary", "fail_closed"}
  /\ FaultModels \subseteq SUBSET {"rejected", "lost"}
  /\ FirstState \in States
  /\ MaxCrashes \in Nat /\ MaxRecords \in Nat /\ MaxHumanMoves \in Nat

VARIABLES
  labels,   \* GitHub: the state labels of the issue
  policy,   \* claude.retry_resume_policy
  faults,   \* what may happen to a REST call: "rejected", "lost"
  job,      \* what each daemon is doing about the issue
  records,  \* the session records of the issue it has not stamped
  crashes, moves

vars == <<labels, policy, faults, job, records, crashes, moves>>

At == {"idle", "fetched", "claiming", "claimed", "preflight", "starting", "running",
       "routing", "releasing", "down", "recovering", "settling"}

Op   == Transitions \cup {Release, Block}
Call == [do : {"add", "delete", "try_delete"}, label : States]

\* The requirements Symphony can verify; the agent attests to the others.
Verifiable == {"pr_link", "pr_approval", "pr_merged", "design_checklist"}

\* seen: the labels last fetched; home: role_claim.from_state; calls: what is
\* left of an operation; tries: the operations routing has left, the current
\* one first; earned: the requirements the facts about the run fulfil; left:
\* the records recover has left, the current one included.
Job == [at : At, seen : SUBSET States, role : Roles \cup {None},
        home : States \cup {None}, calls : Seq(Call), tries : Seq(Op),
        earned : SUBSET Verifiable, left : 0..MaxRecords]

NoJob == [at |-> "idle", seen |-> {}, role |-> None, home |-> None, calls |-> <<>>,
          tries |-> <<>>, earned |-> {}, left |-> 0]

RoleTypeOK ==
  /\ labels \subseteq States
  /\ policy \in Policies
  /\ faults \in FaultModels
  /\ job \in [Daemons -> Job]
  /\ records \in [Daemons -> 0..MaxRecords]
  /\ crashes \in 0..MaxCrashes
  /\ moves \in 0..MaxHumanMoves

Init ==
  /\ labels = {FirstState}
  /\ policy \in Policies
  /\ faults \in FaultModels
  /\ job = [d \in Daemons |-> NoJob]
  /\ records = [d \in Daemons |-> 0]
  /\ crashes = 0 /\ moves = 0

Become(d, j) == job' = [job EXCEPT ![d] = j]

----------------------------------------------------------------------------
(* Operations as sequences of REST calls.                                  *)

Do(do, l)      == [do |-> do, label |-> l]
\* Mutant of Move: the old label is not deleted.
MoveAdding(from, to) == <<Do("add", to)>>

Move(from, to) == <<Do("add", to), Do("delete", from)>>

ReleaseClaim == <<Do("try_delete", ClaimLabel)>>
MarkBlocked  == <<Do("add", BlockedLabel), Do("try_delete", ClaimLabel),
                  Do("try_delete", ReadyLabel)>>

RoleState(j) == ClaimState[j.role]

\* Mutant of CallsOf: the reverse of a claim makes the issue ready again.
CallsOfReady(j, op) ==
  CASE op = Release -> Move(RoleState(j), ReadyLabel)
    [] op = Block   -> MarkBlocked
    [] OTHER        -> Move(RoleState(j), ToState[op])

CallsOf(j, op) ==
  CASE op = Release -> Move(RoleState(j), j.home)
    [] op = Block   -> MarkBlocked
    [] OTHER        -> Move(RoleState(j), ToState[op])

\* Mutant of Left: recover goes on after the last record.
LeftBeyond(j) ==
  IF j.left > 0 THEN [NoJob EXCEPT !.at = "recovering", !.seen = j.seen, !.left = j.left - 1]
                ELSE NoJob

\* A daemon that leaves an issue goes on with its recover, if it is in one:
\* the next record is decided on the labels fetched before the first.
Left(j) ==
  IF j.left > 1 THEN [NoJob EXCEPT !.at = "recovering", !.seen = j.seen, !.left = j.left - 1]
                ELSE NoJob

\* What an operation leads to when it was applied, and when it raised.
Applied(j) ==
  CASE j.at = "claiming" -> [j EXCEPT !.at = "claimed", !.calls = <<>>]
    [] OTHER             -> Left(j)

\* Mutant of Failed: a claim that raised is worked under.
FailedButClaimed(j) ==
  CASE j.at \in {"claiming", "preflight"} ->
         [j EXCEPT !.at = "starting", !.calls = <<>>, !.earned = {}]
    [] j.at = "routing" /\ Len(j.tries) > 1 ->
         [j EXCEPT !.tries = Tail(@), !.calls = CallsOf(j, j.tries[2])]
    [] OTHER -> Left(j)

Failed(j) ==
  CASE j.at = "preflight" -> [j EXCEPT !.at = "starting", !.calls = <<>>, !.earned = {}]
    [] j.at = "routing" /\ Len(j.tries) > 1 ->
         [j EXCEPT !.tries = Tail(@), !.calls = CallsOf(j, j.tries[2])]
    [] OTHER -> Left(j)

\* The next REST call.  A failed try_delete is logged, any other one raises.
CallGitHub(d) ==
  LET j == job[d]
      c == Head(j.calls)
      last == Len(j.calls) = 1
  IN  /\ j.calls # <<>>
      /\ \E answer \in {"ok"} \cup faults :
           /\ labels' = IF answer = "rejected" THEN labels
                        ELSE IF c.do = "add"   THEN labels \cup {c.label}
                        ELSE labels \ {c.label}
           /\ Become(d, IF answer # "ok" /\ c.do # "try_delete" THEN Failed(j)
                        ELSE IF last THEN Applied(j)
                        ELSE [j EXCEPT !.calls = Tail(@)])
           /\ records' = [records EXCEPT ![d] = IF job'[d].left < j.left THEN @ - 1 ELSE @]
  /\ UNCHANGED <<policy, faults, crashes, moves>>

----------------------------------------------------------------------------
(* A tick: fetch, claim, start.                                            *)

Fetch(d) ==
  /\ job[d].at = "idle"
  /\ labels \cap Exclude = {} /\ ClaimLabel \notin labels
  /\ Become(d, [NoJob EXCEPT !.at = "fetched", !.seen = labels])
  /\ UNCHANGED <<labels, policy, faults, records, crashes, moves>>

\* No slot, a backoff, not dispatchable to this daemon.
PassOver(d) ==
  /\ job[d].at = "fetched"
  /\ Become(d, NoJob)
  /\ UNCHANGED <<labels, policy, faults, records, crashes, moves>>

\* The claim goes by the labels as they were fetched.
Claim(d) ==
  LET j == job[d]
      s == StateIn(j.seen)
      r == DispatchRole(s)
  IN  /\ j.at = "fetched" /\ Dispatchable(j.seen, Enabled[d])
      /\ Become(d, [j EXCEPT !.at = "claiming", !.role = r, !.home = s, !.seen = {},
                             !.calls = Move(s, ClaimState[r])])
  /\ UNCHANGED <<labels, policy, faults, records, crashes, moves>>

\* A reviewer's claim of an issue whose PR is already merged and approved.
Verified == [task |-> "role_outcome", name |-> "approved", linked |-> TRUE, merged |-> TRUE,
             approval |-> TRUE, threads |-> FALSE, checklists |-> {"pass"}, design |-> FALSE]

Preflight(d) ==
  LET j == job[d]
  IN  /\ j.at = "claimed" /\ RoleState(j) = "reviewing"
      /\ PlanTransition(j.role, "approved", RoleState(j), Evidence("approved", Verified)) = "ok"
      /\ Become(d, [j EXCEPT !.at = "preflight", !.calls = CallsOf(j, "approved"),
                             !.earned = {"pr_link", "pr_approval", "pr_merged"}])
  /\ UNCHANGED <<labels, policy, faults, records, crashes, moves>>

MoreRecords(d) == [records EXCEPT ![d] = IF @ < MaxRecords THEN @ + 1 ELSE @]

Start(d) ==
  /\ job[d].at \in {"claimed", "starting"}
  /\ Become(d, [job[d] EXCEPT !.at = "running"])
  /\ records' = MoreRecords(d)
  /\ UNCHANGED <<labels, policy, faults, crashes, moves>>

StartFails(d) ==
  /\ job[d].at \in {"claimed", "starting"}
  /\ Become(d, [job[d] EXCEPT !.at = "releasing", !.calls = CallsOf(job[d], Release)])
  /\ UNCHANGED <<labels, policy, faults, records, crashes, moves>>

----------------------------------------------------------------------------
(* The end of a run.                                                       *)

Outcomes == {o \in Outcome : Detectable(o)}

\* What the facts prove, whatever the code makes of them.
Proved(o) ==
  {q \in Verifiable :
     CASE q = "pr_link"     -> o.linked
       [] q = "pr_merged"   -> o.merged
       [] q = "pr_approval" -> o.approval /\ ~o.threads /\ "pass" \in o.checklists
       [] OTHER             -> o.design}

\* What the end of a run may lead to, with every outcome: the operations that
\* routing tries, and the requirements that are proved.
Endings ==
  [r \in Roles |-> [home \in States \cup {None} |->
     {[tries |-> Routing(r, ClaimState[r], home # None, o), earned |-> Proved(o)] : o \in Outcomes}]]

Finish(d) ==
  LET j == job[d]
  IN  /\ j.at = "running"
      /\ \E e \in Endings[j.role][j.home] :
           Become(d, [j EXCEPT !.at = "routing", !.tries = e.tries,
                               !.calls = CallsOf(j, Head(e.tries)), !.earned = e.earned])
  /\ UNCHANGED <<labels, policy, faults, records, crashes, moves>>

----------------------------------------------------------------------------
(* Crash and recovery.                                                     *)

Crash(d) ==
  /\ crashes < MaxCrashes /\ job[d].at # "down"
  /\ crashes' = crashes + 1
  /\ Become(d, [NoJob EXCEPT !.at = "down"])
  /\ UNCHANGED <<labels, policy, faults, records, moves>>

\* recover fetches the issue once for all its records.
Restart(d) ==
  /\ job[d].at = "down"
  /\ Become(d, IF records[d] = 0 THEN NoJob
               ELSE [NoJob EXCEPT !.at = "recovering", !.seen = labels, !.left = records[d]])
  /\ UNCHANGED <<labels, policy, faults, records, crashes, moves>>

Actionable(j) == BlockedLabel \notin j.seen /\ j.seen \cap Exclude = {}

\* The agent roles of this daemon that claim the state the issue was in.
RecoveryRoles(d) == {r \in Claimed(job[d].seen) : ByAgent(r) /\ r \in Enabled[d]}

Settle(d, calls) ==
  /\ Become(d, [job[d] EXCEPT !.at = "settling", !.calls = calls])
  /\ UNCHANGED <<labels, policy, faults, records, crashes, moves>>

RecoverIneligible(d) ==
  job[d].at = "recovering" /\ ~Actionable(job[d]) /\ Settle(d, ReleaseClaim)

RecoverSkips(d) ==
  /\ job[d].at = "recovering" /\ Actionable(job[d]) /\ RecoveryRoles(d) = {}
  /\ Become(d, Left(job[d]))
  /\ records' = [records EXCEPT ![d] = @ - 1]
  /\ UNCHANGED <<labels, policy, faults, crashes, moves>>

Recovers(d) ==
  job[d].at = "recovering" /\ Actionable(job[d]) /\ RecoveryRoles(d) # {}

RecoverFailsClosed(d) == Recovers(d) /\ policy = "fail_closed" /\ Settle(d, MarkBlocked)

RecoverHandsOver(d) ==
  Recovers(d) /\ policy = "new_session_with_summary" /\ Settle(d, ReleaseClaim)

RestoreFails(d) == Recovers(d) /\ policy = "resume_same_session" /\ Settle(d, MarkBlocked)

\* The session is restored, or, when its provider session is not known, a new
\* one started under a record of its own.  There is no role_claim.
Resume(d) ==
  /\ Recovers(d) /\ policy = "resume_same_session"
  /\ \E r \in RecoveryRoles(d) : Become(d, [job[d] EXCEPT !.at = "running", !.role = r])
  /\ records' \in {records, MoreRecords(d)}
  /\ UNCHANGED <<labels, policy, faults, crashes, moves>>

Recovery(d) ==
  \/ RecoverIneligible(d) \/ RecoverSkips(d) \/ RecoverFailsClosed(d)
  \/ RecoverHandsOver(d) \/ RestoreFails(d) \/ Resume(d)

----------------------------------------------------------------------------
\* A human moves an issue that waits for a human role on to where one of the
\* transitions of that role leads.
HumanMoves ==
  /\ moves < MaxHumanMoves /\ moves' = moves + 1
  /\ \E t \in Transitions :
       /\ Actor[RoleOf[t]] = "human"
       /\ Resolves(labels) /\ StateIn(labels) \in CanClaim[RoleOf[t]]
       /\ labels' = {ToState[t]}
  /\ UNCHANGED <<policy, faults, job, records, crashes>>

Daemon(d) ==
  \/ Fetch(d) \/ PassOver(d) \/ Claim(d) \/ Preflight(d) \/ Start(d) \/ StartFails(d)
  \/ Finish(d) \/ CallGitHub(d) \/ Restart(d) \/ Recovery(d)

Next == HumanMoves \/ \E d \in Daemons : Daemon(d) \/ Crash(d)

Spec == Init /\ [][Next]_vars

(***************************************************************************)
(* Properties.                                                             *)
(***************************************************************************)

Working(d) == job[d].at = "running"

\* The daemons share the work by role: no role is enabled in two of them.
RolesAreShared == \A d, e \in Daemons : d # e => Enabled[d] \cap Enabled[e] = {}

\* No role can claim a state another role works in, nor does recovery or a
\* block put an issue there, and no state is both a human's and an agent's to
\* claim.  _validate_role_graph does not ask for it; all graphs that symphony
\* init writes are like this.
ClaimsAreExclusive ==
  \A q, r \in Roles :
    /\ ClaimState[r] \notin CanClaim[q] \cup {ReadyLabel}
    /\ Actor[q] = "human" /\ ByAgent(r) => CanClaim[q] \cap CanClaim[r] = {}

\* As long as no answer of GitHub is lost and nobody crashes.
Calm == crashes = 0 /\ "lost" \notin faults

\* Two daemons never run the same issue at once, although a claim goes by
\* labels fetched earlier and no claim checks for another.
OneWorkerPerIssue ==
  RolesAreShared /\ ClaimsAreExclusive /\ Calm =>
    \A d, e \in Daemons : Working(d) /\ Working(e) => d = e

\* In the same circumstances a worker's issue keeps the label of the state it
\* was claimed into until its own daemon routes it onward.
WorkerKeepsItsState ==
  RolesAreShared /\ ClaimsAreExclusive /\ Calm =>
    \A d \in Daemons : Working(d) => RoleState(job[d]) \in labels

\* Where the end of a run takes the issue is where it came from, the blocked
\* gate, or the end of a transition of the run's own role whose verifiable
\* requirements the run fulfils: on every path, the review gate's overrides,
\* the fallbacks and the preflight included, whatever calls fail.
GatesNeedEvidence ==
  [][\A d \in Daemons :
       job[d].at \in {"routing", "preflight"} /\ job'[d] # job[d] =>
         \A s \in labels' \ (labels \cup {job[d].home, BlockedLabel}) :
           \E t \in Transitions :
             /\ RoleOf[t] = job[d].role /\ ToState[t] = s
             /\ RoleState(job[d]) \in FromStates[t]
             /\ Requires[t] \cap Verifiable \subseteq job[d].earned]_vars

\* No transition leads back to where it starts (its one label would be added
\* and then deleted), and the labels that a block drops are neither that of the
\* blocked gate nor that of a role that blocks.  _validate_role_graph does not
\* ask for it; all graphs that symphony init writes are like this.
ProperMoves ==
  /\ \A t \in Transitions : ToState[t] \notin FromStates[t]
  /\ BlockedLabel \notin {ClaimLabel, ReadyLabel}
  /\ \A r \in Roles : ClaimState[r] = ClaimLabel => ~CannotEscalate(r)

\* In a graph like that, as long as no call fails and nobody crashes.
Undisturbed ==
  RolesAreShared /\ ClaimsAreExclusive /\ ProperMoves /\ faults = {} /\ crashes = 0

\* Then an issue nobody is busy with is in exactly one state; a role that cannot
\* escalate is the only one that may leave its claimed state and the blocked
\* gate on it together.
IdleIssueHasAState ==
  Undisturbed /\ (\A d \in Daemons : job[d].at = "idle") =>
    \/ Resolves(labels)
    \/ \E r \in Roles : CannotEscalate(r) /\ labels = {ClaimState[r], BlockedLabel}

(***************************************************************************)
(* The hand-off as one step: a claim is taken when its label is added, and *)
(* ends with the last call of the operation it ends by.                    *)
(***************************************************************************)

InRole == {"claiming", "claimed", "preflight", "starting", "running", "routing", "releasing"}

HasClaimed(j) ==
  j.at \in InRole /\ ~(j.at = "claiming" /\ j.calls = Move(j.home, RoleState(j)))

Holders == {d \in Daemons : HasClaimed(job[d])}

Place ==
  IF ~Undisturbed      THEN {}
  ELSE IF Holders = {} THEN labels
  ELSE {RoleState(job[d]) : d \in Holders}

Claims ==
  IF ~Undisturbed THEN {}
  ELSE {[by |-> d, role |-> job[d].role, from |-> job[d].home] : d \in Holders}

Handoff == INSTANCE IssueHandoff WITH place <- Place, claims <- Claims

\* The label operations of several calls, interleaved with those of the other
\* daemons and the human, implement the hand-off in one step.
ImplementsHandoff == Handoff!Spec
=============================================================================
