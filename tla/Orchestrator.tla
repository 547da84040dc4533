---------------------------- MODULE Orchestrator ----------------------------
(***************************************************************************)
(* One Symphony daemon that dispatches to local workers, without a role    *)
(* graph: the poll tick (Orchestrator.run_once), the workers of a tick     *)
(* (_run_worker) and the retry bookkeeping (RetryState).                   *)
(*                                                                         *)
(* The daemon is one asyncio event loop.  run_once goes through its phases *)
(* alone; the workers it started run only once it awaits asyncio.gather,   *)
(* and run_once returns when the last of them has finished.  Within gather *)
(* the workers interleave at their awaits.  The operator and GitHub act at *)
(* any point.                                                              *)
(***************************************************************************)
EXTENDS Tracker, Integers, FiniteSets

CONSTANTS
  Issues,            \* the issues of the repository
  MaxConcurrency,    \* agent.max_concurrency
  MaxTurns,          \* agent.max_turns
  MaxAttempts,       \* retry.max_attempts
  Policies,          \* values of claude.retry_resume_policy considered
  Exclude,           \* tracker.exclude_labels
  Lanes,             \* the configured lanes; {} when none is
  LaneOf,            \* the first lane an issue matches, or NoLane
  LaneLimit,         \* lane.max_concurrency, agent.max_concurrency if unset
  NoLane,
  FatalEvents,       \* the exceptions that may escape run_once, see FatalEvent
  AttemptCap,        \* bound: attempts beyond it are not told apart
  MaxOperatorMoves   \* bound: what the operator does in one behaviour

(***************************************************************************)
(* What may end the process: a TrackerError of fetch_candidate_issues; an  *)
(* exception of a turn that is no ProviderError (the prompt does not       *)
(* render, an artifact cannot be written); an after_run hook that cannot   *)
(* be started because the workspace is gone; an interrupt (SIGINT).        *)
(***************************************************************************)
FatalEvent == {"fetch", "turn", "after_run", "interrupt"}

Policy == {"resume_same_session", "new_session_with_summary", "fail_closed"}

ASSUME OrchestratorAssumption ==
  /\ IsFiniteSet(Issues)
  /\ MaxConcurrency \in Nat \ {0}
  /\ MaxTurns \in Nat \ {0}
  /\ MaxAttempts \in Nat
  /\ AttemptCap \in Nat /\ AttemptCap > MaxAttempts
  /\ Policies \subseteq Policy
  /\ Exclude \subseteq Label
  /\ NoLane \notin Lanes
  /\ LaneOf \in [Issues -> Lanes \cup {NoLane}]
  /\ LaneLimit \in [Lanes -> Nat \ {0}]
  /\ FatalEvents \subseteq FatalEvent
  /\ MaxOperatorMoves \in Nat

VARIABLES
  open,          \* GitHub: the issues that are open
  labels,        \* GitHub: the labels of each issue
  moves,         \* moves the operator has made
  workflowValid, \* would the WORKFLOW.md on disk be accepted by a reload?
  policy,        \* claude.retry_resume_policy, which no reload changes
  phase,         \* where run_once is
  paused,        \* TickResult.dispatch_paused of this tick
  pending,       \* candidates _dispatch has not looked at yet
  slots,         \* slots_open of _dispatch
  starting,      \* the issue claimed but not yet started, as a set
  active,        \* the keys of Orchestrator.active
  stage,         \* where the worker of an issue is
  turns,         \* turns that were followed by another one
  terminal,      \* WorkerState.terminal_state, while there is a worker
  attempts,      \* RetryState.attempts; 0 when there is no RetryState
  next           \* RetryState.next_attempt_at: None, in the future, or past

github  == <<open, labels>>
tick    == <<phase, paused, pending, slots, starting>>
workers == <<active, stage, turns, terminal>>
retry   == <<attempts, next>>
env     == <<moves, workflowValid, policy>>
vars    == <<github, env, tick, workers, retry>>

Phase    == {"idle", "reconcile", "fetch", "dispatch", "gather", "dying", "dead"}
Stage    == {"none", "created", "turn", "closing", "escaping"}
Terminal == {"none", "completed", "failed", "cancelled", "crashed"}
NextAt   == {"none", "later", "due"}

TypeOK ==
  /\ open \in SUBSET Issues
  /\ labels \in [Issues -> SUBSET Label]
  /\ moves \in 0..MaxOperatorMoves
  /\ workflowValid \in BOOLEAN
  /\ policy \in Policy
  /\ phase \in Phase
  /\ paused \in BOOLEAN
  /\ pending \in SUBSET Issues
  /\ slots \in Int
  /\ starting \in SUBSET Issues
  /\ active \in SUBSET Issues
  /\ stage \in [Issues -> Stage]
  /\ turns \in [Issues -> 0..(MaxTurns - 1)]
  /\ terminal \in [Issues -> Terminal]
  /\ attempts \in [Issues -> 0..AttemptCap]
  /\ next \in [Issues -> NextAt]

Init ==
  /\ open = Issues
  /\ labels \in [Issues -> {{}, {Ready}}]
  /\ moves = 0
  /\ workflowValid = TRUE
  /\ policy \in Policies
  /\ phase = "idle" /\ paused = FALSE
  /\ pending = {} /\ slots = 0 /\ starting = {}
  /\ active = {}
  /\ stage = [i \in Issues |-> "none"]
  /\ turns = [i \in Issues |-> 0]
  /\ terminal = [i \in Issues |-> "none"]
  /\ attempts = [i \in Issues |-> 0]
  /\ next = [i \in Issues |-> "none"]

----------------------------------------------------------------------------
(* The tick.                                                               *)

\* run_once begins: a workflow file that a reload would reject pauses the
\* dispatch of this tick.  (The sweeps that follow touch only the disk.)
BeginTick ==
  /\ phase = "idle"
  /\ phase' = "reconcile"
  /\ paused' = ~workflowValid
  /\ UNCHANGED <<github, env, pending, slots, starting, workers, retry>>

Ineligible(i) == i \notin open \/ labels[i] \cap Exclude # {}

\* _reconcile cancels the active workers whose issue was closed or excluded
\* and releases their claims.  One request fetches the issues; when it fails
\* nothing is reconciled, and each release may fail on its own.
Reconcile ==
  /\ phase = "reconcile"
  /\ phase' = IF paused THEN "idle" ELSE "fetch"
  /\ \E cancelled \in {{i \in active : Ineligible(i)}}
                        \cup (IF TrackerFaults THEN {{}} ELSE {}) :
     \E unreleased \in IF TrackerFaults THEN SUBSET cancelled ELSE {{}} :
       /\ active' = active \ cancelled
       /\ stage' = [i \in Issues |-> IF i \in cancelled THEN "none" ELSE stage[i]]
       /\ terminal' = [i \in Issues |-> IF i \in cancelled THEN "none" ELSE terminal[i]]
       /\ labels' = [i \in Issues |->
                       IF i \in cancelled \ unreleased
                         THEN labels[i] \ {Running} ELSE labels[i]]
  /\ UNCHANGED <<open, env, paused, pending, slots, starting, turns, retry>>

\* fetch_candidate_issues, and the head of _dispatch.
FetchCandidates ==
  /\ phase = "fetch"
  /\ phase' = "dispatch"
  /\ pending' = {i \in Issues : IsCandidate(i \in open, labels[i], Exclude)}
  /\ slots' = MaxConcurrency - Cardinality(active)
  /\ UNCHANGED <<github, env, paused, starting, workers, retry>>

\* Nothing catches a TrackerError of fetch_candidate_issues: it leaves
\* run_once, run_forever and the process.
FetchFails ==
  /\ "fetch" \in FatalEvents
  /\ phase = "fetch"
  /\ phase' = "dead"
  /\ UNCHANGED <<github, env, paused, pending, slots, starting, workers, retry>>

----------------------------------------------------------------------------
(* _dispatch: the loop over the candidates.                                *)

\* Mutant of Dispatching: the next candidate is taken while a start is under way.
DispatchingAhead == phase = "dispatch" /\ slots > 0

Dispatching == phase = "dispatch" /\ starting = {} /\ slots > 0

\* Mutant of ShouldRun: a next_attempt_at that has passed is taken for none.
NeverRetried(i) == next[i] = "none"

\* RetryState.should_run; an issue without RetryState may always run.
ShouldRun(i) == next[i] # "later"

\* Mutant of LaneOpen: a lane at its limit takes another worker.
LaneOpenAtLimit(i) ==
  Lanes = {} \/ /\ LaneOf[i] # NoLane
                /\ Cardinality({j \in active : LaneOf[j] = LaneOf[i]})
                     <= LaneLimit[LaneOf[i]]

LaneOpen(i) ==
  Lanes = {} \/ /\ LaneOf[i] # NoLane
                /\ Cardinality({j \in active : LaneOf[j] = LaneOf[i]})
                     < LaneLimit[LaneOf[i]]

MayDispatch(i) == i \notin active /\ ShouldRun(i) /\ LaneOpen(i)

\* Not now, or claimed by somebody since the fetch.  The candidates come ordered
\* by their last update, which every label change and comment of anybody moves:
\* any order is possible.
Skip(i) ==
  /\ Dispatching
  /\ i \in pending /\ (~MayDispatch(i) \/ ClaimConflict(labels[i]))
  /\ pending' = pending \ {i}
  /\ UNCHANGED <<github, env, phase, paused, slots, starting, workers, retry>>

\* Mutant of Claim: the answer of claim_issue is not looked at.
ClaimAnyway(i) ==
  /\ Dispatching
  /\ i \in pending /\ MayDispatch(i)
  /\ ~ClaimConflict(labels[i])
  /\ pending' = pending \ {i}
  /\ \E a \in ClaimIssue(labels[i]) : labels' = [labels EXCEPT ![i] = a.labels]
  /\ starting' = {i}
  /\ UNCHANGED <<open, env, phase, paused, slots, workers, retry>>

Claim(i) ==
  /\ Dispatching
  /\ i \in pending /\ MayDispatch(i)
  /\ ~ClaimConflict(labels[i])
  /\ pending' = pending \ {i}
  /\ \E a \in ClaimIssue(labels[i]) :
       /\ labels' = [labels EXCEPT ![i] = a.labels]
       /\ starting' = IF a.raised THEN {} ELSE {i}
  /\ UNCHANGED <<open, env, phase, paused, slots, workers, retry>>

\* _on_worker_failed: another attempt after a backoff while max_attempts
\* allows one; otherwise next_attempt_at is None.
WorkerFailed(i, retryable) ==
  /\ attempts' = [attempts EXCEPT ![i] = IF @ < AttemptCap THEN @ + 1 ELSE @]
  /\ next' = [next EXCEPT ![i] =
                IF retryable /\ attempts[i] < MaxAttempts THEN "later" ELSE "none"]

\* A retry first asks the provider to restore a session record that has no
\* provider_session_id, which no provider accepts: what happens next is the
\* policy's choice.
FreshSessionAllowed(i) == attempts[i] = 0 \/ policy # "fail_closed"

\* Mutant of Start: slots_open is not decremented.
StartUncounted(i) ==
  /\ phase = "dispatch" /\ i \in starting
  /\ FreshSessionAllowed(i)
  /\ starting' = {}
  /\ active' = active \cup {i}
  /\ stage' = [stage EXCEPT ![i] = "created"]
  /\ UNCHANGED <<github, env, phase, paused, pending, slots, turns, terminal, retry>>

\* _start_worker returns: the workspace is prepared, the session started.
Start(i) ==
  /\ phase = "dispatch" /\ i \in starting
  /\ FreshSessionAllowed(i)
  /\ starting' = {}
  /\ active' = active \cup {i}
  /\ stage' = [stage EXCEPT ![i] = "created"]
  /\ slots' = slots - 1
  /\ UNCHANGED <<github, env, phase, paused, pending, turns, terminal, retry>>

\* Mutant of StartFails: the claim is not released.
StartFailsClaimed(i, retryable) ==
  /\ phase = "dispatch" /\ i \in starting
  /\ retryable => FreshSessionAllowed(i)
  /\ starting' = {}
  /\ WorkerFailed(i, retryable)
  /\ UNCHANGED <<github, env, phase, paused, pending, slots, workers>>

\* _start_worker raises: the claim is released and the failure recorded.
StartFails(i, retryable) ==
  /\ phase = "dispatch" /\ i \in starting
  /\ retryable => FreshSessionAllowed(i)
  /\ starting' = {}
  /\ \E a \in ReleaseIssue(labels[i]) : labels' = [labels EXCEPT ![i] = a.labels]
  /\ WorkerFailed(i, retryable)
  /\ UNCHANGED <<open, env, phase, paused, pending, slots, workers>>

\* The loop ends; gather schedules the workers it started, if any.
EndDispatch ==
  /\ phase = "dispatch" /\ starting = {}
  /\ pending = {} \/ slots <= 0
  /\ phase' = IF \E i \in active : stage[i] = "created" THEN "gather" ELSE "idle"
  /\ stage' = [i \in Issues |-> IF stage[i] = "created" THEN "turn" ELSE stage[i]]
  /\ pending' = {} /\ slots' = 0
  /\ UNCHANGED <<github, env, paused, starting, active, turns, terminal, retry>>

Dispatch ==
  \/ \E i \in Issues : Skip(i) \/ Claim(i) \/ Start(i)
  \/ \E i \in Issues, retryable \in BOOLEAN : StartFails(i, retryable)
  \/ EndDispatch

----------------------------------------------------------------------------
(* _run_worker, one worker per active issue.                               *)

\* Mutant of NextTurn: one turn more than max_turns.
NextTurnBeyond(i) ==
  /\ phase = "gather" /\ stage[i] = "turn"
  /\ turns[i] < MaxTurns
  /\ turns' = [turns EXCEPT ![i] = @ + 1]
  /\ UNCHANGED <<github, env, tick, active, stage, terminal, retry>>

\* A turn ends in turn_completed and the continuation policy asks for another.
NextTurn(i) ==
  /\ phase = "gather" /\ stage[i] = "turn"
  /\ turns[i] + 1 < MaxTurns
  /\ turns' = [turns EXCEPT ![i] = @ + 1]
  /\ UNCHANGED <<github, env, tick, active, stage, terminal, retry>>

EndTurns(i, t, s) ==
  /\ phase = "gather" /\ stage[i] = "turn"
  /\ stage' = [stage EXCEPT ![i] = s]
  /\ terminal' = [terminal EXCEPT ![i] = t]
  /\ UNCHANGED <<github, env, tick, active, turns>>

\* turn_completed, and either max_turns is reached or the policy returns None.
TurnCompletes(i) == EndTurns(i, "completed", "closing") /\ UNCHANGED retry

\* A stall or turn timeout and a turn_cancelled event cancel the run, a stream
\* that ends without a terminal event crashes it: all retryable.  turn_failed
\* and ProviderError fail it, retryable or not by their class.
TurnBreaks(i, t, retryable) ==
  /\ EndTurns(i, t, "closing")
  /\ t \in {"cancelled", "crashed", "failed"}
  /\ retryable \/ t = "failed"
  /\ WorkerFailed(i, retryable)

\* Any other exception passes through the finally block, terminal_state unset.
TurnEscapes(i) ==
  /\ "turn" \in FatalEvents
  /\ EndTurns(i, "none", "escaping")
  /\ UNCHANGED retry

\* The task_outcome of the evidence detector for a run that completed.
TaskOutcome == {"completed_with_pr", "completed_no_pr_declared",
                "no_pr_operator_required", "incomplete_no_evidence",
                "incomplete_permission_denied", "unknown"}

NonRetryableFailure(i) ==
  terminal[i] = "failed" /\ attempts[i] > 0 /\ next[i] = "none"

CompletionBlocked(outcome) ==
  outcome \in {"no_pr_operator_required", "incomplete_no_evidence",
               "incomplete_permission_denied"}

\* _route_legacy_terminal_issue_state: the label operation that ends a run.
Route(i, outcome) ==
  IF NonRetryableFailure(i) \/ CompletionBlocked(outcome)
    THEN MarkIssueBlocked(labels[i])
  ELSE IF outcome = "completed_with_pr" THEN DequeueIssue(labels[i])
  ELSE IF outcome = "completed_no_pr_declared" THEN MarkIssueDone(labels[i])
  ELSE ReleaseIssue(labels[i])

\* The phase once the worker of i is gone: gather ends with its last worker,
\* or at the first exception, and then the process cancels the others.
PhaseWithout(i, raises) ==
  LET last == \A j \in Issues \ {i} : stage[j] = "none"
  IN  IF raises \/ phase = "dying" THEN IF last THEN "dead" ELSE "dying"
                                   ELSE IF last THEN "idle" ELSE "gather"

\* The finally block: the outcome is detected and routed, the worker dropped,
\* and a completed run clears the retry state.
Finish(i) ==
  /\ phase \in {"gather", "dying"}
  /\ stage[i] \in {"closing", "escaping"}
  /\ \E outcome \in IF terminal[i] = "completed" THEN TaskOutcome ELSE {"unknown"} :
     \E a \in Route(i, outcome) : labels' = [labels EXCEPT ![i] = a.labels]
  /\ active' = active \ {i}
  /\ stage' = [stage EXCEPT ![i] = "none"]
  /\ terminal' = [terminal EXCEPT ![i] = "none"]
  /\ turns' = [turns EXCEPT ![i] = 0]
  /\ phase' = PhaseWithout(i, stage[i] = "escaping")
  /\ IF terminal[i] = "completed"
       THEN /\ attempts' = [attempts EXCEPT ![i] = 0]
            /\ next' = [next EXCEPT ![i] = "none"]
       ELSE UNCHANGED retry
  /\ UNCHANGED <<open, env, paused, pending, slots, starting>>

\* The finally block is left where it is: its after_run hook raises, or the
\* cancellation of a dying process reaches it while it awaits provider.close.
AbandonFinally(i) ==
  /\ stage[i] \in {"closing", "escaping"}
  /\ \/ "after_run" \in FatalEvents /\ phase \in {"gather", "dying"}
     \/ phase = "dying" /\ stage[i] = "closing"
  /\ stage' = [stage EXCEPT ![i] = "none"]
  /\ phase' = PhaseWithout(i, TRUE)
  /\ UNCHANGED <<github, env, paused, pending, slots, starting, active, turns,
                 terminal, retry>>

\* A dying process cancels the turn of a worker, whose finally block still runs.
CancelTurn(i) ==
  /\ phase = "dying" /\ stage[i] = "turn"
  /\ stage' = [stage EXCEPT ![i] = "escaping"]
  /\ UNCHANGED <<github, env, tick, active, turns, terminal, retry>>

Worker(i) ==
  \/ NextTurn(i) \/ TurnCompletes(i) \/ TurnEscapes(i)
  \/ \E t \in Terminal, retryable \in BOOLEAN : TurnBreaks(i, t, retryable)
  \/ Finish(i) \/ AbandonFinally(i) \/ CancelTurn(i)

\* SIGINT cancels the main task.  Within gather that cancels the workers; in
\* the middle of _dispatch the workers it created have not begun, so that no
\* finally block of theirs ever runs.
Interrupt ==
  /\ "interrupt" \in FatalEvents
  /\ phase \notin {"dying", "dead"}
  /\ phase' = IF phase = "gather" THEN "dying" ELSE "dead"
  /\ UNCHANGED <<github, env, paused, pending, slots, starting, workers, retry>>

----------------------------------------------------------------------------
(* Time, GitHub and the operator.                                          *)

BackoffElapses(i) ==
  /\ next[i] = "later"
  /\ next' = [next EXCEPT ![i] = "due"]
  /\ UNCHANGED <<github, env, tick, workers, attempts>>

OperatorMoves == moves < MaxOperatorMoves /\ moves' = moves + 1 /\ UNCHANGED policy

\* The operator queues an issue, for the first time or again after looking
\* into why it was blocked or done.
Enqueue(i) ==
  /\ OperatorMoves
  /\ labels' = [labels EXCEPT ![i] = (@ \ {Blocked, Done}) \cup {Ready}]
  /\ UNCHANGED <<open, workflowValid, tick, workers, retry>>

\* The operator takes an issue away from Symphony.
Exempt(i) ==
  /\ OperatorMoves
  /\ labels' = [labels EXCEPT ![i] = @ \cup {Blocked}]
  /\ UNCHANGED <<open, workflowValid, tick, workers, retry>>

CloseOrReopen(i) ==
  /\ OperatorMoves
  /\ open' = IF i \in open THEN open \ {i} ELSE open \cup {i}
  /\ UNCHANGED <<labels, workflowValid, tick, workers, retry>>

\* WORKFLOW.md is broken by an edit, or repaired.
EditWorkflow ==
  /\ OperatorMoves
  /\ workflowValid' = ~workflowValid
  /\ UNCHANGED <<github, tick, workers, retry>>

Operator == EditWorkflow \/ \E i \in Issues : Enqueue(i) \/ Exempt(i) \/ CloseOrReopen(i)

----------------------------------------------------------------------------
RunOnce == BeginTick \/ Reconcile \/ FetchCandidates \/ FetchFails \/ Dispatch

Next ==
  \/ RunOnce
  \/ \E i \in Issues : Worker(i) \/ BackoffElapses(i)
  \/ Interrupt
  \/ Operator

Spec == Init /\ [][Next]_vars

(***************************************************************************)
(* The event loop runs what is ready: run_once goes on, every worker goes  *)
(* on (each turn is bounded by claude.turn_timeout_ms) and the clock       *)
(* passes.  Nothing is assumed of the operator, or of which outcome a      *)
(* step has.                                                               *)
(***************************************************************************)
Fairness ==
  /\ WF_vars(RunOnce)
  /\ \A i \in Issues : WF_vars(Worker(i)) /\ WF_vars(BackoffElapses(i))

FairSpec == Spec /\ Fairness

(***************************************************************************)
(* Safety.                                                                 *)
(***************************************************************************)

\* The issues that occupy the daemon: claimed for a start, or with a worker.
Held == active \cup starting

\* A worker exists only under a claim: the claim label is on the issue from
\* before _start_worker until the worker has left Orchestrator.active, with
\* whatever failures, cancellations and operator edits happen in between.
WorkOnlyUnderClaim == \A i \in Held : Running \in labels[i]

\* No more than agent.max_concurrency workers, although slots_open is counted
\* down by hand and the paths of a failed start do not count.
ConcurrencyBound ==
  /\ Cardinality(active) <= MaxConcurrency
  /\ phase = "dispatch" => slots = MaxConcurrency - Cardinality(active)

\* No lane has more workers than its limit: _lane_has_capacity looks at the
\* workers started earlier in the same pass.
LaneBound ==
  \A l \in Lanes : Cardinality({i \in active : LaneOf[i] = l}) <= LaneLimit[l]

\* Neither limit is exceeded, in any order of starts, failed starts and ends.
LimitsKept == ConcurrencyBound /\ LaneBound

\* When no tracker call fails and nothing kills the process, the claim label
\* is never on an issue the daemon does not hold: every way a start or a run
\* can end takes the claim back.
NoOrphanedClaim ==
  ~TrackerFaults /\ FatalEvents = {} =>
    \A i \in Issues : Running \in labels[i] => i \in Held

\* run_once awaits its workers, so reconciliation never finds one: what it
\* does with an active worker is out of reach of the running daemon.
ReconcileFindsNoWorker == phase = "reconcile" => active = {}

\* An issue the daemon has settled, by a blocked or a done label, is not
\* claimed again, even when the calls that should drop its ready label fail.
\* (Without an operator, who may add a label after the candidates were read.)
SettledStaysSettled ==
  [][MaxOperatorMoves = 0 /\ {Blocked, Done} \subseteq Exclude =>
       \A i \in starting' \ starting : labels[i] \cap {Blocked, Done} = {}]_vars

\* A run that ends in a failure that is non-retryable, or in the failure that
\* exhausts its retries, is the last of its issue until an operator comes:
\* either the blocked label or the claim that could not be dropped stays.
HopelessRun(i) == stage[i] = "closing" /\ NonRetryableFailure(i)

HopelessRunIsLast ==
  MaxOperatorMoves = 0 /\ Blocked \in Exclude =>
    \A i \in Issues : [](HopelessRun(i) => [](i \notin starting))

(***************************************************************************)
(* The lifecycle of an issue, as GitHub and the event loop show it.        *)
(***************************************************************************)

IssueStatus(i) ==
  IF phase # "dead" /\ i \in starting      THEN "claimed"
  ELSE IF phase # "dead" /\ stage[i] # "none" THEN "working"
  ELSE IF Running \in labels[i]            THEN "lost"
  ELSE "free"

Lifecycle == INSTANCE IssueLifecycle WITH
  Limit  <- MaxConcurrency,
  status <- [i \in Issues |-> IssueStatus(i)]

\* The daemon implements the abstract lifecycle.
ImplementsLifecycle == Lifecycle!Spec

(***************************************************************************)
(* Liveness.                                                               *)
(***************************************************************************)

\* With a slot for every issue, an issue that stays eligible is claimed, unless
\* the workflow file stays broken: no backoff lasts forever, and no outcome of
\* other issues keeps it from its turn.
ReadyIssueIsClaimed ==
  \A i \in Issues :
    IsCandidate(i \in open, labels[i], Exclude)
      ~> \/ ~IsCandidate(i \in open, labels[i], Exclude)
         \/ ~workflowValid

(***************************************************************************)
(* What the repository's documents say and the code does not do.           *)
(***************************************************************************)

\* "If retries exhaust without success, the worker will eventually surface as
\* blocked_operator_required" (docs/terminal-outcomes.md): an issue that has
\* failed more than max_attempts times is blocked, or succeeds after all.
ExhaustedRetriesSurface ==
  \A i \in Issues :
    attempts[i] > MaxAttempts ~> (Blocked \in labels[i] \/ attempts[i] = 0)
============================================================================
