--------------------------- MODULE RemoteDispatch ---------------------------
(***************************************************************************)
(* An issue that is worked on over SSH (remote.enabled): the coordinator   *)
(* (_run_remote_dispatch, RemoteDispatchRunner, SSHRemoteTransport, the    *)
(* artifact collector) and the symphony-worker process it starts on the    *)
(* remote host.                                                            *)
(*                                                                         *)
(* A dispatch is synchronous: the daemon does nothing else until it has an *)
(* outcome, so that one issue is enough to see.  What outlives a dispatch  *)
(* is the remote process: when the timeout kills the ssh client, or the    *)
(* daemon dies, it goes on in the same workspace until it writes to its    *)
(* lost stdout, if it then fails at all.                                   *)
(***************************************************************************)
EXTENDS Tracker, Integers, FiniteSets

CONSTANTS
  MaxAttempts,       \* retry.max_attempts
  Exclude,           \* tracker.exclude_labels
  MaxLeftovers,      \* bound: processes alive that no coordinator waits for
  MaxCrashes,        \* bound: crashes of the daemon
  MaxOperatorMoves   \* bound: what the operator does

ASSUME RemoteAssumption ==
  /\ {MaxAttempts, MaxLeftovers, MaxCrashes, MaxOperatorMoves} \subseteq Nat
  /\ Exclude \subseteq Label /\ Blocked \in Exclude

VARIABLES
  labels,     \* GitHub: the labels of the issue
  moves,      \* moves the operator has made
  crashes,
  pc,         \* where the coordinator is
  attempts,   \* RetryState.attempts; 0 when there is no RetryState
  next,       \* RetryState.next_attempt_at: None, in the future, or past
  attempt,    \* the number of the dispatch
  failed,     \* does the result so far have an error or a failed transport?
  collected,  \* what the artifact collector has copied
  worker,     \* the remote process of the dispatch
  leftover,   \* remote processes of earlier dispatches that are alive
  shared,     \* was one of them under the number of this dispatch, at its start?
  files       \* remote.artifact_root, by attempt number

coordinator == <<pc, attempts, next, attempt, failed, collected>>
host        == <<worker, leftover, shared, files>>
env         == <<moves, crashes>>
vars        == <<labels, env, coordinator, host>>

\* No more attempts than the retries, and one for each time the issue is queued again.
LastAttempt == MaxAttempts + 1 + MaxOperatorMoves

(***************************************************************************)
(* A remote process: where run_real_worker is, its terminal_state, whether *)
(* worker_failed was emitted, its exit code, whether it has a session, and *)
(* whether the retries that it is one of still go on.                      *)
(***************************************************************************)
Stage == {"off", "boot", "workspace", "session", "turn", "working", "hook",
          "leaving", "exited", "killed"}

Process == [attempt : 0..LastAttempt, at : Stage, state : {"failed", "completed"},
            said : BOOLEAN, code : {0, 1}, session : BOOLEAN, current : BOOLEAN]

NewProcess(a, s) ==
  [attempt |-> a, at |-> s, state |-> "failed", said |-> FALSE, code |-> 1,
   session |-> FALSE, current |-> TRUE]

NoWorker == NewProcess(0, "off")

Alive(p) == p.at \notin {"off", "exited", "killed"}

\* The artifacts: session.json by whom it was written, terminal.json of this
\* dispatch by the terminal_state it says.
Artifacts == [session : {"none", "this", "old"}, terminal : {"none", "completed", "failed", "old"}]
NoArtifacts == [session |-> "none", terminal |-> "none"]

RemoteTypeOK ==
  /\ labels \in SUBSET Label
  /\ moves \in 0..MaxOperatorMoves /\ crashes \in 0..MaxCrashes
  /\ pc \in {"down", "idle", "dispatch", "ssh", "collect", "settle"}
  /\ attempts \in 0..LastAttempt
  /\ next \in {"none", "later", "due"}
  /\ attempt \in 0..LastAttempt
  /\ failed \in BOOLEAN /\ shared \in BOOLEAN
  /\ collected \in Artifacts
  /\ worker \in Process
  /\ leftover \in SUBSET {p \in Process : Alive(p)}
  /\ Cardinality(leftover) <= MaxLeftovers
  /\ files \in [1..LastAttempt -> Artifacts]

Init ==
  /\ labels = {Ready} /\ moves = 0 /\ crashes = 0
  /\ pc = "idle" /\ attempts = 0 /\ next = "none"
  /\ attempt = 0 /\ failed = FALSE /\ collected = NoArtifacts
  /\ worker = NoWorker /\ leftover = {} /\ shared = FALSE
  /\ files = [a \in 1..LastAttempt |-> NoArtifacts]

----------------------------------------------------------------------------
(* run_real_worker: what may become of a process in one step.  An emit     *)
(* needs the ssh channel: a process left behind may find it gone, and then *)
(* no handler can report it either.                                        *)

Fails(p) == [p EXCEPT !.at = "leaving", !.said = TRUE]

\* A payload that is malformed, incomplete or invalid: a message and exit code 1.
Refuses(p) == [p EXCEPT !.at = "killed"]

\* main loads snapshot and dispatch request.
Boot(p) == {q \in {[p EXCEPT !.at = "workspace"], Refuses(p)} : p.at = "boot"}

\* The workspace is prepared and its hooks run.
Prepare(p) == {q \in {[p EXCEPT !.at = "session"], Fails(p)} : p.at = "workspace"}

StartSession(p) ==
  {q \in {[p EXCEPT !.at = "turn", !.session = TRUE], Fails(p)} : p.at = "session"}

\* The first events come in, session_started among them.
BeginTurn(p) == {q \in {[p EXCEPT !.at = "working"], Fails(p)} : p.at = "turn"}

\* turn_completed; any other end of the stream fails.
EndTurn(p) ==
  {q \in {[p EXCEPT !.at = "hook", !.state = "completed"], Fails(p)} : p.at = "working"}

\* worker_completed was emitted; the after_run hook may still fail.
AfterRun(p) == {q \in {[p EXCEPT !.at = "leaving", !.code = 0], Fails(p)} : p.at = "hook"}

Leave(p) == {q \in {[p EXCEPT !.at = "exited"]} : p.at = "leaving"}

Kill(p) == {q \in {[p EXCEPT !.at = "killed", !.code = 1]} : Alive(p)}

LoseChannel(p) ==
  {q \in {[p EXCEPT !.at = "leaving"]} : p.at \in {"boot", "workspace", "turn", "hook"}}
    \cup {q \in {[p EXCEPT !.at = "leaving", !.state = s] : s \in {"failed", "completed"}} :
             p.at = "working"}

Run(p) ==
  UNION {Boot(p), Prepare(p), StartSession(p), BeginTurn(p), EndTurn(p), AfterRun(p),
         Leave(p), Kill(p)}

\* Mutant of WritesSession: only the end of a failed run writes it.
WritesSessionOnFailure(p, q) == q.session /\ q.at = "exited" /\ q.state = "failed"

\* session.json is written when the session starts and in the finally block.
WritesSession(p, q) ==
  q.session /\ (q.at = "exited" \/ (p.at = "session" /\ q.at = "turn"))

\* The artifact directory of p after its step to q; terminal.json is written last.
Written(p, q, isThis) ==
  [files EXCEPT ![p.attempt] =
     [session  |-> IF WritesSession(p, q) THEN IF isThis THEN "this" ELSE "old" ELSE @.session,
      terminal |-> IF q.at = "exited" THEN IF isThis THEN q.state ELSE "old" ELSE @.terminal]]

WorkerStep ==
  /\ pc = "ssh"
  /\ \E q \in Run(worker) : worker' = q /\ files' = Written(worker, q, TRUE)
  /\ UNCHANGED <<labels, env, coordinator, leftover, shared>>

\* What nobody will hear of is not kept.
Unheard(p) == [p EXCEPT !.said = FALSE, !.code = 1]

LeftoverStep ==
  /\ \E p \in leftover : \E q \in Run(p) \cup LoseChannel(p) :
       /\ leftover' = (leftover \ {p}) \cup (IF Alive(q) THEN {Unheard(q)} ELSE {})
       /\ files' = Written(p, q, FALSE)
  /\ UNCHANGED <<labels, env, coordinator, worker, shared>>

\* The process goes on without its coordinator.  (Bound: one that would be one
\* too many dies with its connection.)
LeaveBehind(isCurrent) ==
  LET past == {[p EXCEPT !.current = @ /\ isCurrent] : p \in leftover}
      left == [Unheard(worker) EXCEPT !.current = isCurrent]
  IN  leftover' = IF pc = "ssh" /\ Alive(worker) /\ Cardinality(past) < MaxLeftovers
                    THEN past \cup {left} ELSE past

----------------------------------------------------------------------------
(* The coordinator.                                                        *)

AttemptNumber == attempts + 1

\* A tick finds the issue and claims it.
Claim ==
  /\ pc = "idle"
  /\ IsCandidate(TRUE, labels, Exclude) /\ next # "later"
  /\ \E a \in ClaimIssue(labels) :
       /\ labels' = a.labels
       /\ pc' = IF a.raised THEN "idle" ELSE "dispatch"
  /\ attempt' = AttemptNumber
  /\ failed' = FALSE
  /\ shared' = \E p \in leftover : p.attempt = attempt'
  /\ files' = [a \in DOMAIN files |->
                 [session  |-> IF files[a].session = "none" THEN "none" ELSE "old",
                  terminal |-> IF files[a].terminal = "none" THEN "none" ELSE "old"]]
  /\ UNCHANGED <<env, attempts, next, collected, worker, leftover>>

\* The plan is built, materialized and uploaded, and ssh starts the worker.
Connect ==
  /\ pc = "dispatch"
  /\ pc' = "ssh"
  /\ worker' = NewProcess(attempt, "boot")
  /\ UNCHANGED <<labels, env, attempts, next, attempt, failed, collected,
                 leftover, shared, files>>

\* The prompt does not render, there is no dispatcher, or a payload is not
\* uploaded: no transport, and nothing to collect.
PrepareFails ==
  /\ pc = "dispatch"
  /\ pc' = "settle" /\ failed' = TRUE
  /\ UNCHANGED <<labels, env, attempts, next, attempt, collected, host>>

\* The host is out of reach: ssh exits with 255.
ConnectFails ==
  /\ pc = "dispatch"
  /\ pc' = "collect" /\ failed' = TRUE
  /\ UNCHANGED <<labels, env, attempts, next, attempt, collected, host>>

\* Mutant of TransportFailed: the exit code of the worker is not looked at.
TransportFailedByEvent(p) == p.said

\* A worker_failed event, or an exit code that is not zero.
TransportFailed(p) == p.said \/ p.code # 0

\* Can there be a line of stdout that parse_worker_event rejects, or any stderr?
Noise == BOOLEAN

\* ssh returns with the worker; noise is an error of its own.
SshReturns ==
  /\ pc = "ssh" /\ ~Alive(worker)
  /\ pc' = "collect"
  /\ \E noise \in Noise : failed' = (TransportFailed(worker) \/ noise)
  /\ UNCHANGED <<labels, env, attempts, next, attempt, collected, host>>

\* Mutant of SshBreaks: nothing bounds the time the worker may take.
SshNeverBreaks == FALSE /\ UNCHANGED vars

\* remote.worker_timeout_ms has passed, or the connection is lost.
SshBreaks ==
  /\ pc = "ssh" /\ Alive(worker)
  /\ pc' = "collect" /\ failed' = TRUE
  /\ LeaveBehind(TRUE)
  /\ UNCHANGED <<labels, env, attempts, next, attempt, collected, worker, shared, files>>

\* What scp makes of a file: a copy of what is there, or an error and no copy; that
\* there is nothing to copy is no error.
Copied(f, error) == IF error THEN "none" ELSE files[attempt][f]

\* The artifacts are copied whatever became of the transport.
Collect ==
  /\ pc = "collect"
  /\ pc' = "settle"
  /\ \E errors \in SUBSET DOMAIN NoArtifacts :
       /\ collected' = [f \in DOMAIN NoArtifacts |-> Copied(f, f \in errors)]
       /\ failed' = (failed \/ errors # {})
  /\ UNCHANGED <<labels, env, attempts, next, attempt, host>>

Exhausted == attempts >= MaxAttempts

\* Mutant of SettleFailed: the last failure releases the claim, too.
SettleFailedReleasing ==
  /\ pc = "settle" /\ failed
  /\ attempts' = attempts + 1
  /\ next' = IF Exhausted THEN "none" ELSE "later"
  /\ \E a \in ReleaseIssue(labels) : labels' = a.labels
  /\ UNCHANGED leftover

\* Mutant of SettleFailed: what the worker reports is taken for a failure of the
\* infrastructure that need not count.
SettleFailedUncounted ==
  /\ pc = "settle" /\ failed
  /\ attempts' = IF worker.said THEN attempts ELSE attempts + 1
  /\ next' = IF Exhausted /\ ~worker.said THEN "none" ELSE "later"
  /\ \E a \in IF Exhausted /\ ~worker.said THEN MarkIssueBlocked(labels) ELSE ReleaseIssue(labels) :
       labels' = a.labels
  /\ UNCHANGED leftover

\* Every failure is retryable, until the retries are exhausted.
SettleFailed ==
  /\ pc = "settle" /\ failed
  /\ attempts' = attempts + 1
  /\ next' = IF Exhausted THEN "none" ELSE "later"
  /\ \E a \in IF Exhausted THEN MarkIssueBlocked(labels) ELSE ReleaseIssue(labels) :
       labels' = a.labels
  /\ UNCHANGED leftover

\* The retry state is forgotten and the claim released; no evidence is looked for.
SettleCompleted ==
  /\ pc = "settle" /\ ~failed
  /\ attempts' = 0 /\ next' = "none"
  /\ \E a \in ReleaseIssue(labels) : labels' = a.labels
  /\ LeaveBehind(FALSE)

Settle ==
  /\ SettleFailed \/ SettleCompleted
  /\ pc' = "idle"
  /\ attempt' = 0 /\ failed' = FALSE /\ collected' = NoArtifacts
  /\ worker' = NoWorker /\ shared' = FALSE
  /\ UNCHANGED <<env, files>>

\* The daemon dies: the claim stays, the retry state does not.
Crash ==
  /\ pc # "down" /\ crashes < MaxCrashes
  /\ crashes' = crashes + 1
  /\ pc' = "down"
  /\ attempts' = 0 /\ next' = "none"
  /\ attempt' = 0 /\ failed' = FALSE /\ collected' = NoArtifacts
  /\ worker' = NoWorker /\ shared' = FALSE
  /\ LeaveBehind(FALSE)
  /\ UNCHANGED <<labels, moves, files>>

\* Nothing of a remote dispatch is in the session store that recover reads.
Restart == pc = "down" /\ pc' = "idle" /\ UNCHANGED <<labels, env, attempts, next, attempt,
                                                      failed, collected, host>>

BackoffElapses ==
  /\ next = "later" /\ next' = "due"
  /\ UNCHANGED <<labels, env, pc, attempts, attempt, failed, collected, host>>

\* The operator queues the issue again, and takes a claim off that nobody holds.
Requeue ==
  /\ moves < MaxOperatorMoves /\ moves' = moves + 1
  /\ pc \in {"down", "idle"}
  /\ labels' = {Ready}
  /\ UNCHANGED <<crashes, coordinator, host>>

Coordinator ==
  \/ Claim \/ Connect \/ PrepareFails \/ ConnectFails \/ SshReturns \/ SshBreaks
  \/ Collect \/ Settle \/ Restart

Next == Coordinator \/ BackoffElapses \/ WorkerStep \/ LeftoverStep \/ Crash \/ Requeue

Spec == Init /\ [][Next]_vars

\* The coordinator goes on (every subprocess has a timeout) and time passes;
\* nothing is assumed of the remote host.
FairSpec == Spec /\ WF_vars(Coordinator) /\ WF_vars(BackoffElapses)

(***************************************************************************)
(* Properties.                                                             *)
(***************************************************************************)

InFlight == pc \in {"dispatch", "ssh", "collect", "settle"}

\* A dispatch counts as completed only if its own worker went through the turn
\* and the after_run hook and left with exit code 0: no lost connection, late
\* answer or killed process passes for success.
CompletedIsGenuine ==
  pc = "settle" /\ ~failed =>
    /\ worker.at = "exited" /\ worker.code = 0
    /\ worker.state = "completed" /\ ~worker.said

\* The artifacts of a completed dispatch are its own, although the directory
\* may be that of an earlier one: unless a process that was left behind under
\* the same number was still alive when the dispatch began.
CompletedHasItsArtifacts ==
  pc = "settle" /\ ~failed /\ ~shared =>
    collected = [session |-> "this", terminal |-> "completed"]

\* A dispatch comes to an end, even if the remote process hangs.
DispatchReturns == InFlight ~> ~InFlight

\* The worker itself has reported the failure: its workspace, its provider or a
\* hook, not the way to the host.
WorkerFails == pc = "settle" /\ failed /\ worker.said

\* A worker that fails again and again, with no completed dispatch between, is not
\* started for ever: workspace and provider failures count against
\* retry.max_attempts (docs/remote-worker-design.md:214), over every interleaving
\* with failures of the connection, which the document would not count.
FailuresSurface == []<>WorkerFails => []<>(pc = "settle" /\ ~failed)
=============================================================================
