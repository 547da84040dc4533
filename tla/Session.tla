------------------------------- MODULE Session -------------------------------
(***************************************************************************)
(* The runs of one issue's worker, down to the events of a turn:           *)
(* _start_worker, _run_worker, _run_one_turn and _on_turn_timeout of the   *)
(* orchestrator with the two providers behind them (ClaudeCodeProvider     *)
(* and CodexProvider).  Where Orchestrator says that a turn completes,     *)
(* fails or times out, this module says which events it took.              *)
(*                                                                         *)
(* A provider's send_input is a generator.  Claude's yields while the SDK  *)
(* sends messages; Codex's runs `codex exec' to its end and yields the     *)
(* events of its whole output then.  The orchestrator waits for one event  *)
(* at a time, under the smaller rest of two budgets.  The SDK, the codex   *)
(* process and the disk are the environment.                               *)
(*                                                                         *)
(* _run_worker handles ProviderErrors.  Any other exception, a             *)
(* cancellation among them, escapes: the worker's finally still runs, and  *)
(* the exception ends the daemon.  What a restart makes of it is Daemon's. *)
(***************************************************************************)
EXTENDS Integers, Sequences, FiniteSets

CONSTANTS
  Providers,     \* the values of agent.provider considered
  Policies,      \* the values of claude.retry_resume_policy considered
  MaxTurns,      \* agent.max_turns
  MaxAttempts,   \* retry.max_attempts
  StallBudget,   \* claude.stall_timeout_ms, in ticks of the model's clock
  TurnBudget,    \* claude.turn_timeout_ms, in the same ticks
  MaxRuns,       \* bound: runs of the issue in one behaviour
  MaxEvents      \* bound: events of one run that the SDK's messages may fill

Provider == {"claude_code", "codex"}
Policy   == {"resume_same_session", "new_session_with_summary", "fail_closed"}

ASSUME SessionAssumption ==
  /\ Providers \subseteq Provider /\ Policies \subseteq Policy
  /\ MaxTurns \in Nat \ {0} /\ MaxAttempts \in Nat
  /\ StallBudget \in Nat \ {0} /\ TurnBudget \in Nat \ {0}
  /\ MaxRuns \in Nat /\ MaxEvents \in Nat

\* The conversations at the provider: one per run, named by it, and the one
\* whose id the previous daemon left to _restart_carryover.
NoId     == 0
PriorId  == MaxRuns + 1
Runs     == 1..MaxRuns
Ids      == 0..(MaxRuns + 1)

VARIABLES
  provider,    \* which provider the daemon was built with
  policy,      \* claude.retry_resume_policy
  carry,       \* _restart_carryover of the issue
  at,          \* where the worker is
  run,         \* how many runs there were; names the current one
  attempts,    \* RetryState.attempts, 0 when there is none
  scheduled,   \* is RetryState.next_attempt_at set?
  record,      \* the SessionRecord: provider_session_id, attempt, previous ids;
               \* without meaning while the worker is idle
  disk,        \* the record of each run in the session store
  thread,      \* the conversation the client or process of each run is in
  sawFirst,    \* saw_first_event of the provider's session state
  queue,       \* events the generator can yield without waiting
  log,         \* the events recorded in this run (events.jsonl)
  denied,      \* does the last event report permission denials?
  turns,       \* WorkerState.turn_count
  terminal,    \* WorkerState.terminal_state
  subtype,     \* WorkerState.timeout_subtype
  sinceTurn,   \* ticks since the turn began
  sinceEvent,  \* ticks since its last event
  escaped,     \* is an exception on its way that _run_worker does not handle?
  live,        \* runs whose client or codex process is alive
  abandoned,   \* history: runs whose codex process a timeout left running
  stranded     \* history: runs whose Claude client nobody closes any more

fixed   == <<provider, policy>>
retry   == <<attempts, scheduled>>
records == <<record, disk>>
clock   == <<sinceTurn, sinceEvent>>
stream  == <<queue, log, denied>>
verdict == <<turns, terminal, subtype>>
procs   == <<live, abandoned, stranded>>
svars   == <<fixed, carry, at, run, retry, records, thread, sawFirst, stream,
             verdict, clock, escaped, procs>>

\* dead: the daemon has ended.
At       == {"idle", "loop", "reading", "stopping", "closing", "ended", "dead"}
Terminal == {"none", "completed", "failed", "cancelled", "crashed"}
Subtype  == {"none", "stall_timeout", "turn_timeout"}

\* What events.jsonl tells apart.  timed_out is the turn_cancelled event the
\* orchestrator synthesizes; content stands for messages and tool events.
TurnEnd  == {"turn_completed", "turn_failed", "turn_cancelled"}
Event    == TurnEnd \cup {"session_started", "session_restored", "content",
                          "heartbeat", "malformed", "timed_out"}
SessionRecord == [pid : Ids, attempt : Nat, prev : SUBSET Ids]
NoRecord == [pid |-> NoId, attempt |-> 0, prev |-> {}]

\* An event on its way: pid is the id the provider learns as it yields it.
Yielded == [event : Event, pid : Ids, denied : BOOLEAN]
Plain(e)          == [event |-> e, pid |-> NoId, denied |-> FALSE]
Announcing(e, id) == [event |-> e, pid |-> id, denied |-> FALSE]

SessionTypeOK ==
  /\ provider \in Providers /\ policy \in Policies
  /\ carry \in SUBSET Ids /\ at \in At /\ run \in 0..MaxRuns
  /\ attempts \in 0..MaxRuns /\ scheduled \in BOOLEAN
  /\ record \in SessionRecord /\ disk \in [Runs -> SessionRecord]
  /\ thread \in [Runs -> Ids] /\ sawFirst \in BOOLEAN
  /\ queue \in Seq(Yielded) /\ log \in Seq(Event) /\ denied \in BOOLEAN
  /\ turns \in 0..MaxTurns /\ terminal \in Terminal /\ subtype \in Subtype
  /\ sinceTurn \in 0..TurnBudget /\ sinceEvent \in 0..StallBudget
  /\ escaped \in BOOLEAN
  /\ live \in SUBSET Runs /\ abandoned \in SUBSET Runs /\ stranded \in SUBSET Runs

SessionInit ==
  /\ provider \in Providers /\ policy \in Policies
  /\ carry \in {{}, {PriorId}}
  /\ at = "idle" /\ run = 0 /\ attempts = 0 /\ scheduled = FALSE
  /\ record = NoRecord /\ disk = [r \in Runs |-> NoRecord]
  /\ thread = [r \in Runs |-> NoId] /\ sawFirst = FALSE
  /\ queue = <<>> /\ log = <<>> /\ denied = FALSE
  /\ turns = 0 /\ terminal = "none" /\ subtype = "none"
  /\ sinceTurn = 0 /\ sinceEvent = 0
  /\ escaped = FALSE /\ live = {} /\ abandoned = {} /\ stranded = {}

----------------------------------------------------------------------------
(* The start of a run.                                                     *)

Attempt == attempts + 1

\* _on_worker_failed
Failed(retryable) ==
  /\ attempts' = attempts + 1
  /\ scheduled' = (retryable /\ attempts < MaxAttempts)

\* The record _start_worker makes up for the restore of a retry: nothing of
\* the earlier run's record is in it.
Stale == [pid |-> NoId, attempt |-> Attempt - 1, prev |-> {}]

\* What restore does with a record: without an id it refuses; with one, the
\* client may fail to connect.
RestoreOutcomes(stale) ==
  IF stale.pid = NoId THEN {"missing"}
  ELSE {"restored"} \cup (IF provider = "claude_code" THEN {"failed"} ELSE {})

Outcomes == IF attempts = 0 THEN {"first"} ELSE RestoreOutcomes(Stale)

\* May a new session be started after this outcome?
FreshAllowed(outcome) ==
  CASE outcome = "first"   -> TRUE
    [] outcome = "missing" -> policy # "fail_closed"
    [] OTHER               -> policy = "new_session_with_summary"

\* Mutant of OpenFresh: the new record keeps the id of the run before.
OpenFreshKeepingId(outcome) ==
  /\ record' = [pid |-> IF run = 0 THEN NoId ELSE disk[run].pid, attempt |-> Attempt,
                prev |-> IF outcome = "first" THEN carry ELSE Stale.prev]
  /\ disk' \in {[disk EXCEPT ![run + 1] = [NoRecord EXCEPT !.attempt = 1]], disk}
  /\ thread' = [thread EXCEPT ![run + 1] = run + 1]
  /\ carry' = IF outcome = "first" THEN {} ELSE carry

\* start_session writes the record before _start_worker gives it its attempt
\* and the ids of earlier conversations: the disk has the next write's.
OpenFresh(outcome) ==
  /\ record' = [pid |-> NoId, attempt |-> Attempt,
                prev |-> IF outcome = "first" THEN carry ELSE Stale.prev]
  /\ disk' \in {[disk EXCEPT ![run + 1] = [NoRecord EXCEPT !.attempt = 1]], disk}
  /\ thread' = [thread EXCEPT ![run + 1] = run + 1]
  /\ carry' = IF outcome = "first" THEN {} ELSE carry

OpenRestored ==
  LET r == [Stale EXCEPT !.attempt = @ + 1, !.prev = @ \cup {Stale.pid}]
  IN /\ record' = r
     /\ disk' \in {[disk EXCEPT ![run + 1] = r], disk}
     /\ thread' = [thread EXCEPT ![run + 1] = Stale.pid]
     /\ UNCHANGED carry

\* The provider has a session; Claude's has a connected client.
SessionOpens ==
  /\ \E outcome \in Outcomes :
       /\ outcome = "restored" \/ FreshAllowed(outcome)
       /\ IF outcome = "restored" THEN OpenRestored ELSE OpenFresh(outcome)
  /\ live' = IF provider = "claude_code" THEN live \cup {run + 1} ELSE live

Open ==
  /\ at = "idle" /\ run < MaxRuns
  /\ SessionOpens
  /\ run' = run + 1 /\ at' = "loop" /\ sawFirst' = FALSE
  /\ UNCHANGED <<fixed, retry, stream, verdict, clock, escaped, abandoned, stranded>>

\* No session is opened: the workspace, a hook or request.json fails, the
\* Claude client does not connect, or the policy forbids another session.
OpenFails ==
  /\ at = "idle" /\ run < MaxRuns
  /\ \E retryable \in {FALSE, "failed" \in Outcomes /\ policy = "resume_same_session"} :
       Failed(retryable)
  /\ run' = run + 1
  /\ UNCHANGED <<fixed, carry, at, records, thread, sawFirst, stream, verdict,
                 clock, escaped, procs>>

\* session.json cannot be written: _dispatch counts a failure and forgets the
\* session, whose client nobody closes.
OpenFailsLate ==
  /\ at = "idle" /\ run < MaxRuns
  /\ SessionOpens /\ Failed(FALSE)
  /\ stranded' = IF provider = "claude_code" THEN stranded \cup {run + 1} ELSE stranded
  /\ run' = run + 1
  /\ UNCHANGED <<fixed, at, sawFirst, stream, verdict, clock, escaped, abandoned>>

----------------------------------------------------------------------------
(* The turns.                                                              *)

TurnOver == sinceTurn >= TurnBudget
Stalled  == sinceEvent >= StallBudget

\* Mutant of NextTurn: one turn too many.
NextTurnBeyond ==
  /\ at = "loop" /\ turns <= MaxTurns
  /\ at' = "reading" /\ queue' = <<>> /\ sinceTurn' = 0 /\ sinceEvent' = 0
  /\ live' = live \cup {run}
  /\ UNCHANGED <<fixed, carry, run, retry, records, thread, sawFirst, log,
                 denied, verdict, escaped, abandoned, stranded>>

\* The continuation policy has a message; the first one is always rendered.
NextTurn ==
  /\ at = "loop" /\ turns < MaxTurns
  /\ at' = "reading" /\ queue' = <<>> /\ sinceTurn' = 0 /\ sinceEvent' = 0
  /\ live' = live \cup {run}
  /\ UNCHANGED <<fixed, carry, run, retry, records, thread, sawFirst, log,
                 denied, verdict, escaped, abandoned, stranded>>

StopTurns ==
  /\ at = "loop" /\ turns > 0
  /\ at' = "closing" /\ terminal' = "completed"
  /\ UNCHANGED <<fixed, carry, run, retry, records, thread, sawFirst, stream,
                 turns, subtype, clock, escaped, procs>>

\* Mutant of EndTurn: a failed turn does not end the loop.
EndTurnGoingOn(e) ==
  /\ turns' = turns + 1 /\ UNCHANGED subtype
  /\ IF e # "turn_cancelled"
     THEN at' = "loop" /\ UNCHANGED <<terminal, retry>>
     ELSE at' = "closing" /\ terminal' = "cancelled" /\ Failed(TRUE)

\* _run_worker after a turn that ended with event e.  The subtype in the
\* payload of turn_failed decides whether it may be retried.
EndTurn(e) ==
  /\ turns' = turns + 1 /\ UNCHANGED subtype
  /\ IF e = "turn_completed"
     THEN at' = "loop" /\ UNCHANGED <<terminal, retry>>
     ELSE /\ at' = "closing"
          /\ terminal' = IF e = "turn_failed" THEN "failed" ELSE "cancelled"
          /\ \E retryable \in BOOLEAN :
               /\ e = "turn_cancelled" => retryable
               /\ Failed(retryable)

\* An exception escapes from the turn: what the generator has ready is lost,
\* and no verdict is reached.
Escapes ==
  /\ at' = "closing" /\ escaped' = TRUE /\ queue' = <<>>
  /\ sinceTurn' = 0 /\ sinceEvent' = 0
  /\ UNCHANGED <<retry, turns>>

\* The event is recorded, and ends the turn or does not.
Recorded(q) ==
  LET e == Head(q).event
  IN /\ log' = Append(log, e) /\ UNCHANGED escaped
     /\ sinceEvent' = 0
     /\ IF e \in TurnEnd
        THEN queue' = <<>> /\ sinceTurn' = 0 /\ EndTurn(e)
        ELSE queue' = Tail(q) /\ UNCHANGED <<at, retry, verdict, sinceTurn>>

\* events.jsonl, or usage.json after it, cannot be written.
RecordingRaises(q) ==
  /\ log' \in {log, Append(log, Head(q).event)}
  /\ Escapes /\ UNCHANGED <<terminal, subtype>>

\* The generator yields the first event of q: the provider learns an id and
\* writes the record (which may fail), the orchestrator records the event.
Deliver(q) ==
  LET e == Head(q)
      learnt == IF e.pid = NoId THEN record ELSE [record EXCEPT !.pid = e.pid]
  IN /\ denied' = e.denied /\ record' = learnt
     /\ disk' \in {disk} \cup (IF e.pid = NoId THEN {}
                               ELSE {[disk EXCEPT ![run] = learnt]})
     /\ Recorded(q) \/ RecordingRaises(q)

\* An event the generator has ready is not fetched once a budget is used up.
ReadNext ==
  /\ at = "reading" /\ queue # <<>>
  /\ ~TurnOver /\ ~Stalled
  /\ Deliver(queue)
  /\ UNCHANGED <<fixed, carry, run, thread, sawFirst, procs>>

Announce == IF thread[run] = run THEN "session_started" ELSE "session_restored"

\* Mutant of Announcement: saw_first_event is not looked at.
AnnouncementEachTurn(id) == <<Announcing(Announce, id)>>

\* The event a provider synthesizes once per attempt, before its other ones.
Announcement(id) == IF sawFirst THEN <<>> ELSE <<Announcing(Announce, id)>>

\* Claude: what _normalize_message makes of one SDK message.  A message of
\* the assistant becomes several events; the announcement goes before the
\* first events of the attempt and takes its id from that message alone.
MessageEvents(kind) ==
  IF kind = "content" THEN <<Plain("content"), Plain("content")>>
  ELSE <<Plain(kind)>>

MessageKinds == TurnEnd \cup {"content", "heartbeat", "malformed"}

Message ==
  /\ provider = "claude_code" /\ at = "reading" /\ queue = <<>>
  /\ \E kind \in MessageKinds, id \in {NoId, thread[run]}, denials \in BOOLEAN :
       LET first  == Announcement(IF id = NoId THEN record.pid ELSE id)
           events == [MessageEvents(kind) EXCEPT ![1].denied = denials]
       IN /\ kind \in TurnEnd \/ Len(log \o first \o events) < MaxEvents
          /\ denials => kind = "turn_completed"
          /\ Deliver(first \o events)
  /\ sawFirst' = TRUE
  /\ UNCHANGED <<fixed, carry, run, thread, procs>>

\* Codex: the process has ended and its output is at hand: an undecodable
\* line, the thread.started line and its id, an item, the end of the turn,
\* the exit code, and denials found in the text.
CodexOutput == [malformed : BOOLEAN, started : {"no", "unnamed", "named"},
                item : BOOLEAN, end : {"none", "turn.failed", "turn.completed"},
                ok : BOOLEAN, denied : BOOLEAN]

CodexEnd(o, id) ==
  IF o.end # "turn.completed" THEN <<Plain("turn_failed")>>
  ELSE IF id = NoId THEN <<Plain("malformed"), Plain("turn_failed")>>
  ELSE IF ~o.ok THEN <<[Plain("turn_failed") EXCEPT !.denied = o.denied]>>
  ELSE <<[Plain("turn_completed") EXCEPT !.denied = o.denied]>>

CodexEvents(o) ==
  LET id == IF o.started = "named" THEN thread[run] ELSE record.pid
  IN IF o.malformed THEN <<Plain("malformed"), Plain("turn_failed")>>
     ELSE (IF o.started = "no" THEN <<>>
           ELSE Announcement(IF o.started = "named" THEN thread[run] ELSE NoId))
          \o (IF o.item THEN <<Plain("content")>> ELSE <<>>)
          \o CodexEnd(o, id)

CodexExits ==
  /\ provider = "codex" /\ at = "reading" /\ queue = <<>>
  /\ \E o \in CodexOutput :
       /\ Deliver(CodexEvents(o))
       /\ sawFirst' = (sawFirst \/ (~o.malformed /\ o.started # "no"))
  /\ live' = live \ {run}
  /\ UNCHANGED <<fixed, carry, run, thread, abandoned, stranded>>

\* Claude: the SDK's stream ends without a ResultMessage.
StreamEnds ==
  /\ provider = "claude_code" /\ at = "reading" /\ queue = <<>>
  /\ at' = "closing" /\ terminal' = "crashed" /\ turns' = turns + 1
  /\ Failed(TRUE)
  /\ UNCHANGED <<fixed, carry, run, records, thread, sawFirst, stream, subtype,
                 clock, escaped, procs>>

\* Claude: query or receive_response raises; _wrap_sdk_error tells whether
\* the error is a retryable one.
StreamRaises ==
  /\ provider = "claude_code" /\ at = "reading" /\ queue = <<>>
  /\ at' = "closing" /\ terminal' = "failed"
  /\ \E retryable \in BOOLEAN : Failed(retryable)
  /\ UNCHANGED <<fixed, carry, run, records, thread, sawFirst, stream, turns,
                 subtype, clock, escaped, procs>>

\* The prompt is not rendered, the worker is cancelled as it waits, or codex
\* is not found, breaks its pipe or sends a line beyond the limit: where the
\* exception leaves _run_codex, its process may be left running.
RunEscapes ==
  /\ at = "reading" \/ (at = "loop" /\ turns < MaxTurns)
  /\ Escapes
  /\ live' \in {live} \cup (IF provider = "codex" THEN {live \ {run}} ELSE {})
  /\ UNCHANGED <<fixed, carry, run, records, thread, sawFirst, log, denied,
                 terminal, subtype, abandoned, stranded>>

----------------------------------------------------------------------------
(* The budgets of a turn.                                                  *)

TimePasses ==
  /\ at = "reading" /\ ~TurnOver /\ ~Stalled
  /\ sinceTurn' = sinceTurn + 1 /\ sinceEvent' = sinceEvent + 1
  /\ UNCHANGED <<fixed, carry, at, run, retry, records, thread, sawFirst,
                 stream, verdict, escaped, procs>>

\* Mutant of TimesOut: the budget of the turn is not looked at.
TimesOutWhenStalled ==
  /\ at = "reading" /\ Stalled
  /\ at' = "stopping" /\ queue' = <<>>
  /\ subtype' = "stall_timeout"
  /\ abandoned' = IF provider = "codex" /\ run \in live
                  THEN abandoned \cup {run} ELSE abandoned
  /\ UNCHANGED <<fixed, carry, run, retry, records, thread, sawFirst, log,
                 denied, turns, terminal, clock, escaped, live, stranded>>

\* wait_for gives up, or the rest of a budget is nothing before it is called;
\* the generator is cancelled, which leaves a codex process as it is.
TimesOut ==
  /\ at = "reading" /\ (TurnOver \/ Stalled)
  /\ at' = "stopping" /\ queue' = <<>>
  /\ subtype' = IF TurnOver THEN "turn_timeout" ELSE "stall_timeout"
  /\ abandoned' = IF provider = "codex" /\ run \in live
                  THEN abandoned \cup {run} ELSE abandoned
  /\ UNCHANGED <<fixed, carry, run, retry, records, thread, sawFirst, log,
                 denied, turns, terminal, clock, escaped, live, stranded>>

\* provider.interrupt returns, or raises a ProviderError that is logged: for
\* Codex at once, for Claude when the SDK's interrupt does.
Interrupted ==
  /\ at = "stopping"
  /\ at' = "closing" /\ terminal' = "cancelled" /\ turns' = turns + 1
  /\ log' = Append(log, "timed_out") /\ denied' = FALSE
  /\ Failed(TRUE)
  /\ UNCHANGED <<fixed, carry, run, records, thread, sawFirst, queue, subtype,
                 clock, escaped, procs>>

\* Claude's interrupt is cancelled before _on_turn_timeout gives a verdict, or
\* the event it synthesizes cannot be written.
InterruptEscapes ==
  /\ at = "stopping"
  /\ \/ /\ provider = "claude_code" /\ subtype' = "none"
        /\ UNCHANGED <<terminal, log, denied>>
     \/ /\ terminal' = "cancelled" /\ UNCHANGED subtype
        /\ log' \in {log, Append(log, "timed_out")} /\ denied' = FALSE
  /\ Escapes
  /\ UNCHANGED <<fixed, carry, run, records, thread, sawFirst, procs>>

----------------------------------------------------------------------------
(* The end of a run.                                                       *)

\* Mutant of Close: the client is not disconnected.
CloseConnected ==
  /\ at = "closing"
  /\ at' = "ended"
  /\ UNCHANGED <<fixed, carry, run, retry, records, thread, sawFirst, stream,
                 verdict, clock, escaped, procs>>

\* The after_run hook and provider.close: Claude's client is disconnected, or
\* disconnect raises and is not tried again; a codex process is left alone.
Close ==
  /\ at = "closing"
  /\ at' = "ended"
  /\ \/ /\ live' = IF provider = "claude_code" THEN live \ {run} ELSE live
        /\ UNCHANGED stranded
     \/ /\ provider = "claude_code"
        /\ stranded' = stranded \cup {run} /\ UNCHANGED live
  /\ UNCHANGED <<fixed, carry, run, retry, records, thread, sawFirst, stream,
                 verdict, clock, escaped, abandoned>>

\* The hook finds no workspace, close is cancelled, or terminal.json cannot be
\* written: the rest of the finally is skipped.
FinallyRaises ==
  /\ at \in {"closing", "ended"}
  /\ at' = "dead"
  /\ UNCHANGED <<fixed, carry, run, retry, records, thread, sawFirst, stream,
                 verdict, clock, escaped, procs>>

\* The exception leaves gather, run_once and the daemon's loop.
DaemonEnds ==
  /\ at = "ended" /\ escaped
  /\ at' = "dead"
  /\ UNCHANGED <<fixed, carry, run, retry, records, thread, sawFirst, stream,
                 verdict, clock, escaped, procs>>

\* What follows the detection of the outcome: routing, terminal.json, the
\* worker leaves `active', a success drops the retry state.
Settle ==
  /\ at = "ended" /\ ~escaped
  /\ at' = "idle"
  /\ IF terminal = "completed" THEN attempts' = 0 /\ scheduled' = FALSE
                               ELSE UNCHANGED retry
  /\ record' = NoRecord /\ sawFirst' = FALSE
  /\ queue' = <<>> /\ log' = <<>> /\ denied' = FALSE
  /\ turns' = 0 /\ terminal' = "none" /\ subtype' = "none"
  /\ sinceTurn' = 0 /\ sinceEvent' = 0
  /\ UNCHANGED <<fixed, carry, run, disk, thread, escaped, procs>>

\* A codex process that was left running comes to its end; a Claude client
\* that was stays connected as long as the daemon lives.
LeftoverExits ==
  /\ \E r \in abandoned \cap live : live' = live \ {r}
  /\ UNCHANGED <<fixed, carry, at, run, retry, records, thread, sawFirst,
                 stream, verdict, clock, escaped, abandoned, stranded>>

WorkerStep ==
  \/ Open \/ OpenFails \/ OpenFailsLate
  \/ NextTurn \/ StopTurns \/ ReadNext \/ TimesOut \/ Interrupted \/ Close

ProviderStep == Message \/ CodexExits \/ StreamEnds \/ StreamRaises

ExceptionStep == RunEscapes \/ InterruptEscapes \/ FinallyRaises \/ DaemonEnds

SessionNext ==
  \/ WorkerStep \/ ProviderStep \/ ExceptionStep
  \/ TimePasses \/ Settle \/ LeftoverExits

SessionSpec == SessionInit /\ [][SessionNext]_svars

\* The orchestrator's own steps need nothing but the event loop, and time
\* passes.  interrupt and disconnect of the Claude SDK are awaited without a
\* limit of their own: that they return is an assumption on the SDK.
OwnStep ==
  \/ NextTurn \/ StopTurns \/ ReadNext \/ TimesOut \/ Settle \/ DaemonEnds
  \/ (provider = "codex" /\ (Interrupted \/ Close))

SessionFairness ==
  /\ WF_svars(OwnStep)
  /\ WF_svars(TimePasses)
  /\ WF_svars(Interrupted \/ Close)

FairSessionSpec == SessionSpec /\ SessionFairness

----------------------------------------------------------------------------
(* Properties.                                                             *)

\* A run is announced at most once, no turn completes unannounced, and what
\* Claude says comes after the announcement (send_input, _normalize_raw_event).
Announcements == {n \in DOMAIN log : log[n] \in {"session_started", "session_restored"}}

AnnouncedFirst ==
  /\ \A m, n \in Announcements : m = n
  /\ \A n \in DOMAIN log :
       /\ log[n] = "turn_completed" => \E m \in Announcements : m < n
       /\ (provider = "claude_code" /\ log[n] # "timed_out") => 1 \in Announcements

\* The id in a session record is that of the conversation its run is really
\* in, for every run on disk and for the one in progress, whatever a lost
\* write, a late announcement or an earlier run left; a first attempt speaks
\* in a conversation of its own; and the ids the daemon before left are handed
\* over once (_start_worker, send_input, _persist_session).
RecordsNameTheirConversation ==
  /\ \A r \in Runs : disk[r].pid \in {NoId, thread[r]}
  /\ at # "idle" => /\ record.pid \in {NoId, thread[run]}
                    /\ record.attempt = 1 => thread[run] = run
  /\ PriorId \in record.prev => carry = {}

\* An event that ends the run is its last one.  Unless an exception escaped,
\* the terminal state says how the last turn ended, and a run that did not
\* complete has been counted as a failed attempt; a run an exception escaped
\* from never passes for one that completed (_run_worker, _on_turn_timeout).
EndsTheRun == {"turn_failed", "turn_cancelled", "timed_out"}
Over       == {"closing", "ended", "dead"}

VerdictMatchesEvents ==
  /\ \A n \in DOMAIN log : log[n] \in EndsTheRun => n = Len(log) /\ at \in Over
  /\ at \in Over /\ ~escaped =>
       LET lastEvent == IF log = <<>> THEN "none" ELSE log[Len(log)]
       IN /\ terminal = "completed" => lastEvent = "turn_completed"
          /\ terminal = "cancelled" <=> lastEvent \in {"turn_cancelled", "timed_out"}
          /\ lastEvent = "turn_failed" => terminal = "failed"
          /\ subtype # "none" <=> lastEvent = "timed_out"
          /\ terminal # "completed" => attempts > 0
  /\ escaped => terminal \in {"none", "cancelled"}

\* A process outlives its run in a daemon that goes on in three cases only: a
\* codex process whose turn timed out, a Claude client that would not
\* disconnect, and one whose start failed after it was connected.  The run
\* whose exception ends the daemon may leave its own process too (close,
\* _start_worker, _run_codex).
Current == IF at = "idle" \/ (at = "ended" /\ ~escaped) THEN {} ELSE {run}

ProcessesAccountedFor ==
  /\ live \subseteq abandoned \cup stranded \cup Current
  /\ abandoned # {} => provider = "codex"
  /\ stranded # {} => provider = "claude_code"

\* Every run comes to its end, whatever the provider sends or leaves unsent
\* (the budgets of _run_one_turn), or ends the daemon.
RunEnds == at \notin {"idle", "dead"} ~> at \in {"idle", "dead"}
=============================================================================
