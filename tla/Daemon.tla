------------------------------- MODULE Daemon -------------------------------
(***************************************************************************)
(* The daemon over crashes and restarts: the poll loop of Orchestrator,    *)
(* the session records the providers write under claude.session_store, and *)
(* Orchestrator.recover, which goes through them before the first tick.    *)
(*                                                                         *)
(* A crash loses everything but GitHub and the session store.  recover     *)
(* drives a resumed worker inline: the worker is that of Orchestrator, in  *)
(* the phase "gather", and no tick begins before recover has returned.     *)
(***************************************************************************)
EXTENDS Orchestrator, Sequences

CONSTANTS
  MaxSessions,   \* bound: the session records ever written
  MaxCrashes     \* bound: the crashes in one behaviour

ASSUME DaemonAssumption == MaxSessions \in Nat /\ MaxCrashes \in Nat

VARIABLES
  store,     \* the session records, by their id
  order,     \* their places in the order of their last write (mtime)
  heard,     \* the workers whose provider has revealed its session id
  carry,     \* _restart_carryover: the newest provider session to hand over
  recovery,  \* where recover is
  todo,      \* ids of the records it still has to decide
  resumed,   \* the id of the record whose session it drives, 0 when none
  fresh,     \* the issues it fetched, as they were then
  gone,      \* GitHub: the issues deleted or moved away
  crashes

disk    == <<store, order>>
decided == <<recovery, todo, resumed, fresh>>
daemon  == <<disk, heard, carry, decided, gone, crashes>>
dvars   == <<vars, daemon>>

\* A record as recover reads it.  known: provider_session_id is set; live:
\* terminal_state is not.  Its number stands for the provider session, too.
Record == [issue : Issues, known : BOOLEAN, live : BOOLEAN]

Recovery == {"none", "found", "deciding", "driving", "stamping"}

Snapshot(S) == [S -> [open : BOOLEAN, labels : SUBSET Label]]
NoAnswer    == [i \in {} |-> [open |-> FALSE, labels |-> {}]]

DaemonTypeOK ==
  /\ TypeOK
  /\ store \in Seq(Record) /\ Len(store) <= MaxSessions
  /\ order \in [1..Len(store) -> 1..Len(store)]
  /\ heard \subseteq active
  /\ carry \in [Issues -> 0..MaxSessions]
  /\ recovery \in Recovery
  /\ todo \subseteq 1..Len(store) /\ resumed \in 0..Len(store)
  /\ \E S \in SUBSET Issues : fresh \in Snapshot(S)
  /\ gone \in SUBSET (Issues \ open)
  /\ crashes \in 0..MaxCrashes

DaemonInit ==
  /\ Init
  /\ store = <<>> /\ order = <<>> /\ heard = {} /\ carry = [i \in Issues |-> 0]
  /\ recovery = "none" /\ todo = {} /\ resumed = 0 /\ fresh = NoAnswer
  /\ gone = {} /\ crashes = 0

----------------------------------------------------------------------------
(* The session store.                                                      *)

\* Mutant of MovedToEnd: a file is written beside its former self.
MovedBeyond(k) == [j \in DOMAIN store |-> IF j = k THEN Len(store) + 1 ELSE order[j]]

\* _persist_session and _stamp_record_terminal replace the file of a record,
\* which thereby becomes the newest.
MovedToEnd(k) ==
  [j \in DOMAIN store |->
     IF j = k THEN Len(store)
     ELSE IF order[j] > order[k] THEN order[j] - 1 ELSE order[j]]

Persist(k, r) == store' = [store EXCEPT ![k] = r] /\ order' = MovedToEnd(k)

Stamp(k) == Persist(k, [store[k] EXCEPT !.live = FALSE])

\* The record of the worker of an issue is the one last written for it.
IsRecordOf(k, i) ==
  /\ store[k].issue = i
  /\ \A j \in DOMAIN store : store[j].issue = i => order[j] <= order[k]

\* Mutant of IsNext: the newest record first.
IsNewest(k) == k \in todo /\ \A j \in todo : order[j] <= order[k]

\* recover goes through the records oldest first; no other one that it still
\* has to decide is written meanwhile.
IsNext(k) == k \in todo /\ \A j \in todo : order[k] <= order[j]

----------------------------------------------------------------------------
(* Ticks and workers, with what they do to the records.                    *)

\* run_forever begins when recover has returned.
Tick ==
  /\ recovery = "none"
  /\ \/ BeginTick \/ Reconcile \/ FetchCandidates \/ FetchFails \/ EndDispatch
     \/ \E i \in Issues : Skip(i) \/ (Len(store) < MaxSessions /\ Claim(i))
     \/ \E i \in Issues, retryable \in BOOLEAN : StartFails(i, retryable)
  /\ UNCHANGED daemon

\* start_session persists a record without provider_session_id.  Only a first
\* attempt drains the carryover.
StartSession(i) ==
  /\ recovery = "none"
  /\ Start(i)
  /\ Len(store) < MaxSessions
  /\ store' = Append(store, [issue |-> i, known |-> FALSE, live |-> TRUE])
  /\ order' = Append(order, Len(store) + 1)
  /\ carry' = IF attempts[i] = 0 THEN [carry EXCEPT ![i] = 0] ELSE carry
  /\ UNCHANGED <<heard, decided, gone, crashes>>

\* The first event of a session reveals its id, and the record is patched.
FirstEvent(i) ==
  /\ phase = "gather" /\ stage[i] = "turn" /\ i \notin heard
  /\ heard' = heard \cup {i}
  /\ \E k \in DOMAIN store :
       IsRecordOf(k, i) /\ Persist(k, [store[k] EXCEPT !.known = TRUE])
  /\ UNCHANGED <<vars, carry, decided, gone, crashes>>

\* No record is written when a run ends: terminal_state stays unset on disk.
Work(i) ==
  /\ \/ i \in heard /\ (NextTurn(i) \/ TurnCompletes(i))
     \/ \E t \in Terminal, retryable \in BOOLEAN : TurnBreaks(i, t, retryable)
     \/ TurnEscapes(i) \/ Finish(i) \/ AbandonFinally(i) \/ CancelTurn(i)
  /\ heard' = heard \cap active'
  /\ recovery' = IF recovery = "driving" /\ phase' = "idle" THEN "stamping" ELSE recovery
  /\ UNCHANGED <<disk, carry, todo, resumed, fresh, gone, crashes>>

----------------------------------------------------------------------------
(* Crash, restart and recovery.                                            *)

\* What a process keeps in memory, as a new one finds it.
Forgotten ==
  /\ paused' = FALSE /\ pending' = {} /\ slots' = 0 /\ starting' = {}
  /\ active' = {} /\ heard' = {}
  /\ stage' = [i \in Issues |-> "none"] /\ terminal' = [i \in Issues |-> "none"]
  /\ turns' = [i \in Issues |-> 0]
  /\ attempts' = [i \in Issues |-> 0] /\ next' = [i \in Issues |-> "none"]
  /\ carry' = [i \in Issues |-> 0]
  /\ resumed' = 0 /\ fresh' = NoAnswer

\* The process is gone, and all it had in memory.
Dies ==
  /\ phase' = "dead" /\ Forgotten /\ recovery' = "none" /\ todo' = {}
  /\ UNCHANGED <<github, env, gone>>

\* The process is killed.
Crash ==
  /\ phase # "dead" /\ crashes < MaxCrashes
  /\ crashes' = crashes + 1
  /\ Dies /\ UNCHANGED disk

\* A new process: discover_persisted_records reads the store.
Restart ==
  /\ phase = "dead"
  /\ phase' = "idle" /\ Forgotten
  /\ todo' = {k \in DOMAIN store : store[k].live}
  /\ recovery' = IF todo' = {} THEN "none" ELSE "found"
  /\ UNCHANGED <<github, env, disk, gone, crashes>>

\* One answer per issue for all the records: fetch_issues_by_numbers.
FetchIssues ==
  /\ recovery = "found" /\ phase = "idle"
  /\ recovery' = "deciding"
  /\ LET asked == {store[k].issue : k \in todo} \ gone
     IN  fresh' = [i \in asked |-> [open |-> i \in open, labels |-> labels[i]]]
  /\ UNCHANGED <<vars, disk, heard, carry, todo, resumed, gone, crashes>>


\* The fetch fails: every record is skipped, that is stamped FAILED; nobody looks
\* at the places of records that are all settled.
FetchIssuesFails ==
  /\ recovery = "found" /\ phase = "idle"
  /\ recovery' = "none" /\ todo' = {}
  /\ store' = [k \in DOMAIN store |-> [store[k] EXCEPT !.live = FALSE]]
  /\ UNCHANGED <<vars, order, heard, carry, resumed, fresh, gone, crashes>>

\* The next record, and what recover knows of its issue.
Deciding(k)   == recovery = "deciding" /\ phase = "idle" /\ IsNext(k)
Retrieved(k)  == store[k].issue \in DOMAIN fresh
Actionable(k) ==
  LET f == fresh[store[k].issue] IN f.open /\ Blocked \notin f.labels /\ f.labels \cap Exclude = {}

\* The decision is recorded and the record stamped; S are the ones left.
Decided(k, S) ==
  /\ Stamp(k)
  /\ todo' = S /\ resumed' = 0
  /\ recovery' = IF S = {} THEN "none" ELSE "deciding"
  /\ fresh' = IF S = {} THEN NoAnswer ELSE fresh
  /\ UNCHANGED <<open, env, tick, workers, retry, heard, gone, crashes>>

\* release_issue and mark_issue_blocked, whose TrackerErrors are logged.
Settle(k, answers) ==
  \E a \in answers : labels' = [labels EXCEPT ![store[k].issue] = a.labels]

Released(k) == Settle(k, ReleaseIssue(labels[store[k].issue]))
GivenUp(k)  == Settle(k, MarkIssueBlocked(labels[store[k].issue]))

Discard(k) ==
  /\ Deciding(k) /\ ~Retrieved(k)
  /\ Decided(k, todo \ {k}) /\ UNCHANGED <<labels, carry>>

ReleaseIneligible(k) ==
  /\ Deciding(k) /\ Retrieved(k) /\ ~Actionable(k)
  /\ Released(k) /\ Decided(k, todo \ {k}) /\ UNCHANGED carry

FailClosed(k) ==
  /\ Deciding(k) /\ Retrieved(k) /\ Actionable(k) /\ policy = "fail_closed"
  /\ GivenUp(k) /\ Decided(k, todo \ {k}) /\ UNCHANGED carry

HandOver(k) ==
  /\ Deciding(k) /\ Retrieved(k) /\ Actionable(k) /\ policy = "new_session_with_summary"
  /\ Released(k) /\ Decided(k, todo \ {k})
  /\ carry' = IF store[k].known THEN [carry EXCEPT ![store[k].issue] = k] ELSE carry

Resuming(k) ==
  Deciding(k) /\ Retrieved(k) /\ Actionable(k) /\ policy = "resume_same_session"

\* Mutant of ReleaseUnknown: the claim is left.
ForgetUnknown(k) ==
  /\ Resuming(k) /\ ~store[k].known
  /\ Decided(k, todo \ {k}) /\ UNCHANGED <<labels, carry>>

ReleaseUnknown(k) ==
  /\ Resuming(k) /\ ~store[k].known
  /\ Released(k) /\ Decided(k, todo \ {k}) /\ UNCHANGED carry

RestoreFails(k) ==
  /\ Resuming(k) /\ store[k].known
  /\ GivenUp(k) /\ Decided(k, todo \ {k}) /\ UNCHANGED carry

\* restore persists the record again, and the worker starts.
Resume(k) ==
  /\ Resuming(k) /\ store[k].known
  /\ Persist(k, store[k])
  /\ active' = active \cup {store[k].issue}
  /\ stage' = [stage EXCEPT ![store[k].issue] = "turn"]
  /\ heard' = heard \cup {store[k].issue}
  /\ phase' = "gather"
  /\ recovery' = "driving" /\ resumed' = k /\ todo' = todo \ {k}
  /\ UNCHANGED <<github, env, paused, pending, slots, starting, turns, terminal, retry,
                 carry, fresh, gone, crashes>>

\* workspaces.prepare, the before_run hook or a file of the resumed attempt fails
\* (before or after restore has persisted the record): the exception leaves
\* recover and ends the daemon, and at the next restart the record is decided
\* again.  No bound: what made it fail may last.
ResumeEscapes(k) ==
  /\ Resuming(k) /\ store[k].known
  /\ UNCHANGED disk \/ Persist(k, store[k])
  /\ Dies /\ UNCHANGED crashes

\* _run_worker has returned: the record of the resumed session is stamped.
StampResumed ==
  /\ recovery = "stamping" /\ phase = "idle"
  /\ Decided(resumed, todo)
  /\ UNCHANGED <<labels, carry>>

Decide(k) ==
  \/ Discard(k) \/ ReleaseIneligible(k) \/ FailClosed(k) \/ HandOver(k)
  \/ ReleaseUnknown(k) \/ RestoreFails(k) \/ Resume(k)

Recover ==
  \/ FetchIssues \/ FetchIssuesFails \/ StampResumed
  \/ \E k \in todo : Decide(k) \/ ResumeEscapes(k)

----------------------------------------------------------------------------
\* An issue is deleted or transferred: GitHub no longer answers for it.
Delete(i) ==
  /\ OperatorMoves
  /\ i \notin gone
  /\ gone' = gone \cup {i}
  /\ open' = open \ {i}
  /\ UNCHANGED <<labels, workflowValid, tick, workers, retry, disk, heard, carry,
                 decided, crashes>>

Elsewhere ==
  /\ \/ Operator /\ open' \cap gone = {}
     \/ Interrupt
     \/ \E i \in Issues : BackoffElapses(i)
  /\ UNCHANGED daemon

DaemonNext ==
  \/ Tick \/ Recover \/ Crash \/ Restart \/ Elsewhere
  \/ \E i \in Issues : StartSession(i) \/ FirstEvent(i) \/ Work(i) \/ Delete(i)

DaemonSpec == DaemonInit /\ [][DaemonNext]_dvars

\* As in Orchestrator; the supervisor restarts a dead process.
DaemonFairness ==
  /\ WF_dvars(Tick \/ \E i \in Issues : StartSession(i))
  /\ WF_dvars(Recover) /\ WF_dvars(Restart)
  /\ \A i \in Issues : WF_dvars(FirstEvent(i) \/ Work(i))

FairDaemonSpec == DaemonSpec /\ DaemonFairness

(***************************************************************************)
(* Properties.                                                             *)
(***************************************************************************)

\* recover comes back to the poll loop (it does not crash).
RecoveryReturns ==
  recovery # "none" /\ recovery' = "none" /\ phase = "idle" /\ phase' = "idle"

\* When no tracker call fails, no issue with an in-flight record keeps its
\* claim over a recovery: whether it was released, blocked or resumed, whatever
\* became of the run that was resumed, and however often recover was cut short.
RecoveryReleasesClaims ==
  [][RecoveryReturns /\ ~TrackerFaults =>
       \A i \in DOMAIN fresh \ gone : Running \notin labels'[i]]_dvars

\* Of several records of an issue the newest session is handed over: a record
\* decided later never replaces the carryover by an older session.
CarryNeverGoesBack ==
  [][recovery = "deciding" /\ phase # "dead" /\ phase' # "dead" =>
       \A i \in Issues : carry'[i] >= carry[i]]_dvars


(***************************************************************************)
(* What the repository's documents say and the code does not do.           *)
(***************************************************************************)

\* recover resumes "records that did not reach a clean terminal write"
\* (recovery.py), that is runs that were cut off: their issue is still claimed.
OnlyCutOffRunsAreResumed ==
  [][recovery = "deciding" /\ recovery' = "driving" =>
       Running \in labels[store[resumed'].issue]]_dvars
=============================================================================
