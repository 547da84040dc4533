----------------------------- MODULE Workspaces -----------------------------
(***************************************************************************)
(* What the daemon leaves on disk for an issue, and what it takes away:    *)
(* the working directory (WorkspaceManager, GitWorkspacePopulator) with    *)
(* its three cleanup triggers (WorkspaceCleanupExecutor), and the artifact *)
(* directories of the attempts (ArtifactWriter) with their retention       *)
(* (ArtifactRetentionExecutor).                                            *)
(*                                                                         *)
(* Directories of different issues are disjoint and no two workers share   *)
(* an issue, so that one issue is enough.  What makes this hard is that a  *)
(* directory outlives runs, crashes and failed steps: every git command,   *)
(* every deletion and the daemon itself may fail half-way, and the next    *)
(* run takes over what is there.                                           *)
(***************************************************************************)
EXTENDS Naturals, Sequences

CONSTANTS
  MaxAge,          \* workspace.cleanup.max_age_days, in days; 0 when unset
  OnTerminal,      \* workspace.cleanup.on_terminal_issue
  OnClosedPr,      \* workspace.cleanup.on_closed_pr
  DryRun,          \* both dry_run settings
  Retention,       \* claude.artifact_retention.max_age_days
  RoleStates,      \* the kinds of role state a run may be in: "none" is the legacy workflow
  LastAttempt,     \* bound: attempt numbers
  MaxCrashes,      \* bound: crashes of the daemon
  MaxRequeues      \* bound: how often the operator queues the issue again

ASSUME WorkspacesAssumption ==
  /\ {MaxAge, MaxCrashes, MaxRequeues} \subseteq Nat
  /\ {Retention, LastAttempt} \subseteq Nat \ {0}
  /\ {OnTerminal, OnClosedPr, DryRun} \subseteq BOOLEAN
  /\ RoleStates \subseteq {"none", "ordinary", "terminal"}

VARIABLES
  pc,          \* where the daemon is
  ready,       \* may the issue be dispatched, by its labels?
  pr,          \* GitHub: the pull requests linked to the issue
  attempts,    \* RetryState.attempts; 0 when there is none
  attempt,     \* the number of the run that is prepared or goes on
  recovering,  \* is it prepared by recover?
  reused,      \* Workspace.reused
  todo,        \* the git commands populate has still to run
  raised,      \* has one of them failed, with only the finally block left?
  record,      \* the newest session record
  workspace,   \* the working directory
  store,       \* claude.artifact_store: the directories of the attempts
  outcome,     \* how the run of this tick ended, and in which kind of role state
  crashes, requeues

run  == <<attempt, recovering, reused, todo, raised>>
disk == <<record, workspace, store, outcome>>
env  == <<ready, pr, crashes, requeues>>
vars == <<pc, attempts, run, disk, env>>

(***************************************************************************)
(* A working directory: whether it holds a checkout, the URL of its remote *)
(* (with or without the token, or none), whether HEAD and the files are    *)
(* those of the base branch ("reset" when only the tracked ones are), what *)
(* populate does not undo (the branch that is checked out may be another,  *)
(* and untracked git repositories may be among the files), the days since  *)
(* its modification time, and how often after_create ran in it.            *)
(***************************************************************************)
Workspace == [dir : {"none", "empty", "files", "git"}, origin : {"none", "authed", "public"},
              tree : {"other", "reset", "base"}, leftover : BOOLEAN, age : 0..MaxAge, hooked : 0..1]

NoWorkspace ==
  [dir |-> "none", origin |-> "none", tree |-> "other", leftover |-> FALSE, age |-> 0,
   hooked |-> 0]

\* The directory of an attempt: the files in it, the days since its modification
\* time, the days since a run wrote to it, and whether a second run did.
AttemptDir == [names : SUBSET {"request.json", "session.json", "terminal.json"}, age : 0..Retention,
               written : 0..Retention, again : BOOLEAN]

NoAttemptDir == [names |-> {}, age |-> 0, written |-> 0, again |-> FALSE]

NoRecord == [attempt |-> 0, over |-> FALSE]

\* How a run ends: completed with a pull request, with a declaration that there
\* is none (for a reason that leaves the issue to the operator, or another),
\* without evidence or with denied tool calls, or with an outcome nobody could
\* verify; failed for good, or to be retried.
Ending == {"with_pr", "no_pr", "no_pr_blocked", "incomplete", "unknown", "failed", "retry"}

Completed(o) == o \notin {"failed", "retry"}

NoOutcome == [task |-> "none", state |-> "none"]

WorkspaceTypeOK ==
  /\ pc \in {"down", "idle", "retention", "age", "closed_pr", "dispatch", "git", "hooks",
             "session"}
  /\ ready \in BOOLEAN /\ pr \in {"none", "open", "closed"}
  /\ attempts \in 0..LastAttempt /\ attempt \in 0..LastAttempt
  /\ recovering \in BOOLEAN /\ reused \in BOOLEAN /\ raised \in BOOLEAN
  /\ todo \in Seq({"clone", "authed", "fetch", "public", "reset", "clean"})
  /\ record \in [attempt : 0..LastAttempt, over : BOOLEAN]
  /\ workspace \in Workspace
  /\ store \in [1..LastAttempt -> AttemptDir]
  /\ outcome \in {NoOutcome} \cup [task : Ending, state : RoleStates]
  /\ crashes \in 0..MaxCrashes /\ requeues \in 0..MaxRequeues

Init ==
  /\ pc = "idle" /\ attempts = 0
  /\ attempt = 0 /\ recovering = FALSE /\ reused = FALSE /\ todo = <<>> /\ raised = FALSE
  /\ record = NoRecord /\ workspace = NoWorkspace
  /\ store = [a \in 1..LastAttempt |-> NoAttemptDir] /\ outcome = NoOutcome
  /\ ready = TRUE /\ pr = "none" /\ crashes = 0 /\ requeues = 0

Idle ==
  /\ attempt' = 0 /\ recovering' = FALSE /\ reused' = FALSE /\ todo' = <<>> /\ raised' = FALSE

----------------------------------------------------------------------------
(* populate: the git commands, each of which may fail or be killed by its  *)
(* timeout.                                                                *)

\* Mutant of Refresh: a checkout that is there is only brought up to date.
RefreshKeepingFiles == <<"authed", "fetch", "public", "reset">>

Refresh == <<"authed", "fetch", "public", "reset", "clean">>

Plan(w) == IF w.dir = "git" THEN Refresh ELSE <<"clone", "public">>

Done(command, w) ==
  CASE command = "clone"  -> [w EXCEPT !.dir = "git", !.origin = "authed", !.tree = "base",
                                       !.leftover = FALSE, !.age = 0]
    [] command = "authed" -> [w EXCEPT !.origin = "authed"]
    [] command = "fetch"  -> w
    [] command = "public" -> [w EXCEPT !.origin = "public"]
    [] command = "reset"  -> [w EXCEPT !.tree = IF @ = "base" THEN "base" ELSE "reset"]
    [] command = "clean"  -> [w EXCEPT !.tree = IF @ = "reset" THEN "base" ELSE @]

\* (reset --hard moves the branch that is checked out to origin/<base>, and checks
\* out no other; clean -fdx leaves untracked git repositories.)

\* git clone takes back what it created, unless it is killed.
Undone(command, w) ==
  {w} \cup (IF command = "clone"
              THEN {[w EXCEPT !.dir = "git", !.origin = o, !.leftover = TRUE, !.age = 0] :
                      o \in {"none", "authed"}}
              ELSE {})

Applicable(command, w) == command \in {"authed", "public"} => w.origin # "none"

\* An exception out of prepare: a dispatch counts it as a failure that is not
\* retried (and retries it), recover lets it end the daemon.
Abort(isRecovery) ==
  /\ pc' = IF isRecovery THEN "down" ELSE "idle"
  /\ attempts' = IF isRecovery THEN 0 ELSE attempts + 1
  /\ Idle

\* prepare: an existing directory is reused, a new one is made.  One with files
\* but no checkout is refused, as what an operator has left there.
Prepare(a, isRecovery) ==
  /\ \/ /\ workspace.dir = "files"
        /\ Abort(isRecovery)
        /\ UNCHANGED workspace
     \/ /\ workspace.dir # "files"
        /\ pc' = "git"
        /\ attempt' = a /\ recovering' = isRecovery /\ raised' = FALSE
        /\ reused' = (workspace.dir # "none")
        /\ workspace' = IF reused' THEN workspace ELSE [NoWorkspace EXCEPT !.dir = "empty"]
        /\ todo' = Plan(workspace')
        /\ UNCHANGED attempts
  /\ UNCHANGED <<record, store, outcome, env>>

GitSucceeds ==
  /\ pc = "git" /\ Applicable(Head(todo), workspace)
  /\ workspace' = Done(Head(todo), workspace)
  /\ \/ raised /\ Abort(recovering)
     \/ /\ ~raised
        /\ todo' = Tail(todo)
        /\ pc' = IF todo' = <<>> THEN "hooks" ELSE "git"
        /\ UNCHANGED <<attempts, attempt, recovering, reused, raised>>
  /\ UNCHANGED <<record, store, outcome, env>>

\* Mutant of AfterFailure: the remote is not restored, and nothing is raised.
AfterFailureGoingOn(command) == IF command = "fetch" THEN <<"reset", "clean">> ELSE <<>>

\* What is left to do when the command fails: the finally block of a fetch.
AfterFailure(command) == IF command = "fetch" THEN <<"public">> ELSE <<>>

GitFails ==
  /\ pc = "git"
  /\ workspace' \in Undone(Head(todo), workspace)
  /\ \/ AfterFailure(Head(todo)) = <<>> /\ Abort(recovering)
     \/ /\ AfterFailure(Head(todo)) # <<>>
        /\ todo' = AfterFailure(Head(todo))
        /\ raised' = (todo' = <<"public">>)
        /\ UNCHANGED <<pc, attempts, attempt, recovering, reused>>
  /\ UNCHANGED <<record, store, outcome, env>>

----------------------------------------------------------------------------
(* A run in the directory, and what it writes.                             *)

\* The store after a run has written the files: an existing file is overwritten
\* in place, which leaves the modification time of its directory alone.
Written(names, isNew) ==
  [store EXCEPT ![attempt] =
     [names |-> @.names \cup names, age |-> IF names \subseteq @.names THEN @.age ELSE 0,
      written |-> 0, again |-> @.again \/ (isNew /\ @.names # {})]]

\* Mutant of RunsAfterCreate: the hook runs before every session.
RunsAfterCreateAlways == ~recovering

\* recover does not run after_create, whatever prepare says.
RunsAfterCreate == ~recovering /\ ~reused

\* The hooks run (a failed one is not noticed), the session starts, and the
\* agent changes the tree, and may leave another branch or repositories of its own.
StartSession ==
  /\ pc = "hooks"
  /\ pc' = "session"
  /\ workspace' \in {[workspace EXCEPT !.tree = "other", !.leftover = TRUE, !.age = a,
                                       !.hooked = @ + (IF RunsAfterCreate THEN 1 ELSE 0)] :
                       a \in {0, workspace.age}}
  /\ store' = Written({"request.json", "session.json"}, TRUE)
  /\ record' = [attempt |-> attempt, over |-> FALSE]
  /\ UNCHANGED <<attempts, run, outcome, env>>

\* start_session or restore fails: recover marks the issue blocked.
StartFails ==
  /\ pc = "hooks"
  /\ pc' = "idle" /\ attempts' = IF recovering THEN attempts ELSE attempts + 1
  /\ workspace' = [workspace EXCEPT !.hooked = @ + (IF RunsAfterCreate THEN 1 ELSE 0)]
  /\ store' = IF recovering THEN store ELSE Written({"request.json"}, TRUE)
  /\ ready' = (ready /\ ~recovering)
  /\ record' = IF recovering THEN [record EXCEPT !.over = TRUE] ELSE record
  /\ Idle
  /\ UNCHANGED <<outcome, pr, crashes, requeues>>

\* rmtree: all of it, nothing of it, or a part, of the checkout or around it.
Delete(w) ==
  IF DryRun \/ w.dir = "none" THEN {w}
  ELSE {NoWorkspace, w, [w EXCEPT !.dir = "files", !.origin = "none", !.tree = "other", !.age = 0],
        [w EXCEPT !.dir = "git", !.origin = "none", !.tree = "other", !.leftover = TRUE, !.age = 0]}

\* Mutant of CleansUp: whatever the detector says of the completed run.
CleansUpCompleted(o, s) == OnTerminal /\ Completed(o)

\* cleanup_for_terminal_issue, of a completed run: in the legacy workflow for the
\* two outcomes called clean, whether or not the run is blocked all the same; with
\* a role graph in a terminal state, whatever the outcome.
CleansUp(o, s) ==
  /\ OnTerminal /\ Completed(o)
  /\ IF s = "none" THEN o \in {"with_pr", "no_pr", "no_pr_blocked"} ELSE s = "terminal"

\* A retried run and one nobody could verify give the issue back; all the others
\* take it out of the queue, in which a role graph may leave it for another role.
Queued(o, s) ==
  IF o \in {"retry", "unknown"} THEN {ready} ELSE {FALSE} \cup (IF s = "none" THEN {} ELSE {ready})

RunEnds ==
  /\ pc = "session"
  /\ pc' = "idle"
  /\ \E o \in Ending, s \in RoleStates :
       /\ outcome' = [task |-> o, state |-> s]
       /\ attempts' = IF Completed(o) THEN 0 ELSE attempts + 1
       /\ ready' \in Queued(o, s)
       /\ pr' \in {pr, "open"} \ (IF o = "with_pr" THEN {"none"} ELSE {})
       /\ workspace' \in IF CleansUp(o, s) THEN Delete(workspace) ELSE {workspace}
  /\ store' = Written({"terminal.json"}, FALSE)
  /\ record' = [record EXCEPT !.over = recovering]
  /\ Idle
  /\ UNCHANGED <<crashes, requeues>>

----------------------------------------------------------------------------
(* run_once: the sweeps, then the dispatch.                                *)

BeginTick ==
  /\ pc = "idle" /\ pc' = "retention"
  /\ outcome' = NoOutcome
  /\ UNCHANGED <<attempts, run, record, workspace, store, env>>

\* Mutant of Expired: a day too early.
ExpiredEarly(d) == d.names # {} /\ d.age + 1 >= Retention

Expired(d) == d.names # {} /\ d.age >= Retention

\* A directory that cannot be deleted stays.
SweepArtifacts ==
  /\ pc = "retention" /\ pc' = "age"
  /\ \E gone \in SUBSET {a \in 1..LastAttempt : Expired(store[a]) /\ ~DryRun} :
       store' = [a \in 1..LastAttempt |-> IF a \in gone THEN NoAttemptDir ELSE store[a]]
  /\ UNCHANGED <<attempts, run, record, workspace, outcome, env>>

\* sweep_for_age; no worker is active at the beginning of a tick.
SweepForAge ==
  /\ pc = "age" /\ pc' = "closed_pr"
  /\ workspace' \in IF MaxAge # 0 /\ workspace.age >= MaxAge THEN Delete(workspace)
                                                             ELSE {workspace}
  /\ UNCHANGED <<attempts, run, record, store, outcome, env>>

\* Mutant of AllClosed: a pull request that is open counts, too.
AllClosedOrOpen == pr # "none"

AllClosed == pr = "closed"

\* The lookup of the pull requests may fail, and then the directory stays.
SweepForClosedPrs ==
  /\ pc = "closed_pr" /\ pc' = "dispatch"
  /\ workspace' \in {workspace} \cup
       (IF OnClosedPr /\ record # NoRecord /\ AllClosed THEN Delete(workspace) ELSE {})
  /\ UNCHANGED <<attempts, run, record, store, outcome, env>>

\* (Bound: attempt numbers go up to LastAttempt.)
Dispatch ==
  /\ pc = "dispatch" /\ ready /\ attempts < LastAttempt
  /\ Prepare(attempts + 1, FALSE)

NothingToDispatch ==
  /\ pc = "dispatch" /\ ~(ready /\ attempts < LastAttempt)
  /\ pc' = "idle"
  /\ UNCHANGED <<attempts, run, disk, env>>

\* The daemon dies, and a git command with it.
Crash ==
  /\ pc # "down" /\ crashes < MaxCrashes
  /\ crashes' = crashes + 1
  /\ pc' = "down" /\ attempts' = 0
  /\ workspace' \in IF pc = "git" THEN Undone(Head(todo), workspace) ELSE {workspace}
  /\ outcome' = NoOutcome
  /\ Idle
  /\ UNCHANGED <<record, store, ready, pr, requeues>>

\* recover (resume_same_session) takes up a record that is not over.
Resumable == record.attempt \in 1..(LastAttempt - 1) /\ ~record.over

Recover ==
  /\ pc = "down" /\ Resumable /\ ready
  /\ Prepare(record.attempt + 1, TRUE)

Restart ==
  /\ pc = "down" /\ ~(Resumable /\ ready)
  /\ pc' = "idle"
  /\ record' = [record EXCEPT !.over = record # NoRecord]
  /\ Idle
  /\ UNCHANGED <<attempts, workspace, store, outcome, env>>

----------------------------------------------------------------------------
(* The world.                                                              *)

\* A day passes between two ticks, during a session, or while nothing runs.
Day ==
  LET older(n, most) == IF n < most THEN n + 1 ELSE most
  IN  /\ pc \in {"down", "idle", "session"}
      /\ workspace' = IF workspace.dir = "none" THEN workspace
                        ELSE [workspace EXCEPT !.age = older(@, MaxAge)]
      /\ store' = [a \in 1..LastAttempt |->
                     IF store[a].names = {} THEN store[a]
                     ELSE [store[a] EXCEPT !.age = older(@, Retention),
                                           !.written = older(@, Retention)]]
      /\ UNCHANGED <<pc, attempts, run, record, outcome, env>>

ClosePr ==
  /\ pr = "open" /\ pr' = "closed"
  /\ UNCHANGED <<pc, attempts, run, disk, ready, crashes, requeues>>

Requeue ==
  /\ ~ready /\ requeues < MaxRequeues
  /\ ready' = TRUE /\ requeues' = requeues + 1
  /\ UNCHANGED <<pc, attempts, run, disk, pr, crashes>>

Next ==
  \/ BeginTick \/ SweepArtifacts \/ SweepForAge \/ SweepForClosedPrs
  \/ Dispatch \/ NothingToDispatch \/ GitSucceeds \/ GitFails
  \/ StartSession \/ StartFails \/ RunEnds
  \/ Crash \/ Recover \/ Restart
  \/ Day \/ ClosePr \/ Requeue

Spec == Init /\ [][Next]_vars

(***************************************************************************)
(* Properties.                                                             *)
(***************************************************************************)

\* Every run starts in a checkout with HEAD and all tracked files at the base
\* branch, no other files but those of untracked git repositories, and the token
\* out of the remote's URL, whatever earlier runs, failed commands, half-done
\* deletions and crashes have left.  The branch an earlier run has checked out
\* stays checked out (at the base branch's commit), and its untracked
\* repositories stay; a directory made for the run has neither.
StartsFromBase ==
  pc = "hooks" =>
    /\ workspace.dir = "git" /\ workspace.tree = "base" /\ workspace.origin = "public"
    /\ ~reused => ~workspace.leftover

\* A directory is given up only at the end of a completed run, by age, or with its
\* pull requests.  A run that failed or is retried keeps its own; in the legacy
\* workflow so does one that completed without evidence or with an outcome nobody
\* could verify.  (One that is blocked for the reason it declares to have no pull
\* request does not, nor any that completes in a terminal role state.)
DeletedForAReason ==
  [][workspace.dir # "none" /\ workspace'.dir = "none" =>
       \/ /\ pc = "session" /\ outcome'.task \notin {"failed", "retry"}
          /\ IF outcome'.state = "none" THEN outcome'.task \notin {"incomplete", "unknown"}
                                       ELSE outcome'.state = "terminal"
       \/ pc = "age" /\ MaxAge # 0 /\ workspace.age >= MaxAge
       \/ pc = "closed_pr" /\ pr = "closed"]_vars

\* after_create runs at most once in the life of a directory, and never in one
\* that an earlier run has worked in, even if that run was not set up completely.
AfterCreateOnce ==
  [][workspace'.hooked # workspace.hooked /\ workspace'.dir # "none" =>
       /\ ~reused
       /\ workspace.hooked = 0 /\ workspace.tree = "base"]_vars

\* The artifacts of an attempt stay for the days of the retention, unless the
\* number of the attempt was given out a second time.
EvidenceKept ==
  [][\A a \in 1..LastAttempt :
       store[a].names # {} /\ store'[a].names = {}
         => store[a].written >= Retention \/ store[a].again]_vars

\* Neither a directory nor the artifacts of an attempt are lost to those who
\* inspect a run before the configuration gives them up.
KeptForInspection == DeletedForAReason /\ EvidenceKept
=============================================================================
