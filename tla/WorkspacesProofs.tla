-------------------------- MODULE WorkspacesProofs --------------------------
(***************************************************************************)
(* Theorems about the directories of an issue, for every cleanup           *)
(* configuration, any number of attempts, crashes and days.                *)
(***************************************************************************)
EXTENDS Workspaces, TLAPS

Command == {"clone", "authed", "fetch", "public", "reset", "clean"}

\* What a run needs of the bookkeeping: a number of its own, and room for one
\* more failure.
Counted ==
  /\ pc \in {"git", "hooks", "session"} => attempts < LastAttempt /\ attempt \in 1..LastAttempt
  /\ pc = "down" => attempts = 0

\* after_create has not run in a directory that is not there, nor in one that
\* this run has made.
Unhooked ==
  \/ workspace.hooked = 0
  \/ /\ workspace.dir # "none"
     /\ pc \in {"git", "hooks"} => reused

\* How far populate is, and what it has achieved so far.
Populating ==
  pc = "git" =>
    \/ todo = <<"clone", "public">> /\ ~raised
    \/ /\ todo = <<"public">>
       /\ ~raised => workspace.dir = "git" /\ workspace.tree = "base" /\ ~workspace.leftover
    \/ /\ workspace.dir = "git" /\ ~raised /\ reused
       /\ \/ todo = <<"authed", "fetch", "public", "reset", "clean">>
          \/ todo = <<"fetch", "public", "reset", "clean">>
          \/ todo = <<"public", "reset", "clean">>
          \/ todo = <<"reset", "clean">> /\ workspace.origin = "public"
          \/ /\ todo = <<"clean">> /\ workspace.origin = "public"
             /\ workspace.tree \in {"reset", "base"}

\* The modification time of an attempt's directory is that of the last write in
\* it, unless a second run has written there; a run that goes on has the end of
\* its artifacts still to write.
AgesAgree ==
  \A a \in 1..LastAttempt : ~store[a].again =>
    /\ store[a].age = store[a].written
    /\ pc = "session" /\ a = attempt => "terminal.json" \notin store[a].names

\* The type invariant in three parts, of which most steps leave two alone.
RunType ==
  /\ pc \in {"down", "idle", "retention", "age", "closed_pr", "dispatch", "git", "hooks",
             "session"}
  /\ attempts \in 0..LastAttempt /\ attempt \in 0..LastAttempt
  /\ recovering \in BOOLEAN /\ reused \in BOOLEAN /\ raised \in BOOLEAN
  /\ todo \in Seq(Command)

Outcomes == {NoOutcome} \cup [task : Ending, state : RoleStates]

DiskType ==
  /\ record \in [attempt : 0..LastAttempt, over : BOOLEAN]
  /\ workspace \in Workspace
  /\ store \in [1..LastAttempt -> AttemptDir]
  /\ outcome \in Outcomes

EnvType ==
  /\ ready \in BOOLEAN /\ pr \in {"none", "open", "closed"}
  /\ crashes \in 0..MaxCrashes /\ requeues \in 0..MaxRequeues

TypeParts == RunType /\ DiskType /\ EnvType

Inductive ==
  /\ TypeParts
  /\ Counted
  /\ Unhooked
  /\ Populating
  /\ StartsFromBase
  /\ AgesAgree

----------------------------------------------------------------------------
(* The operators the actions are built from.                               *)

\* The lists of commands that populate goes through.
LEMMA PlanSteps ==
  /\ Head(<<"clone", "public">>) = "clone" /\ Tail(<<"clone", "public">>) = <<"public">>
  /\ Head(<<"public">>) = "public" /\ Tail(<<"public">>) = <<>>
  /\ Head(Refresh) = "authed" /\ Tail(Refresh) = <<"fetch", "public", "reset", "clean">>
  /\ Head(Tail(Refresh)) = "fetch" /\ Tail(Tail(Refresh)) = <<"public", "reset", "clean">>
  /\ Head(<<"public", "reset", "clean">>) = "public"
  /\ Tail(<<"public", "reset", "clean">>) = <<"reset", "clean">>
  /\ Head(<<"reset", "clean">>) = "reset" /\ Tail(<<"reset", "clean">>) = <<"clean">>
  /\ Head(<<"clean">>) = "clean" /\ Tail(<<"clean">>) = <<>>
  BY DEF Refresh

\* They are sequences of commands.
LEMMA PlanTypes ==
  /\ <<>> \in Seq(Command) /\ <<"clone", "public">> \in Seq(Command)
  /\ Refresh \in Seq(Command) /\ Tail(Refresh) \in Seq(Command)
  /\ <<"public">> \in Seq(Command) /\ <<"clean">> \in Seq(Command)
  /\ <<"reset", "clean">> \in Seq(Command) /\ <<"public", "reset", "clean">> \in Seq(Command)
  BY PlanSteps DEF Refresh, Command

\* A list that is not empty differs from the empty one.
LEMMA PlansAreNotEmpty ==
  /\ <<"public">> # <<>> /\ <<"clean">> # <<>> /\ <<"reset", "clean">> # <<>>
  /\ <<"public", "reset", "clean">> # <<>> /\ Tail(Refresh) # <<>> /\ Refresh # <<>>
  BY PlanSteps DEF Refresh

LEMMA Bounds ==
  /\ MaxAge \in Nat /\ MaxCrashes \in Nat /\ MaxRequeues \in Nat
  /\ Retention \in Nat \ {0} /\ LastAttempt \in Nat \ {0}
  BY WorkspacesAssumption

\* A deletion leaves a directory, and hooked as it was, or nothing at all.
LEMMA DeleteEffect ==
  ASSUME NEW w \in Workspace, NEW v \in Delete(w)
  PROVE  /\ v \in Workspace
         /\ v = w \/ v.hooked = 0 \/ (v.hooked = w.hooked /\ v.dir # "none")
<1> DEFINE files == [w EXCEPT !.dir = "files", !.origin = "none", !.tree = "other", !.age = 0]
           git   == [w EXCEPT !.dir = "git", !.origin = "none", !.tree = "other", !.leftover = TRUE,
                            !.age = 0]
<1>0. PICK zero \in 0..MaxAge : zero = 0
  BY Bounds
<1>1. NoWorkspace \in Workspace /\ NoWorkspace.hooked = 0
  BY Bounds DEF NoWorkspace, Workspace
<1>2. files \in Workspace /\ files.hooked = w.hooked /\ files.dir = "files"
  <2>1. [w EXCEPT !.dir = "files", !.origin = "none", !.tree = "other", !.age = zero] \in Workspace
    BY DEF Workspace
  <2> QED
    BY <1>0, <2>1 DEF Workspace
<1>3. git \in Workspace /\ git.hooked = w.hooked /\ git.dir = "git"
  <2>1. [w EXCEPT !.dir = "git", !.origin = "none", !.tree = "other", !.leftover = TRUE,
                !.age = zero] \in Workspace
    BY DEF Workspace
  <2> QED
    BY <1>0, <2>1 DEF Workspace
<1>4. v \in {NoWorkspace, w, files, git}
  BY DEF Delete
<1> HIDE DEF files, git
<1> QED
  BY <1>1, <1>2, <1>3, <1>4

\* A command that fails leaves the directory what it was, or a broken checkout.
LEMMA UndoneEffect ==
  ASSUME NEW w \in Workspace, NEW command, NEW v \in Undone(command, w)
  PROVE  /\ v \in Workspace
         /\ v.hooked = w.hooked
         /\ v = w \/ v.dir = "git"
<1>1. CASE v = w
  BY <1>1
<1>2. CASE v # w
  <2>1. PICK o \in {"none", "authed"} : v = [w EXCEPT !.dir = "git", !.origin = o, !.leftover = TRUE, !.age = 0]
    BY <1>2 DEF Undone
  <2>0. PICK zero \in 0..MaxAge : zero = 0
    BY Bounds
  <2>2. [w EXCEPT !.dir = "git", !.origin = o, !.leftover = TRUE, !.age = zero] \in Workspace
    BY DEF Workspace
  <2> QED
    BY <2>0, <2>1, <2>2 DEF Workspace
<1> QED
  BY <1>1, <1>2

\* What each command achieves.
LEMMA DoneEffect ==
  ASSUME NEW w \in Workspace, NEW command \in Command
  PROVE  /\ Done(command, w) \in Workspace
         /\ Done(command, w).hooked = w.hooked
         /\ Done(command, w).dir = IF command = "clone" THEN "git" ELSE w.dir
         /\ command = "clone" => Done(command, w).tree = "base" /\ ~Done(command, w).leftover
         /\ command = "public" => /\ Done(command, w).origin = "public"
                                  /\ Done(command, w).tree = w.tree
                                  /\ Done(command, w).leftover = w.leftover
         /\ command = "reset" => /\ Done(command, w).origin = w.origin
                                 /\ Done(command, w).tree \in {"reset", "base"}
         /\ command = "clean" => /\ Done(command, w).origin = w.origin
                                 /\ w.tree \in {"reset", "base"}
                                      => Done(command, w).tree = "base"
<1>1. CASE command = "clone"
  <2>1. Done(command, w) = [w EXCEPT !.dir = "git", !.origin = "authed", !.tree = "base",
                                      !.leftover = FALSE, !.age = 0]
    BY <1>1 DEF Done
  <2>2. PICK zero \in 0..MaxAge : zero = 0
    BY Bounds
  <2>3. [w EXCEPT !.dir = "git", !.origin = "authed", !.tree = "base", !.leftover = FALSE,
                !.age = zero] \in Workspace
    BY DEF Workspace
  <2> QED
    BY <1>1, <2>1, <2>2, <2>3 DEF Workspace
<1>2. CASE command = "authed"
  BY <1>2, Bounds DEF Done, Workspace
<1>3. CASE command = "fetch"
  BY <1>3, Bounds DEF Done, Workspace
<1>4. CASE command = "public"
  BY <1>4, Bounds DEF Done, Workspace
<1>5. CASE command = "reset"
  BY <1>5, Bounds DEF Done, Workspace
<1>6. CASE command = "clean"
  BY <1>6, Bounds DEF Done, Workspace
<1> QED
  BY <1>1, <1>2, <1>3, <1>4, <1>5, <1>6 DEF Command

\* A run writes to the directory of its own number.
LEMMA WrittenEffect ==
  ASSUME store \in [1..LastAttempt -> AttemptDir], attempt \in 1..LastAttempt,
         NEW names \in SUBSET {"request.json", "session.json", "terminal.json"},
         NEW isNew \in BOOLEAN
  PROVE  /\ Written(names, isNew) \in [1..LastAttempt -> AttemptDir]
         /\ \A a \in 1..LastAttempt : a # attempt => Written(names, isNew)[a] = store[a]
         /\ Written(names, isNew)[attempt].names = store[attempt].names \cup names
         /\ Written(names, isNew)[attempt].written = 0
         /\ Written(names, isNew)[attempt].age =
              IF names \subseteq store[attempt].names THEN store[attempt].age ELSE 0
         /\ Written(names, isNew)[attempt].again =
              (store[attempt].again \/ (isNew /\ store[attempt].names # {}))
<1> DEFINE d == store[attempt]
           n == [names |-> d.names \cup names, age |-> IF names \subseteq d.names THEN d.age ELSE 0,
                 written |-> 0, again |-> d.again \/ (isNew /\ d.names # {})]
<1>1. d \in AttemptDir
  OBVIOUS
<1>2. n.again \in BOOLEAN /\ n.age \in 0..Retention /\ n.written \in 0..Retention
  BY <1>1, Bounds DEF AttemptDir
<1>3. n.names \in SUBSET {"request.json", "session.json", "terminal.json"}
  BY <1>1 DEF AttemptDir
<1>4. n \in AttemptDir
  BY <1>2, <1>3 DEF AttemptDir
<1>5. Written(names, isNew) = [store EXCEPT ![attempt] = n]
  BY DEF Written
<1> HIDE DEF n
<1>6. /\ Written(names, isNew) \in [1..LastAttempt -> AttemptDir]
      /\ \A a \in 1..LastAttempt : a # attempt => Written(names, isNew)[a] = store[a]
      /\ Written(names, isNew)[attempt] = n
  BY <1>4, <1>5
<1> QED
  BY <1>6 DEF n

----------------------------------------------------------------------------
(* The invariant and the steps.                                            *)

\* The parts are the whole.
LEMMA PartsAreType == TypeParts => WorkspaceTypeOK
  BY DEF TypeParts, RunType, DiskType, EnvType, WorkspaceTypeOK, Command, Outcomes

LEMMA InitInductive == Init => Inductive
<1> SUFFICES ASSUME Init PROVE Inductive
  OBVIOUS
<1>1. DiskType
  <2>1. NoWorkspace \in Workspace /\ NoAttemptDir \in AttemptDir
    BY Bounds DEF NoWorkspace, Workspace, NoAttemptDir, AttemptDir
  <2>2. NoRecord \in [attempt : 0..LastAttempt, over : BOOLEAN]
    BY Bounds DEF NoRecord
  <2> QED
    BY <2>1, <2>2 DEF Init, DiskType, Outcomes
<1>2. RunType /\ EnvType
  <2>1. todo \in Seq(Command)
    BY PlanTypes DEF Init
  <2>2. attempts \in 0..LastAttempt /\ attempt \in 0..LastAttempt
    BY Bounds DEF Init
  <2>3. crashes \in 0..MaxCrashes /\ requeues \in 0..MaxRequeues
    BY Bounds DEF Init
  <2> QED
    BY <2>1, <2>2, <2>3 DEF Init, RunType, EnvType
<1>3. AgesAgree
  BY DEF Init, AgesAgree, NoAttemptDir
<1> QED
  BY <1>1, <1>2, <1>3
     DEF Init, Inductive, TypeParts, Counted, Unhooked, Populating, StartsFromBase, NoWorkspace

\* A step that deletes artifacts or the directory between two phases of a tick.
LEMMA SweepStep ==
  ASSUME Inductive, BeginTick \/ SweepArtifacts \/ SweepForAge \/ SweepForClosedPrs \/ NothingToDispatch
  PROVE  Inductive'
<1> USE DEF Inductive, TypeParts
<1>1. /\ pc \notin {"git", "hooks", "session", "down"}
      /\ pc' \in {"idle", "retention", "age", "closed_pr", "dispatch"}
      /\ outcome' \in {outcome, NoOutcome}
      /\ UNCHANGED <<attempts, run, record, env>>
  BY DEF BeginTick, SweepArtifacts, SweepForAge, SweepForClosedPrs, NothingToDispatch, disk
<1>2. workspace' = workspace \/ workspace' \in Delete(workspace)
  BY DEF BeginTick, SweepArtifacts, SweepForAge, SweepForClosedPrs, NothingToDispatch, disk
<1>3. workspace' \in Workspace /\ Unhooked'
  BY <1>1, <1>2, DeleteEffect DEF DiskType, Unhooked
<1>4. /\ store' \in [1..LastAttempt -> AttemptDir]
      /\ \A a \in 1..LastAttempt : store'[a] = store[a] \/ store'[a] = NoAttemptDir
  <2>1. NoAttemptDir \in AttemptDir
    BY Bounds DEF NoAttemptDir, AttemptDir
  <2> QED
    BY <2>1 DEF BeginTick, SweepArtifacts, SweepForAge, SweepForClosedPrs, NothingToDispatch, disk,
       DiskType
<1>5. AgesAgree'
  BY <1>1, <1>4 DEF AgesAgree, NoAttemptDir
<1>6. TypeParts'
  BY <1>1, <1>3, <1>4 DEF RunType, DiskType, EnvType, Outcomes, run, env
<1> QED
  BY <1>1, <1>3, <1>5, <1>6 DEF Counted, Populating, StartsFromBase

\* An exception out of prepare leaves the daemon idle, or dead, and the disk alone.
LEMMA AbortStep ==
  ASSUME Inductive, NEW r \in BOOLEAN, Abort(r), attempts < LastAttempt
  PROVE  /\ RunType' /\ Counted'
         /\ pc' \in {"idle", "down"}
<1>1. todo' \in Seq(Command)
  BY PlanTypes DEF Abort, Idle
<1>2. /\ pc' = IF r THEN "down" ELSE "idle"
      /\ attempts' = IF r THEN 0 ELSE attempts + 1
      /\ attempt' = 0 /\ recovering' = FALSE /\ reused' = FALSE /\ raised' = FALSE
  BY DEF Abort, Idle
<1>3. attempts' \in 0..LastAttempt /\ attempt' \in 0..LastAttempt
  BY <1>2, Bounds DEF Inductive, TypeParts, RunType
<1> QED
  BY <1>1, <1>2, <1>3 DEF RunType, Counted

\* A run is prepared by a dispatch or by recover.
LEMMA PrepareStep ==
  ASSUME Inductive, NEW a \in 1..LastAttempt, NEW r \in BOOLEAN,
         attempts < LastAttempt, pc \in {"dispatch", "down"}, Prepare(a, r)
  PROVE  Inductive'
<1> USE DEF Inductive, TypeParts
<1>1. UNCHANGED <<record, store, outcome, env>> /\ EnvType'
  BY DEF Prepare, EnvType, env
<1>2. CASE workspace.dir = "files"
  <2>1. Abort(r) /\ UNCHANGED workspace
    BY <1>2 DEF Prepare
  <2>2. RunType' /\ Counted' /\ pc' \in {"idle", "down"}
    BY <2>1, AbortStep
  <2> QED
    BY <1>1, <2>1, <2>2 DEF DiskType, Unhooked, Populating, StartsFromBase, AgesAgree
<1>3. CASE workspace.dir # "files"
  <2>1. /\ pc' = "git" /\ attempt' = a /\ recovering' = r /\ raised' = FALSE
        /\ reused' = (workspace.dir # "none")
        /\ workspace' = IF reused' THEN workspace ELSE [NoWorkspace EXCEPT !.dir = "empty"]
        /\ todo' = Plan(workspace')
        /\ UNCHANGED attempts
    BY <1>3 DEF Prepare
  <2>2. [NoWorkspace EXCEPT !.dir = "empty"] \in Workspace
    <3>1. NoWorkspace \in Workspace
      BY Bounds DEF NoWorkspace, Workspace
    <3> QED
      BY <3>1 DEF Workspace
  <2>3. /\ workspace' \in Workspace /\ workspace'.dir # "none"
        /\ ~reused' => workspace'.hooked = 0
    BY <2>1, <2>2 DEF NoWorkspace, DiskType
  <2>4. todo' = <<"clone", "public">> \/ (workspace'.dir = "git" /\ reused' /\ todo' = Refresh)
    BY <2>1 DEF Plan, NoWorkspace
  <2>5. Populating'
    BY <2>1, <2>4 DEF Populating, Refresh
  <2>6. RunType'
    <3>1. todo' \in Seq(Command)
      BY <2>4, PlanTypes
    <3>2. attempts' \in 0..LastAttempt /\ attempt' \in 0..LastAttempt
      BY <2>1, Bounds DEF RunType
    <3> QED
      BY <2>1, <3>1, <3>2 DEF RunType
  <2> QED
    BY <1>1, <2>1, <2>3, <2>5, <2>6 DEF DiskType, Counted, Unhooked, StartsFromBase, AgesAgree
<1> QED
  BY <1>2, <1>3

\* A run that is given up keeps the rest of the invariant, whatever its git
\* command has made of the directory.
LEMMA GivenUp ==
  ASSUME Inductive, RunType', EnvType', Counted', workspace' \in Workspace, Unhooked',
         pc' \notin {"git", "hooks", "session"}, UNCHANGED <<record, store>>,
         outcome' \in {outcome, NoOutcome}
  PROVE  Inductive'
  BY DEF Outcomes, Inductive, TypeParts, DiskType, Populating, StartsFromBase, AgesAgree

\* The command at the head of the list is one of those populate runs.
LEMMA NextCommand ==
  ASSUME Populating, pc = "git" PROVE Head(todo) \in Command
  BY PlanSteps DEF Populating, Command, Refresh

LEMMA GitSucceedsStep == ASSUME Inductive, GitSucceeds PROVE Inductive'
<1> USE DEF Inductive, TypeParts
<1> DEFINE w == Done(Head(todo), workspace)
<1>1. pc = "git" /\ workspace' = w /\ UNCHANGED <<record, store, outcome, env>>
  BY DEF GitSucceeds
<1>2. workspace \in Workspace /\ Head(todo) \in Command
  BY <1>1, NextCommand DEF DiskType
<1>3. /\ w \in Workspace /\ w.hooked = workspace.hooked
      /\ w.dir = IF Head(todo) = "clone" THEN "git" ELSE workspace.dir
      /\ Head(todo) = "clone" => w.tree = "base" /\ ~w.leftover
      /\ Head(todo) = "public" => /\ w.origin = "public" /\ w.tree = workspace.tree
                                  /\ w.leftover = workspace.leftover
      /\ Head(todo) = "reset" => w.origin = workspace.origin /\ w.tree \in {"reset", "base"}
      /\ Head(todo) = "clean" => /\ w.origin = workspace.origin
                                 /\ workspace.tree \in {"reset", "base"} => w.tree = "base"
  BY <1>2, DoneEffect
<1> HIDE DEF w
<1>4. EnvType' /\ DiskType'
  BY <1>1, <1>3 DEF EnvType, DiskType, env
<1>5. CASE raised
  <2>1. Abort(recovering)
    BY <1>5 DEF GitSucceeds
  <2>2. RunType' /\ Counted' /\ pc' \in {"idle", "down"}
    BY <2>1, <1>1, AbortStep DEF RunType, Counted
  <2>3. Unhooked'
    BY <1>1, <1>3, <2>2 DEF Unhooked
  <2> QED
    BY <1>1, <1>3, <1>4, <2>2, <2>3, GivenUp
<1>6. CASE ~raised
  <2>1. /\ todo' = Tail(todo)
        /\ pc' = IF todo' = <<>> THEN "hooks" ELSE "git"
        /\ UNCHANGED <<attempts, attempt, recovering, reused, raised>>
    BY <1>6 DEF GitSucceeds
  <2>2. todo' \in Seq(Command) /\ Populating' /\ StartsFromBase'
    <3>1. CASE todo = <<"clone", "public">>
      BY <1>1, <1>3, <2>1, <3>1, PlanSteps, PlanTypes, PlansAreNotEmpty DEF Populating, StartsFromBase
    <3>2. CASE todo = <<"public">>
      BY <1>1, <1>3, <1>6, <2>1, <3>2, PlanSteps, PlanTypes DEF Populating, StartsFromBase
    <3>3. CASE todo = Refresh /\ workspace.dir = "git" /\ reused
      BY <1>1, <1>3, <1>6, <2>1, <3>3, PlanSteps, PlanTypes, PlansAreNotEmpty DEF Populating, StartsFromBase
    <3>4. CASE todo = Tail(Refresh) /\ workspace.dir = "git" /\ reused
      BY <1>1, <1>3, <1>6, <2>1, <3>4, PlanSteps, PlanTypes, PlansAreNotEmpty DEF Populating, StartsFromBase
    <3>5. CASE todo = <<"public", "reset", "clean">> /\ workspace.dir = "git" /\ reused
      BY <1>1, <1>3, <1>6, <2>1, <3>5, PlanSteps, PlanTypes, PlansAreNotEmpty DEF Populating, StartsFromBase
    <3>6. CASE /\ todo = <<"reset", "clean">> /\ workspace.dir = "git" /\ workspace.origin = "public"
               /\ reused
      BY <1>1, <1>3, <1>6, <2>1, <3>6, PlanSteps, PlanTypes, PlansAreNotEmpty DEF Populating, StartsFromBase
    <3>7. CASE /\ todo = <<"clean">> /\ workspace.dir = "git" /\ workspace.origin = "public"
               /\ workspace.tree \in {"reset", "base"} /\ reused
      BY <1>1, <1>3, <2>1, <3>7, PlanSteps, PlanTypes DEF Populating, StartsFromBase
    <3> QED
      BY <1>1, <3>1, <3>2, <3>3, <3>4, <3>5, <3>6, <3>7, PlanSteps DEF Populating, Refresh
  <2>3. RunType' /\ Counted'
    BY <1>1, <2>1, <2>2 DEF RunType, Counted
  <2>4. Unhooked' /\ AgesAgree'
    BY <1>1, <1>3, <2>1 DEF Unhooked, AgesAgree
  <2> QED
    BY <1>4, <2>2, <2>3, <2>4
<1> QED
  BY <1>5, <1>6

LEMMA GitFailsStep == ASSUME Inductive, GitFails PROVE Inductive'
<1> USE DEF Inductive, TypeParts
<1>1. /\ pc = "git" /\ workspace' \in Undone(Head(todo), workspace)
      /\ UNCHANGED <<record, store, outcome, env>>
  BY DEF GitFails
<1>2. /\ workspace' \in Workspace /\ workspace'.hooked = workspace.hooked
      /\ workspace' = workspace \/ workspace'.dir = "git"
  BY <1>1, UndoneEffect DEF DiskType
<1>3. EnvType'
  BY <1>1 DEF EnvType, env
<1>4. CASE AfterFailure(Head(todo)) = <<>>
  <2>1. Abort(recovering)
    BY <1>4 DEF GitFails
  <2>2. RunType' /\ Counted' /\ pc' \in {"idle", "down"}
    BY <2>1, <1>1, AbortStep DEF RunType, Counted
  <2>3. Unhooked'
    BY <1>1, <1>2, <2>2 DEF Unhooked
  <2> QED
    BY <1>1, <1>2, <1>3, <2>2, <2>3, GivenUp
<1>5. CASE AfterFailure(Head(todo)) # <<>>
  <2>1. /\ todo' = <<"public">>
        /\ raised' = (todo' = <<"public">>)
        /\ UNCHANGED <<pc, attempts, attempt, recovering, reused>>
    BY <1>5 DEF GitFails, AfterFailure
  <2>2. raised' = TRUE /\ todo' \in Seq(Command)
    BY <2>1, PlanTypes
  <2>3. RunType' /\ Counted'
    BY <2>1, <2>2 DEF RunType, Counted
  <2>4. Unhooked' /\ StartsFromBase' /\ AgesAgree' /\ DiskType'
    BY <1>1, <1>2, <2>1 DEF Unhooked, StartsFromBase, AgesAgree, DiskType
  <2>5. Populating'
    BY <2>1, <2>2 DEF Populating
  <2> QED
    BY <1>3, <2>3, <2>4, <2>5
<1> QED
  BY <1>4, <1>5

\* What after_create makes of a directory it may run in.
LEMMA HookedOnce ==
  ASSUME Inductive, pc = "hooks"
  PROVE  workspace.hooked + (IF RunsAfterCreate THEN 1 ELSE 0) \in 0..1
  BY DEF Inductive, TypeParts, DiskType, Unhooked, RunsAfterCreate, Workspace

LEMMA StartSessionStep == ASSUME Inductive, StartSession PROVE Inductive'
<1> USE DEF Inductive, TypeParts
<1>1. /\ pc = "hooks" /\ pc' = "session"
      /\ store' = Written({"request.json", "session.json"}, TRUE)
      /\ record' = [attempt |-> attempt, over |-> FALSE]
      /\ UNCHANGED <<attempts, run, outcome, env>>
  BY DEF StartSession
<1>2. attempt \in 1..LastAttempt
  BY <1>1 DEF Counted
<1>3. workspace' \in Workspace /\ workspace'.dir = "git"
  <2>1. PICK a \in {0, workspace.age} :
          workspace' = [workspace EXCEPT !.tree = "other", !.leftover = TRUE, !.age = a,
                                         !.hooked = @ + (IF RunsAfterCreate THEN 1 ELSE 0)]
    BY DEF StartSession
  <2>2. workspace \in Workspace /\ workspace.dir = "git"
    BY <1>1 DEF DiskType, StartsFromBase
  <2>3. PICK h \in 0..1 : h = workspace.hooked + (IF RunsAfterCreate THEN 1 ELSE 0)
    BY <1>1, HookedOnce
  <2>4. PICK b \in 0..MaxAge : b = a
    BY <2>2, Bounds DEF Workspace
  <2>5. workspace' = [workspace EXCEPT !.tree = "other", !.leftover = TRUE, !.age = b, !.hooked = h]
    BY <2>1, <2>3, <2>4
  <2> QED
    BY <2>2, <2>5 DEF Workspace
<1>4. /\ store' \in [1..LastAttempt -> AttemptDir]
      /\ \A a \in 1..LastAttempt : a # attempt => store'[a] = store[a]
      /\ store'[attempt].names = store[attempt].names \cup {"request.json", "session.json"}
      /\ store'[attempt].written = 0
      /\ store'[attempt].age = IF {"request.json", "session.json"} \subseteq store[attempt].names
                                 THEN store[attempt].age ELSE 0
      /\ store'[attempt].again = (store[attempt].again \/ store[attempt].names # {})
  <2> DEFINE begun == {"request.json", "session.json"}
  <2>1. begun \in SUBSET {"request.json", "session.json", "terminal.json"}
    OBVIOUS
  <2>2. store' = Written(begun, TRUE)
    BY <1>1
  <2> HIDE DEF begun
  <2>3. /\ Written(begun, TRUE) \in [1..LastAttempt -> AttemptDir]
        /\ \A a \in 1..LastAttempt : a # attempt => Written(begun, TRUE)[a] = store[a]
        /\ Written(begun, TRUE)[attempt].names = store[attempt].names \cup begun
        /\ Written(begun, TRUE)[attempt].written = 0
        /\ Written(begun, TRUE)[attempt].age = IF begun \subseteq store[attempt].names
                                                 THEN store[attempt].age ELSE 0
        /\ Written(begun, TRUE)[attempt].again =
             (store[attempt].again \/ store[attempt].names # {})
    BY <1>2, <2>1, WrittenEffect DEF DiskType
  <2> QED
    BY <2>2, <2>3 DEF begun
<1>5. AgesAgree'
  <2>1. attempt' = attempt
    BY <1>1 DEF run
  <2>2. ASSUME ~store'[attempt].again
        PROVE  store'[attempt].age = 0 /\ "terminal.json" \notin store'[attempt].names
    <3>1. store[attempt].names = {}
      BY <1>4, <2>2
    <3> QED
      BY <1>4, <3>1
  <2> QED
    BY <1>1, <1>4, <2>1, <2>2 DEF AgesAgree
<1>6. RunType' /\ EnvType' /\ Counted'
  BY <1>1, Bounds DEF RunType, EnvType, Counted, run, env
<1>7. record' \in [attempt : 0..LastAttempt, over : BOOLEAN]
  BY <1>1, <1>2
<1> QED
  BY <1>1, <1>3, <1>4, <1>5, <1>6, <1>7 DEF DiskType, Unhooked, Populating, StartsFromBase

LEMMA StartFailsStep == ASSUME Inductive, StartFails PROVE Inductive'
<1> USE DEF Inductive, TypeParts
<1>1. /\ pc = "hooks" /\ pc' = "idle"
      /\ attempts' = IF recovering THEN attempts ELSE attempts + 1
      /\ workspace' = [workspace EXCEPT !.hooked = @ + (IF RunsAfterCreate THEN 1 ELSE 0)]
      /\ store' = IF recovering THEN store ELSE Written({"request.json"}, TRUE)
      /\ ready' = (ready /\ ~recovering)
      /\ record' = IF recovering THEN [record EXCEPT !.over = TRUE] ELSE record
      /\ UNCHANGED <<outcome, pr, crashes, requeues>>
  BY DEF StartFails
<1>2. attempt \in 1..LastAttempt /\ attempts < LastAttempt
  BY <1>1 DEF Counted
<1>3. workspace' \in Workspace /\ workspace'.dir = "git"
  <2>1. workspace \in Workspace /\ workspace.dir = "git"
    BY <1>1 DEF DiskType, StartsFromBase
  <2>2. PICK h \in 0..1 : h = workspace.hooked + (IF RunsAfterCreate THEN 1 ELSE 0)
    BY <1>1, HookedOnce
  <2>3. workspace' = [workspace EXCEPT !.hooked = h]
    BY <1>1, <2>2
  <2> QED
    BY <2>1, <2>3 DEF Workspace
<1>4. /\ Written({"request.json"}, TRUE) \in [1..LastAttempt -> AttemptDir]
      /\ \A a \in 1..LastAttempt : a # attempt => Written({"request.json"}, TRUE)[a] = store[a]
      /\ Written({"request.json"}, TRUE)[attempt].names = store[attempt].names \cup {"request.json"}
      /\ Written({"request.json"}, TRUE)[attempt].written = 0
      /\ Written({"request.json"}, TRUE)[attempt].age =
           IF {"request.json"} \subseteq store[attempt].names THEN store[attempt].age ELSE 0
      /\ Written({"request.json"}, TRUE)[attempt].again =
           (store[attempt].again \/ store[attempt].names # {})
  BY <1>2, WrittenEffect DEF DiskType
<1>5. store' \in [1..LastAttempt -> AttemptDir] /\ AgesAgree'
  BY <1>1, <1>4 DEF DiskType, AgesAgree
<1>6. RunType' /\ EnvType' /\ Counted'
  <2>1. todo' \in Seq(Command)
    BY PlanTypes DEF StartFails, Idle
  <2>2. attempt' = 0 /\ recovering' = FALSE /\ reused' = FALSE /\ raised' = FALSE
    BY DEF StartFails, Idle
  <2>3. attempts' \in 0..LastAttempt /\ attempt' \in 0..LastAttempt
    BY <1>1, <1>2, <2>2, Bounds DEF RunType
  <2> QED
    BY <1>1, <2>1, <2>2, <2>3 DEF RunType, EnvType, Counted
<1>7. record' \in [attempt : 0..LastAttempt, over : BOOLEAN]
  BY <1>1 DEF DiskType
<1> QED
  BY <1>1, <1>3, <1>5, <1>6, <1>7 DEF DiskType, Unhooked, Populating, StartsFromBase

LEMMA RunEndsStep == ASSUME Inductive, RunEnds PROVE Inductive'
<1> USE DEF Inductive, TypeParts
<1>1. /\ pc = "session" /\ pc' = "idle"
      /\ outcome' \in Outcomes
      /\ attempts' \in {0, attempts + 1}
      /\ ready' \in {FALSE, ready}
      /\ pr' \in {pr, "open"}
      /\ store' = Written({"terminal.json"}, FALSE)
      /\ workspace' \in Delete(workspace) \cup {workspace}
      /\ record' = [record EXCEPT !.over = recovering]
      /\ UNCHANGED <<crashes, requeues>>
  <2>1. PICK o \in Ending, s \in RoleStates :
          /\ outcome' = [task |-> o, state |-> s]
          /\ attempts' = IF Completed(o) THEN 0 ELSE attempts + 1
          /\ ready' \in Queued(o, s)
          /\ pr' \in {pr, "open"} \ (IF o = "with_pr" THEN {"none"} ELSE {})
          /\ workspace' \in IF CleansUp(o, s) THEN Delete(workspace) ELSE {workspace}
    BY DEF RunEnds
  <2>2. outcome' \in Outcomes
    BY <2>1 DEF Outcomes
  <2>3. ready' \in {FALSE, ready}
    BY <2>1 DEF Queued
  <2> QED
    BY <2>1, <2>2, <2>3 DEF RunEnds
<1>2. attempt \in 1..LastAttempt /\ attempts < LastAttempt
  BY <1>1 DEF Counted
<1>3. workspace' \in Workspace /\ Unhooked'
  BY <1>1, DeleteEffect DEF DiskType, Unhooked
<1>4. /\ store' \in [1..LastAttempt -> AttemptDir]
      /\ \A a \in 1..LastAttempt : a # attempt => store'[a] = store[a]
      /\ store'[attempt].written = 0
      /\ store'[attempt].age =
           IF {"terminal.json"} \subseteq store[attempt].names THEN store[attempt].age ELSE 0
      /\ store'[attempt].again = store[attempt].again
  <2>1. store[attempt].again \in BOOLEAN
    BY <1>2 DEF DiskType, AttemptDir
  <2>2. /\ Written({"terminal.json"}, FALSE) \in [1..LastAttempt -> AttemptDir]
        /\ \A a \in 1..LastAttempt :
             a # attempt => Written({"terminal.json"}, FALSE)[a] = store[a]
        /\ Written({"terminal.json"}, FALSE)[attempt].written = 0
        /\ Written({"terminal.json"}, FALSE)[attempt].age =
             IF {"terminal.json"} \subseteq store[attempt].names THEN store[attempt].age ELSE 0
        /\ Written({"terminal.json"}, FALSE)[attempt].again =
             (store[attempt].again \/ (FALSE /\ store[attempt].names # {}))
    BY <1>2, WrittenEffect DEF DiskType
  <2> QED
    BY <1>1, <2>1, <2>2
<1>5. AgesAgree'
  BY <1>1, <1>4 DEF AgesAgree
<1>6. RunType' /\ EnvType' /\ Counted'
  <2>1. todo' \in Seq(Command)
    BY PlanTypes DEF RunEnds, Idle
  <2>2. attempt' = 0 /\ recovering' = FALSE /\ reused' = FALSE /\ raised' = FALSE
    BY DEF RunEnds, Idle
  <2>3. attempts' \in 0..LastAttempt /\ attempt' \in 0..LastAttempt
    BY <1>1, <1>2, <2>2, Bounds DEF RunType
  <2> QED
    BY <1>1, <2>1, <2>2, <2>3 DEF RunType, EnvType, Counted
<1>7. record' \in [attempt : 0..LastAttempt, over : BOOLEAN]
  BY <1>1 DEF DiskType, RunType
<1> QED
  BY <1>1, <1>3, <1>4, <1>5, <1>6, <1>7 DEF DiskType, Populating, StartsFromBase

LEMMA CrashStep == ASSUME Inductive, Crash PROVE Inductive'
<1> USE DEF Inductive, TypeParts
<1>1. /\ pc' = "down" /\ attempts' = 0
      /\ workspace' \in IF pc = "git" THEN Undone(Head(todo), workspace) ELSE {workspace}
      /\ outcome' = NoOutcome
      /\ UNCHANGED <<record, store, ready, pr, requeues>>
      /\ crashes < MaxCrashes /\ crashes' = crashes + 1
  BY DEF Crash
<1>2. /\ workspace' \in Workspace /\ workspace'.hooked = workspace.hooked
      /\ workspace' = workspace \/ workspace'.dir = "git"
  BY <1>1, UndoneEffect DEF DiskType
<1>3. RunType'
  <2>1. todo' \in Seq(Command)
    BY PlanTypes DEF Crash, Idle
  <2>2. attempt' = 0 /\ recovering' = FALSE /\ reused' = FALSE /\ raised' = FALSE
    BY DEF Crash, Idle
  <2>3. attempts' \in 0..LastAttempt /\ attempt' \in 0..LastAttempt
    BY <1>1, <2>2, Bounds
  <2> QED
    BY <1>1, <2>1, <2>2, <2>3 DEF RunType
<1>4. EnvType'
  BY <1>1, Bounds DEF EnvType
<1>5. Counted' /\ Unhooked'
  BY <1>1, <1>2 DEF Counted, Unhooked
<1> QED
  BY <1>1, <1>2, <1>3, <1>4, <1>5, GivenUp

LEMMA RestartStep == ASSUME Inductive, Restart PROVE Inductive'
<1> USE DEF Inductive, TypeParts
<1>1. /\ pc = "down" /\ pc' = "idle"
      /\ record' = [record EXCEPT !.over = record # NoRecord]
      /\ UNCHANGED <<attempts, workspace, store, outcome, env>>
  BY DEF Restart
<1>2. RunType'
  <2>1. todo' \in Seq(Command)
    BY PlanTypes DEF Restart, Idle
  <2>2. attempt' = 0 /\ recovering' = FALSE /\ reused' = FALSE /\ raised' = FALSE
    BY DEF Restart, Idle
  <2>3. attempts' \in 0..LastAttempt /\ attempt' \in 0..LastAttempt
    BY <1>1, <2>2, Bounds DEF RunType
  <2> QED
    BY <1>1, <2>1, <2>2, <2>3 DEF RunType
<1>3. DiskType' /\ EnvType'
  BY <1>1 DEF DiskType, EnvType, env
<1> QED
  BY <1>1, <1>2, <1>3 DEF Counted, Unhooked, Populating, StartsFromBase, AgesAgree

\* Days pass, pull requests are closed, issues queued again.
LEMMA WorldStep == ASSUME Inductive, Day \/ ClosePr \/ Requeue PROVE Inductive'
<1> USE DEF Inductive, TypeParts
<1>1. CASE Day
  <2> DEFINE older(n, most) == IF n < most THEN n + 1 ELSE most
  <2>1. /\ pc \notin {"git", "hooks"}
        /\ UNCHANGED <<pc, attempts, run, record, outcome, env>>
        /\ workspace' = IF workspace.dir = "none" THEN workspace
                          ELSE [workspace EXCEPT !.age = older(@, MaxAge)]
        /\ store' = [a \in 1..LastAttempt |->
                       IF store[a].names = {} THEN store[a]
                       ELSE [store[a] EXCEPT !.age = older(@, Retention),
                                             !.written = older(@, Retention)]]
    BY <1>1 DEF Day
  <2>2. /\ workspace' \in Workspace /\ workspace'.hooked = workspace.hooked
        /\ workspace'.dir = workspace.dir
    <3>1. PICK n \in 0..MaxAge : n = older(workspace.age, MaxAge)
      BY Bounds DEF DiskType, Workspace
    <3>2. workspace' = workspace \/ workspace' = [workspace EXCEPT !.age = n]
      BY <2>1, <3>1
    <3> QED
      BY <3>2 DEF DiskType, Workspace
  <2>3. ASSUME NEW a \in 1..LastAttempt
        PROVE  /\ store'[a] \in AttemptDir
               /\ store'[a].names = store[a].names /\ store'[a].again = store[a].again
               /\ store[a].age = store[a].written => store'[a].age = store'[a].written
    <3>1. store[a] \in AttemptDir
      BY DEF DiskType
    <3>2. PICK n \in 0..Retention, m \in 0..Retention :
            n = older(store[a].age, Retention) /\ m = older(store[a].written, Retention)
      BY <3>1, Bounds DEF AttemptDir
    <3>3. store'[a] = store[a] \/ store'[a] = [store[a] EXCEPT !.age = n, !.written = m]
      BY <2>1, <3>2
    <3>4. CASE store'[a] = store[a]
      BY <3>1, <3>4
    <3>5. CASE store'[a] = [store[a] EXCEPT !.age = n, !.written = m]
      <4>1. store'[a] \in AttemptDir
        BY <3>1, <3>5 DEF AttemptDir
      <4>2. store'[a].age = n /\ store'[a].written = m
        BY <3>1, <3>5 DEF AttemptDir
      <4>3. store'[a].names = store[a].names /\ store'[a].again = store[a].again
        BY <3>1, <3>5 DEF AttemptDir
      <4> QED
        BY <3>2, <4>1, <4>2, <4>3
    <3> QED
      BY <3>3, <3>4, <3>5
  <2>4. store' \in [1..LastAttempt -> AttemptDir]
    BY <2>1, <2>3
  <2> HIDE DEF older
  <2>5. AgesAgree'
    BY <2>1, <2>3 DEF AgesAgree, run
  <2>6. RunType' /\ EnvType' /\ DiskType'
    BY <2>1, <2>2, <2>4 DEF RunType, DiskType, EnvType, run, env
  <2>7. Counted' /\ Unhooked'
    BY <2>1, <2>2 DEF Counted, Unhooked, run
  <2>8. Populating' /\ StartsFromBase'
    BY <2>1 DEF Populating, StartsFromBase
  <2> QED
    BY <2>5, <2>6, <2>7, <2>8
<1>2. CASE ClosePr \/ Requeue
  <2>1. EnvType'
    <3>1. CASE ClosePr
      BY <3>1 DEF ClosePr, EnvType
    <3>2. CASE Requeue
      BY <3>2, Bounds DEF Requeue, EnvType
    <3> QED
      BY <1>2, <3>1, <3>2
  <2>2. UNCHANGED <<pc, attempts, run, disk>>
    BY <1>2 DEF ClosePr, Requeue
  <2> QED
    BY <2>1, <2>2
       DEF RunType, DiskType, Counted, Unhooked, Populating, StartsFromBase, AgesAgree, run, disk
<1> QED
  BY <1>1, <1>2

LEMMA InductiveStep == Inductive /\ [Next]_vars => Inductive'
<1> SUFFICES ASSUME Inductive, [Next]_vars PROVE Inductive'
  OBVIOUS
<1>1. CASE Dispatch
  <2>1. attempts + 1 \in 1..LastAttempt
    BY <1>1, Bounds DEF Dispatch, Inductive, TypeParts, RunType
  <2> QED
    BY <1>1, <2>1, PrepareStep DEF Dispatch
<1>2. CASE Recover
  <2>1. record.attempt + 1 \in 1..LastAttempt
    BY <1>2, Bounds DEF Recover, Resumable
  <2>2. attempts < LastAttempt
    BY <1>2, Bounds DEF Recover, Inductive, Counted
  <2> QED
    BY <1>2, <2>1, <2>2, PrepareStep DEF Recover
<1>3. CASE UNCHANGED vars
  BY <1>3 DEF vars, run, disk, env, Inductive, TypeParts, RunType, DiskType, EnvType, Counted,
     Unhooked, Populating, StartsFromBase, AgesAgree
<1> QED
  BY <1>1, <1>2, <1>3, SweepStep, GitSucceedsStep, GitFailsStep, StartSessionStep, StartFailsStep,
     RunEndsStep, CrashStep, RestartStep, WorldStep DEF Next

----------------------------------------------------------------------------
(* The theorems.                                                           *)

\* In every reachable state the daemon's place, the list of git commands, the
\* directory and the two ages of an attempt stand to each other as Inductive
\* says: the invariant that the theorems below follow from.
THEOREM WorkspaceInductive == Spec => []Inductive
<1>1. Init => Inductive
  BY InitInductive
<1>2. Inductive /\ [Next]_vars => Inductive'
  BY InductiveStep
<1> QED
  BY <1>1, <1>2, PTL DEF Spec

\* Type correctness: no run has a number beyond the last, and after_create
\* runs at most once in a directory.
THEOREM WorkspaceTypeCorrect == Spec => []WorkspaceTypeOK
<1>1. Inductive => WorkspaceTypeOK
  BY PartsAreType DEF Inductive
<1> QED
  BY <1>1, WorkspaceInductive, PTL

\* Whatever failed before, a run starts with HEAD and files at the base branch, but
\* for a branch and untracked repositories that an earlier run has left, and with
\* no token in the remote's URL.
THEOREM StartsFromBaseCorrect == Spec => []StartsFromBase
<1>1. Inductive => StartsFromBase
  BY DEF Inductive
<1> QED
  BY <1>1, WorkspaceInductive, PTL

\* The steps that may leave no directory where there was one.
LEMMA OnlySweepsDelete ==
  ASSUME Inductive, [Next]_vars, workspace.dir # "none", workspace'.dir = "none"
  PROVE  RunEnds \/ SweepForAge \/ SweepForClosedPrs
<1>1. workspace \in Workspace
  BY DEF Inductive, TypeParts, DiskType
<1>2. ~GitSucceeds
  <2> SUFFICES ASSUME GitSucceeds PROVE FALSE
    OBVIOUS
  <2>1. pc = "git" /\ workspace' = Done(Head(todo), workspace)
    BY DEF GitSucceeds
  <2>2. Head(todo) \in Command
    BY <2>1, NextCommand DEF Inductive
  <2>3. workspace'.dir = IF Head(todo) = "clone" THEN "git" ELSE workspace.dir
    BY <1>1, <2>1, <2>2, DoneEffect
  <2> QED
    BY <2>3
<1>3. ~GitFails /\ ~Crash
  <2> SUFFICES ASSUME workspace' \in Undone(Head(todo), workspace) \cup {workspace} PROVE FALSE
    BY DEF GitFails, Crash
  <2>1. workspace' = workspace \/ workspace'.dir = "git"
    BY <1>1, UndoneEffect
  <2> QED
    BY <2>1
<1>4. ~StartSession /\ ~StartFails /\ ~Day
  BY <1>1 DEF StartSession, StartFails, Day, Workspace
<1>5. ~Dispatch /\ ~Recover
  <2> SUFFICES ASSUME NEW a, NEW r, Prepare(a, r) PROVE FALSE
    BY DEF Dispatch, Recover
  <2>1. workspace' = workspace
    BY DEF Prepare
  <2> QED
    BY <2>1
<1> QED
  BY <1>2, <1>3, <1>4, <1>5 DEF Next, vars, disk, BeginTick, SweepArtifacts, NothingToDispatch, Restart,
     ClosePr, Requeue

\* A directory is given up with a completed run, by age, or with its pull request:
\* no failed, retried or interrupted run takes it away, nor, in the legacy
\* workflow, one that completed without evidence.
THEOREM DeletedForAReasonCorrect == Spec => DeletedForAReason
<1> DEFINE Step == workspace.dir # "none" /\ workspace'.dir = "none" =>
                     \/ /\ pc = "session" /\ outcome'.task \notin {"failed", "retry"}
                        /\ IF outcome'.state = "none"
                             THEN outcome'.task \notin {"incomplete", "unknown"}
                             ELSE outcome'.state = "terminal"
                     \/ pc = "age" /\ MaxAge # 0 /\ workspace.age >= MaxAge
                     \/ pc = "closed_pr" /\ pr = "closed"
<1>1. Inductive /\ [Next]_vars => [Step]_vars
  <2> SUFFICES ASSUME Inductive, [Next]_vars, workspace.dir # "none", workspace'.dir = "none"
               PROVE  Step
    OBVIOUS
  <2>1. CASE RunEnds
    <3>1. PICK o \in Ending, s \in RoleStates :
            /\ outcome' = [task |-> o, state |-> s]
            /\ workspace' \in IF CleansUp(o, s) THEN Delete(workspace) ELSE {workspace}
      BY <2>1 DEF RunEnds
    <3>2. CleansUp(o, s)
      BY <3>1
    <3> QED
      BY <2>1, <3>1, <3>2 DEF RunEnds, CleansUp, Completed
  <2>2. CASE SweepForAge
    BY <2>2 DEF SweepForAge
  <2>3. CASE SweepForClosedPrs
    BY <2>3 DEF SweepForClosedPrs, AllClosed
  <2> QED
    BY <2>1, <2>2, <2>3, OnlySweepsDelete
<1> QED
  BY <1>1, WorkspaceInductive, PTL DEF Spec, DeletedForAReason

\* after_create runs in a directory that the same run has made and set up, and
\* nothing but the loss of the directory undoes that.
THEOREM AfterCreateOnceCorrect == Spec => AfterCreateOnce
<1> DEFINE Step == workspace'.hooked # workspace.hooked /\ workspace'.dir # "none" =>
                     ~reused /\ workspace.hooked = 0 /\ workspace.tree = "base"
<1>1. Inductive /\ [Next]_vars => [Step]_vars
  <2> SUFFICES ASSUME Inductive, [Next]_vars,
                      workspace'.hooked # workspace.hooked, workspace'.dir # "none"
               PROVE  ~reused /\ workspace.hooked = 0 /\ workspace.tree = "base"
    OBVIOUS
  <2>1. workspace \in Workspace
    BY DEF Inductive, TypeParts, DiskType
  <2>2. CASE StartSession \/ StartFails
    <3>1. pc = "hooks"
      BY <2>2 DEF StartSession, StartFails
    <3>2. RunsAfterCreate
      <4> SUFFICES ASSUME ~RunsAfterCreate PROVE FALSE
        OBVIOUS
      <4>1. workspace.hooked \in 0..1 /\ workspace.hooked + 0 = workspace.hooked
        BY <2>1 DEF Workspace
      <4>2. CASE StartSession
        <5>1. PICK b \in {0, workspace.age} :
                workspace' = [workspace EXCEPT !.tree = "other", !.leftover = TRUE, !.age = b,
                                               !.hooked = @ + 0]
          BY <4>2 DEF StartSession
        <5> QED
          BY <2>1, <4>1, <5>1 DEF Workspace
      <4>3. CASE StartFails
        <5>1. workspace' = [workspace EXCEPT !.hooked = @ + 0]
          BY <4>3 DEF StartFails
        <5> QED
          BY <2>1, <4>1, <5>1 DEF Workspace
      <4> QED
        BY <2>2, <4>2, <4>3
    <3> QED
      BY <3>1, <3>2 DEF RunsAfterCreate, Inductive, Unhooked, StartsFromBase
  <2>3. ~GitSucceeds
    BY <2>1, NextCommand, DoneEffect DEF GitSucceeds, Inductive
  <2>4. ~GitFails /\ ~Crash
    BY <2>1, UndoneEffect DEF GitFails, Crash
  <2>5. ~RunEnds /\ ~SweepForAge /\ ~SweepForClosedPrs
    <3> SUFFICES ASSUME workspace' \in Delete(workspace) \cup {workspace} PROVE FALSE
      BY DEF RunEnds, SweepForAge, SweepForClosedPrs
    <3>1. NoWorkspace.dir = "none"
      BY DEF NoWorkspace
    <3>2. workspace' \in {workspace, [workspace EXCEPT !.dir = "files", !.origin = "none",
                                                      !.tree = "other", !.age = 0],
                          [workspace EXCEPT !.dir = "git", !.origin = "none", !.tree = "other",
                                            !.leftover = TRUE, !.age = 0]}
      BY <3>1 DEF Delete
    <3> QED
      BY <2>1, <3>2 DEF Workspace
  <2>6. ~Dispatch /\ ~Recover
    <3> SUFFICES ASSUME NEW a, NEW r, Prepare(a, r) PROVE FALSE
      BY DEF Dispatch, Recover
    <3>1. workspace.dir = "none" => workspace.hooked = 0
      BY DEF Inductive, Unhooked
    <3>2. [NoWorkspace EXCEPT !.dir = "empty"].hooked = 0
      BY DEF NoWorkspace
    <3> QED
      BY <3>1, <3>2 DEF Prepare
  <2>7. ~Day
    BY <2>1 DEF Day, Workspace
  <2> QED
    BY <2>2, <2>3, <2>4, <2>5, <2>6, <2>7 DEF Next, vars, disk, BeginTick, SweepArtifacts,
       NothingToDispatch, Restart, ClosePr, Requeue
<1> QED
  BY <1>1, WorkspaceInductive, PTL DEF Spec, AfterCreateOnce

\* The artifacts of an attempt whose number was given out once are kept for the
\* whole retention, counted from the last write.
THEOREM EvidenceKeptCorrect == Spec => EvidenceKept
<1> DEFINE Step == \A a \in 1..LastAttempt : store[a].names # {} /\ store'[a].names = {}
                     => store[a].written >= Retention \/ store[a].again
<1>1. Inductive /\ [Next]_vars => [Step]_vars
  <2> SUFFICES ASSUME Inductive, [Next]_vars, NEW a \in 1..LastAttempt,
                      store[a].names # {}, store'[a].names = {}
               PROVE  store[a].written >= Retention \/ store[a].again
    OBVIOUS
  <2>1. store \in [1..LastAttempt -> AttemptDir]
    BY DEF Inductive, TypeParts, DiskType
  <2>2. ~StartSession /\ ~StartFails /\ ~RunEnds
    <3> SUFFICES ASSUME NEW names, NEW isNew, store' = Written(names, isNew) \/ store' = store
                 PROVE  FALSE
      BY DEF StartSession, StartFails, RunEnds
    <3>1. Written(names, isNew)[a] = store[a] \/ Written(names, isNew)[a].names = store[a].names \cup names
      BY <2>1 DEF Written
    <3> QED
      BY <3>1
  <2>3. ~Day
    BY <2>1 DEF Day, AttemptDir
  <2>4. SweepArtifacts
    BY <2>2, <2>3 DEF Next, vars, disk, BeginTick, SweepForAge, SweepForClosedPrs, Dispatch, Recover,
       Prepare, NothingToDispatch, GitSucceeds, GitFails, Crash, Restart, ClosePr, Requeue
  <2>5. Expired(store[a])
    BY <2>4 DEF SweepArtifacts
  <2> QED
    BY <2>5 DEF Expired, Inductive, AgesAgree
<1> QED
  BY <1>1, WorkspaceInductive, PTL DEF Spec, EvidenceKept

\* Neither a directory nor the artifacts of an attempt are lost before the
\* configuration gives them up: what the run checks, for every configuration.
THEOREM KeptForInspectionCorrect == Spec => KeptForInspection
  BY DeletedForAReasonCorrect, EvidenceKeptCorrect DEF KeptForInspection
=============================================================================
