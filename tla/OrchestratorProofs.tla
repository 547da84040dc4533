------------------------- MODULE OrchestratorProofs -------------------------
(***************************************************************************)
(* Invariance proofs for Orchestrator, for any finite set of issues and    *)
(* any value of the limits.                                                *)
(***************************************************************************)
EXTENDS Orchestrator, FiniteSetTheorems, TLAPS

(***************************************************************************)
(* The tracker operations.                                                 *)
(***************************************************************************)

LEMMA LabelNames ==
  /\ Blocked \in Label \ {Running} /\ Done \in Label \ {Running}
  /\ Ready \in Label \ {Running} /\ Running \in Label
  /\ Blocked # Done /\ Blocked # Ready /\ Done # Ready
BY DEF Label, Ready, Running, Blocked, Done

\* A release drops nothing but the claim label, and drops it when no call fails.
LEMMA ReleaseIssueEffect ==
  ASSUME NEW L \in SUBSET Label, NEW a \in ReleaseIssue(L)
  PROVE  /\ a.labels \in {L, L \ {Running}}
         /\ a.labels \in SUBSET Label
         /\ ~TrackerFaults => a.labels = L \ {Running}
BY DEF ReleaseIssue, Call, Ok, Raised

\* A claim adds nothing but the claim label, and has it when it answers "ok".
LEMMA ClaimIssueEffect ==
  ASSUME NEW L \in SUBSET Label, NEW a \in ClaimIssue(L)
  PROVE  /\ a.labels \in {L, L \cup {Running}}
         /\ a.labels \in SUBSET Label
         /\ ~a.raised => Running \in a.labels
         /\ ~TrackerFaults => ~a.raised
BY DEF ClaimIssue, Call, Ok, Raised, Label, Running

\* The operations that end a run never add the claim label, and drop it when
\* no call fails.
LEMMA DropEffect ==
  ASSUME NEW L \in SUBSET Label, NEW M \in DropBestEffort(L)
  PROVE  /\ M \in SUBSET L
         /\ L \ {Running, Ready} \subseteq M
         /\ ~TrackerFaults => Running \notin M
BY DEF DropBestEffort

LEMMA AddThenDropEffect ==
  ASSUME NEW L \in SUBSET Label, NEW l \in Label \ {Running},
         NEW a \in AddThenDrop(L, l)
  PROVE  /\ a.labels \in SUBSET (L \cup {l})
         /\ a.labels \in SUBSET Label
         /\ ~TrackerFaults => Running \notin a.labels
<1>1. CASE a \in Call(L, L \cup {l}) /\ a.raised
  BY <1>1 DEF Call, Ok, Raised
<1>2. CASE \E M \in DropBestEffort(L \cup {l}) : a = Ok(M)
  <2>1. PICK M \in DropBestEffort(L \cup {l}) : a = Ok(M)
    BY <1>2
  <2>2. a.labels = M
    BY <2>1 DEF Ok
  <2>3. L \cup {l} \in SUBSET Label
    OBVIOUS
  <2>. QED
    BY <2>2, <2>3, DropEffect
<1>. QED
  BY <1>1, <1>2 DEF AddThenDrop

\* Whatever ends a run leaves labels behind, no claim that was not there, and
\* no claim at all when no call fails.
LEMMA RouteEffect ==
  ASSUME TypeOK, NEW i \in Issues, NEW outcome, NEW a \in Route(i, outcome)
  PROVE  /\ a.labels \in SUBSET Label
         /\ Running \in a.labels => Running \in labels[i]
         /\ ~TrackerFaults => Running \notin a.labels
<1>0. labels[i] \in SUBSET Label
  BY DEF TypeOK
<1>1. CASE a \in MarkIssueBlocked(labels[i])
  BY <1>0, <1>1, AddThenDropEffect, LabelNames DEF MarkIssueBlocked
<1>2. CASE a \in DequeueIssue(labels[i])
  BY <1>0, <1>2, DropEffect DEF DequeueIssue, Ok
<1>3. CASE a \in MarkIssueDone(labels[i])
  BY <1>0, <1>3, AddThenDropEffect, LabelNames DEF MarkIssueDone
<1>4. CASE a \in ReleaseIssue(labels[i])
  BY <1>0, <1>4, ReleaseIssueEffect
<1>. QED
  BY <1>1, <1>2, <1>3, <1>4 DEF Route

----------------------------------------------------------------------------
(* Type correctness.                                                       *)

LEMMA WorkerFailedType ==
  ASSUME TypeOK, NEW i \in Issues, NEW r \in BOOLEAN, WorkerFailed(i, r)
  PROVE  /\ attempts' \in [Issues -> 0..AttemptCap]
         /\ next' \in [Issues -> NextAt]
BY OrchestratorAssumption DEF TypeOK, WorkerFailed, NextAt

LEMMA InitType == Init => TypeOK
<1>. SUFFICES ASSUME Init PROVE TypeOK
  OBVIOUS
<1>1. labels \in [Issues -> SUBSET Label]
  <2>1. {} \in SUBSET Label /\ {Ready} \in SUBSET Label
    BY LabelNames
  <2>. QED
    BY <2>1 DEF Init
<1>2. /\ moves \in 0..MaxOperatorMoves
      /\ turns \in [Issues -> 0..(MaxTurns - 1)]
      /\ attempts \in [Issues -> 0..AttemptCap]
  BY OrchestratorAssumption DEF Init
<1>3. workflowValid \in BOOLEAN /\ paused \in BOOLEAN
  BY Zenon DEF Init
<1>4. open \in SUBSET Issues /\ phase \in Phase /\ pending \in SUBSET Issues
  BY DEF Init, Phase
<1>5. slots \in Int /\ starting \in SUBSET Issues /\ active \in SUBSET Issues
  BY DEF Init
<1>6. /\ stage \in [Issues -> Stage]
      /\ terminal \in [Issues -> Terminal]
      /\ next \in [Issues -> NextAt]
  BY DEF Init, Stage, Terminal, NextAt
<1>7. policy \in Policy
  BY OrchestratorAssumption DEF Init
<1>. QED
  BY <1>1, <1>2, <1>3, <1>4, <1>5, <1>6, <1>7 DEF TypeOK

LEMMA RunOnceType == TypeOK /\ RunOnce => TypeOK'
<1>. SUFFICES ASSUME TypeOK, RunOnce PROVE TypeOK'
  OBVIOUS
<1>. USE DEF github, tick, workers, retry, env
<1>1. CASE BeginTick
  BY <1>1 DEF BeginTick, TypeOK, Phase
<1>2. CASE Reconcile
  BY <1>2 DEF Reconcile, TypeOK, Phase, Stage, Terminal, Label
<1>3. CASE FetchCandidates
  <2>1. Cardinality(active) \in Nat
    BY OrchestratorAssumption, FS_Subset, FS_CardinalityType DEF TypeOK
  <2>. QED
    BY <1>3, <2>1, OrchestratorAssumption DEF FetchCandidates, TypeOK, Phase
<1>4. CASE FetchFails
  BY <1>4 DEF FetchFails, TypeOK, Phase
<1>5. ASSUME NEW i \in Issues, Skip(i) PROVE TypeOK'
  BY <1>5 DEF Skip, TypeOK
<1>6. ASSUME NEW i \in Issues, Claim(i) PROVE TypeOK'
  <2>1. PICK a \in ClaimIssue(labels[i]) :
          /\ labels' = [labels EXCEPT ![i] = a.labels]
          /\ starting' = IF a.raised THEN {} ELSE {i}
    BY <1>6 DEF Claim
  <2>2. a.labels \in SUBSET Label
    BY ClaimIssueEffect DEF TypeOK
  <2>. QED
    BY <1>6, <2>1, <2>2 DEF Claim, TypeOK
<1>7. ASSUME NEW i \in Issues, Start(i) PROVE TypeOK'
  BY <1>7 DEF Start, TypeOK, Stage
<1>8. ASSUME NEW i \in Issues, NEW r \in BOOLEAN, StartFails(i, r) PROVE TypeOK'
  <2>1. PICK a \in ReleaseIssue(labels[i]) : labels' = [labels EXCEPT ![i] = a.labels]
    BY <1>8 DEF StartFails
  <2>2. a.labels \in SUBSET Label
    BY ReleaseIssueEffect DEF TypeOK
  <2>3. attempts' \in [Issues -> 0..AttemptCap] /\ next' \in [Issues -> NextAt]
    BY <1>8, WorkerFailedType DEF StartFails
  <2>. QED
    BY <1>8, <2>1, <2>2, <2>3 DEF StartFails, TypeOK
<1>9. CASE EndDispatch
  BY <1>9 DEF EndDispatch, TypeOK, Phase, Stage
<1>. QED
  BY <1>1, <1>2, <1>3, <1>4, <1>5, <1>6, <1>7, <1>8, <1>9 DEF RunOnce, Dispatch

LEMMA WorkerType == ASSUME NEW i \in Issues PROVE TypeOK /\ Worker(i) => TypeOK'
<1>. SUFFICES ASSUME TypeOK, Worker(i) PROVE TypeOK'
  OBVIOUS
<1>. USE DEF github, tick, workers, retry, env
<1>1. CASE NextTurn(i)
  BY <1>1, OrchestratorAssumption DEF NextTurn, TypeOK
<1>2. CASE TurnCompletes(i)
  BY <1>2 DEF TurnCompletes, EndTurns, TypeOK, Stage, Terminal
<1>3. CASE TurnEscapes(i)
  BY <1>3 DEF TurnEscapes, EndTurns, TypeOK, Stage, Terminal
<1>4. ASSUME NEW t \in Terminal, NEW r \in BOOLEAN, TurnBreaks(i, t, r) PROVE TypeOK'
  <2>1. attempts' \in [Issues -> 0..AttemptCap] /\ next' \in [Issues -> NextAt]
    BY <1>4, WorkerFailedType DEF TurnBreaks
  <2>. QED
    BY <1>4, <2>1 DEF TurnBreaks, EndTurns, TypeOK, Stage
<1>5. CASE Finish(i)
  <2>1. PICK outcome : \E a \in Route(i, outcome) : labels' = [labels EXCEPT ![i] = a.labels]
    BY <1>5 DEF Finish
  <2>2. PICK a \in Route(i, outcome) : labels' = [labels EXCEPT ![i] = a.labels]
    BY <2>1
  <2>3. labels' \in [Issues -> SUBSET Label]
    BY <2>2, RouteEffect DEF TypeOK
  <2>4. attempts' \in [Issues -> 0..AttemptCap] /\ next' \in [Issues -> NextAt]
    BY <1>5, OrchestratorAssumption DEF Finish, TypeOK, NextAt
  <2>5. phase' \in Phase
    BY <1>5 DEF Finish, PhaseWithout, Phase
  <2>6. turns' \in [Issues -> 0..(MaxTurns - 1)]
    BY <1>5, OrchestratorAssumption DEF Finish, TypeOK
  <2>. QED
    BY <1>5, <2>3, <2>4, <2>5, <2>6 DEF Finish, TypeOK, Stage, Terminal
<1>6. CASE AbandonFinally(i)
  BY <1>6 DEF AbandonFinally, PhaseWithout, TypeOK, Stage, Phase
<1>7. CASE CancelTurn(i)
  BY <1>7 DEF CancelTurn, TypeOK, Stage
<1>. QED
  BY <1>1, <1>2, <1>3, <1>4, <1>5, <1>6, <1>7 DEF Worker

LEMMA OtherType ==
  TypeOK /\ (Interrupt \/ Operator \/ (\E i \in Issues : BackoffElapses(i))) => TypeOK'
<1>. SUFFICES ASSUME TypeOK,
                     Interrupt \/ Operator \/ (\E i \in Issues : BackoffElapses(i))
              PROVE  TypeOK'
  OBVIOUS
<1>. USE DEF github, tick, workers, retry, env
<1>1. CASE Interrupt
  BY <1>1 DEF Interrupt, TypeOK, Phase
<1>2. ASSUME NEW i \in Issues, BackoffElapses(i) PROVE TypeOK'
  BY <1>2 DEF BackoffElapses, TypeOK, NextAt
<1>3. CASE Operator
  <2>1. OperatorMoves /\ UNCHANGED <<tick, workers, retry, policy>>
    BY <1>3 DEF Operator, OperatorMoves, Enqueue, Exempt, CloseOrReopen, EditWorkflow
  <2>2. moves' \in 0..MaxOperatorMoves
    BY <2>1, OrchestratorAssumption DEF OperatorMoves, TypeOK
  <2>3. labels' \in [Issues -> SUBSET Label]
    BY <1>3, LabelNames
      DEF Operator, Enqueue, Exempt, CloseOrReopen, EditWorkflow, TypeOK
  <2>4. open' \in SUBSET Issues /\ workflowValid' \in BOOLEAN
    BY <1>3 DEF Operator, Enqueue, Exempt, CloseOrReopen, EditWorkflow, TypeOK
  <2>. QED
    BY <2>1, <2>2, <2>3, <2>4 DEF TypeOK
<1>. QED
  BY <1>1, <1>2, <1>3

LEMMA TypeStep == TypeOK /\ [Next]_vars => TypeOK'
<1>1. TypeOK /\ UNCHANGED vars => TypeOK'
  BY DEF TypeOK, vars, github, tick, workers, retry, env
<1>. QED
  BY <1>1, RunOnceType, WorkerType, OtherType DEF Next

\* Every variable keeps its type, for any issues and any limits.
THEOREM TypeCorrect == Spec => []TypeOK
BY InitType, TypeStep, PTL DEF Spec

----------------------------------------------------------------------------
(***************************************************************************)
(* The inductive invariant.  TypeOK and the safety properties are not      *)
(* inductive: that a claimed issue keeps its label rests on who may touch  *)
(* a label in which phase, and the bound on the workers on slots_open      *)
(* counting the workers whenever _dispatch looks at it.                    *)
(***************************************************************************)

\* One issue at a time is between its claim and its start, only in _dispatch,
\* only while there is a slot for it, and never one that has a worker.
OneStarts ==
  /\ \A i, j \in starting : i = j
  /\ starting # {} => phase \in {"dispatch", "dead"}
  /\ phase = "dispatch" /\ starting # {} => slots > 0
  /\ starting \cap active = {}

\* Between ticks, and until _dispatch, no worker is left over.
QuietWithoutWorkers == phase \in {"idle", "reconcile", "fetch"} => active = {}

\* A coroutine runs for an active issue only; a live daemon has one for each.
StagesOfActive ==
  /\ \A i \in Issues : stage[i] # "none" => i \in active
  /\ phase = "dispatch" => \A i \in active : stage[i] = "created"
  /\ phase = "gather" => \A i \in active : stage[i] \notin {"none", "created"}
  /\ phase = "dying" => \A i \in Issues : stage[i] # "created"

\* While an issue is being started the room its lane had is still there.
RoomInLane == phase = "dispatch" => \A i \in starting : LaneOpen(i)

Inductive ==
  /\ TypeOK
  /\ OneStarts
  /\ QuietWithoutWorkers
  /\ StagesOfActive
  /\ RoomInLane
  /\ WorkOnlyUnderClaim
  /\ ConcurrencyBound
  /\ LaneBound

\* What holds only while no call fails and nothing kills the process.
Undisturbed == ~TrackerFaults /\ FatalEvents = {}

Calm ==
  /\ phase \notin {"dying", "dead"}
  /\ \A i \in Issues : stage[i] # "escaping"
  /\ NoOrphanedClaim

\* Without an operator, what _dispatch still has to look at is not settled.
PendingIsUnsettled ==
  phase = "dispatch" => \A i \in pending : labels[i] \cap {Blocked, Done} = {}

----------------------------------------------------------------------------
(* The steps preserve what is said of the phases, the starting issue and   *)
(* the stages.                                                             *)

Structure == OneStarts /\ QuietWithoutWorkers /\ StagesOfActive

LEMMA TickStructure == TypeOK /\ Structure /\ RunOnce => Structure'
<1>. SUFFICES ASSUME TypeOK, Structure, RunOnce PROVE Structure'
  OBVIOUS
<1>. USE DEF Structure, TypeOK, OneStarts, QuietWithoutWorkers, StagesOfActive,
             github, tick, workers, retry, env
<1>1. CASE BeginTick
  BY <1>1 DEF BeginTick
<1>2. CASE Reconcile
  BY <1>2 DEF Reconcile
<1>3. CASE FetchCandidates
  BY <1>3 DEF FetchCandidates
<1>4. CASE FetchFails
  BY <1>4 DEF FetchFails
<1>5. ASSUME NEW i \in Issues, Skip(i) PROVE Structure'
  BY <1>5 DEF Skip, Dispatching
<1>6. ASSUME NEW i \in Issues, Claim(i) PROVE Structure'
  BY <1>6 DEF Claim, Dispatching, MayDispatch
<1>7. ASSUME NEW i \in Issues, Start(i) PROVE Structure'
  BY <1>7 DEF Start
<1>8. ASSUME NEW i \in Issues, NEW r \in BOOLEAN, StartFails(i, r) PROVE Structure'
  BY <1>8 DEF StartFails
<1>9. CASE EndDispatch
  BY <1>9 DEF EndDispatch
<1>. QED
  BY <1>1, <1>2, <1>3, <1>4, <1>5, <1>6, <1>7, <1>8, <1>9 DEF RunOnce, Dispatch

LEMMA WorkerStructure ==
  ASSUME NEW i \in Issues PROVE TypeOK /\ Structure /\ Worker(i) => Structure'
<1>. SUFFICES ASSUME TypeOK, Structure, Worker(i) PROVE Structure'
  OBVIOUS
<1>. USE DEF Structure, TypeOK, OneStarts, QuietWithoutWorkers, StagesOfActive,
             github, tick, workers, retry, env
<1>1. CASE NextTurn(i)
  BY <1>1 DEF NextTurn
<1>2. CASE TurnCompletes(i)
  BY <1>2 DEF TurnCompletes, EndTurns
<1>3. CASE TurnEscapes(i)
  BY <1>3 DEF TurnEscapes, EndTurns
<1>4. ASSUME NEW t \in Terminal, NEW r \in BOOLEAN, TurnBreaks(i, t, r) PROVE Structure'
  BY <1>4 DEF TurnBreaks, EndTurns
<1>5. CASE Finish(i)
  BY <1>5 DEF Finish, PhaseWithout
<1>6. CASE AbandonFinally(i)
  BY <1>6 DEF AbandonFinally, PhaseWithout
<1>7. CASE CancelTurn(i)
  BY <1>7 DEF CancelTurn
<1>. QED
  BY <1>1, <1>2, <1>3, <1>4, <1>5, <1>6, <1>7 DEF Worker

LEMMA OtherStructure ==
  Structure /\ (Interrupt \/ Operator \/ (\E i \in Issues : BackoffElapses(i))) => Structure'
<1>. SUFFICES ASSUME Structure,
                     Interrupt \/ Operator \/ (\E i \in Issues : BackoffElapses(i))
              PROVE  Structure'
  OBVIOUS
<1>. USE DEF Structure, OneStarts, QuietWithoutWorkers, StagesOfActive,
             github, tick, workers, retry, env
<1>1. CASE Interrupt
  BY <1>1 DEF Interrupt
<1>2. ASSUME NEW i \in Issues, BackoffElapses(i) PROVE Structure'
  BY <1>2 DEF BackoffElapses
<1>3. CASE Operator
  BY <1>3 DEF Operator, Enqueue, Exempt, CloseOrReopen, EditWorkflow
<1>. QED
  BY <1>1, <1>2, <1>3

----------------------------------------------------------------------------
(* Who holds an issue has its claim label.                                 *)

LEMMA TickClaims == Inductive /\ RunOnce => WorkOnlyUnderClaim'
<1>. SUFFICES ASSUME Inductive, RunOnce PROVE WorkOnlyUnderClaim'
  OBVIOUS
<1>. USE DEF Inductive, TypeOK, WorkOnlyUnderClaim, Held, github, tick, workers, retry
<1>1. CASE BeginTick
  BY <1>1 DEF BeginTick
<1>2. CASE Reconcile
  <2>1. active = {} /\ starting = {}
    BY <1>2 DEF Reconcile, QuietWithoutWorkers, OneStarts
  <2>. QED
    BY <1>2, <2>1 DEF Reconcile
<1>3. CASE FetchCandidates \/ FetchFails
  BY <1>3 DEF FetchCandidates, FetchFails
<1>4. ASSUME NEW i \in Issues, Skip(i) PROVE WorkOnlyUnderClaim'
  BY <1>4 DEF Skip
<1>5. ASSUME NEW i \in Issues, Claim(i) PROVE WorkOnlyUnderClaim'
  <2>1. PICK a \in ClaimIssue(labels[i]) :
          /\ labels' = [labels EXCEPT ![i] = a.labels]
          /\ starting' = IF a.raised THEN {} ELSE {i}
    BY <1>5 DEF Claim
  <2>2. labels[i] \subseteq a.labels /\ (~a.raised => Running \in a.labels)
    BY ClaimIssueEffect
  <2>. QED
    BY <1>5, <2>1, <2>2 DEF Claim
<1>6. ASSUME NEW i \in Issues, Start(i) PROVE WorkOnlyUnderClaim'
  BY <1>6 DEF Start
<1>7. ASSUME NEW i \in Issues, NEW r \in BOOLEAN, StartFails(i, r) PROVE WorkOnlyUnderClaim'
  <2>1. i \notin active'
    BY <1>7 DEF StartFails, OneStarts
  <2>. QED
    BY <1>7, <2>1 DEF StartFails
<1>8. CASE EndDispatch
  BY <1>8 DEF EndDispatch
<1>. QED
  BY <1>1, <1>2, <1>3, <1>4, <1>5, <1>6, <1>7, <1>8 DEF RunOnce, Dispatch

LEMMA OtherClaims == Inductive /\ Next /\ ~RunOnce => WorkOnlyUnderClaim'
<1>. SUFFICES ASSUME Inductive, Next, ~RunOnce PROVE WorkOnlyUnderClaim'
  OBVIOUS
<1>. USE DEF Inductive, TypeOK, WorkOnlyUnderClaim, Held, github, tick, workers, retry
<1>1. ASSUME NEW i \in Issues, Finish(i) PROVE WorkOnlyUnderClaim'
  <2>1. i \notin active' /\ starting' = {}
    BY <1>1 DEF Finish, OneStarts
  <2>. QED
    BY <1>1, <2>1 DEF Finish
<1>2. ASSUME NEW i \in Issues, Worker(i), ~Finish(i) PROVE WorkOnlyUnderClaim'
  BY <1>2 DEF Worker, NextTurn, TurnCompletes, TurnEscapes, TurnBreaks, EndTurns,
              AbandonFinally, CancelTurn
<1>3. CASE Interrupt \/ \E i \in Issues : BackoffElapses(i)
  BY <1>3 DEF Interrupt, BackoffElapses
<1>4. CASE Operator
  BY <1>4, LabelNames DEF Operator, Enqueue, Exempt, CloseOrReopen, EditWorkflow
<1>. QED
  BY <1>1, <1>2, <1>3, <1>4 DEF Next

----------------------------------------------------------------------------
(* The bounds on the workers.                                              *)

Bounds == RoomInLane /\ ConcurrencyBound /\ LaneBound

LEMMA ActiveIsFinite ==
  ASSUME TypeOK
  PROVE  /\ IsFiniteSet(active) /\ Cardinality(active) \in Nat
         /\ \A l \in Lanes : LET In == {i \in active : LaneOf[i] = l}
                             IN  IsFiniteSet(In) /\ Cardinality(In) \in Nat
<1>1. \A S \in SUBSET Issues : IsFiniteSet(S) /\ Cardinality(S) \in Nat
  BY OrchestratorAssumption, FS_Subset, FS_CardinalityType
<1>. QED
  BY <1>1 DEF TypeOK

\* Fewer workers keep within every bound.
LEMMA FewerWorkers ==
  ASSUME TypeOK, ConcurrencyBound, LaneBound, active' \subseteq active
  PROVE  /\ Cardinality(active') <= MaxConcurrency
         /\ LaneBound'
<1>1. /\ Cardinality(active') \in Nat
      /\ Cardinality(active') <= Cardinality(active)
  BY ActiveIsFinite, FS_Subset, FS_CardinalityType
<1>2. Cardinality(active') <= MaxConcurrency
  BY <1>1, ActiveIsFinite, OrchestratorAssumption DEF ConcurrencyBound
<1>3. ASSUME NEW l \in Lanes
      PROVE  Cardinality({i \in active' : LaneOf[i] = l}) <= LaneLimit[l]
  <2>. DEFINE In == {i \in active : LaneOf[i] = l}
              After == {i \in active' : LaneOf[i] = l}
  <2>1. After \subseteq In
    OBVIOUS
  <2>2. IsFiniteSet(In) /\ Cardinality(In) \in Nat
    BY ActiveIsFinite
  <2>3. Cardinality(After) \in Nat /\ Cardinality(After) <= Cardinality(In)
    BY <2>1, <2>2, FS_Subset, FS_CardinalityType
  <2>4. Cardinality(In) <= LaneLimit[l] /\ LaneLimit[l] \in Nat
    BY OrchestratorAssumption DEF LaneBound
  <2>. QED
    BY <2>2, <2>3, <2>4
<1>. QED
  BY <1>2, <1>3 DEF LaneBound

\* Starting the worker of a claimed issue uses one slot, and one place of its lane.
LEMMA StartBounds == ASSUME NEW i \in Issues PROVE Inductive /\ Start(i) => Bounds'
<1>. SUFFICES ASSUME Inductive, Start(i) PROVE Bounds'
  OBVIOUS
<1>1. /\ i \notin active /\ active' = active \cup {i}
      /\ slots > 0 /\ slots' = slots - 1 /\ phase = "dispatch" /\ phase' = phase
      /\ starting' = {}
      /\ slots \in Int
      /\ LaneOpen(i)
  BY DEF Inductive, TypeOK, OneStarts, RoomInLane, Start
<1>2. Cardinality(active') = Cardinality(active) + 1 /\ Cardinality(active) \in Nat
  BY <1>1, ActiveIsFinite, FS_AddElement DEF Inductive
<1>3. ConcurrencyBound'
  BY <1>1, <1>2, OrchestratorAssumption DEF Inductive, ConcurrencyBound
<1>4. ASSUME NEW l \in Lanes
      PROVE  Cardinality({j \in active' : LaneOf[j] = l}) <= LaneLimit[l]
  <2>. DEFINE In == {j \in active : LaneOf[j] = l}
              After == {j \in active' : LaneOf[j] = l}
  <2>1. Cardinality(In) <= LaneLimit[l] /\ LaneLimit[l] \in Nat
    BY OrchestratorAssumption DEF Inductive, LaneBound
  <2>2. IsFiniteSet(In) /\ Cardinality(In) \in Nat
    BY ActiveIsFinite DEF Inductive
  <2>3. CASE LaneOf[i] # l
    <3>1. After = In
      BY <1>1, <2>3
    <3>. QED
      BY <2>1, <3>1
  <2>4. CASE LaneOf[i] = l
    <3>1. After = In \cup {i} /\ i \notin In
      BY <1>1, <2>4
    <3>2. Cardinality(After) = Cardinality(In) + 1
      BY <2>2, <3>1, FS_AddElement
    <3>3. Cardinality(In) < LaneLimit[l]
      BY <1>1, <2>4 DEF LaneOpen
    <3>. QED
      BY <2>1, <2>2, <3>2, <3>3
  <2>. QED
    BY <2>3, <2>4
<1>. QED
  BY <1>1, <1>3, <1>4 DEF Bounds, RoomInLane, LaneBound

LEMMA OtherBounds ==
  Inductive /\ [Next]_vars /\ ~(\E i \in Issues : Start(i)) => Bounds'
<1>. SUFFICES ASSUME Inductive, [Next]_vars, ~(\E i \in Issues : Start(i)) PROVE Bounds'
  OBVIOUS
<1>. USE DEF github, tick, workers, retry, env, vars
<1>1. active' \subseteq active
  BY DEF Next, RunOnce, BeginTick, Reconcile, FetchCandidates, FetchFails, Dispatch,
         Skip, Claim, StartFails, EndDispatch, Worker, NextTurn, TurnCompletes,
         TurnEscapes, TurnBreaks, EndTurns, Finish, AbandonFinally, CancelTurn,
         Interrupt, BackoffElapses, Operator, Enqueue, Exempt, CloseOrReopen,
         EditWorkflow
<1>2. Cardinality(active') <= MaxConcurrency /\ LaneBound'
  BY <1>1, FewerWorkers DEF Inductive
<1>3. ASSUME phase' = "dispatch"
      PROVE  slots' = MaxConcurrency - Cardinality(active') /\ RoomInLane'
  <2>1. CASE FetchCandidates
    BY <2>1 DEF FetchCandidates, Inductive, OneStarts, RoomInLane
  <2>2. ASSUME NEW i \in Issues, Claim(i)
        PROVE  slots' = MaxConcurrency - Cardinality(active') /\ RoomInLane'
    BY <2>2 DEF Claim, Dispatching, MayDispatch, Inductive, ConcurrencyBound,
                RoomInLane, LaneOpen
  <2>3. CASE ~FetchCandidates /\ ~(\E i \in Issues : Claim(i))
    <3>1. /\ phase = "dispatch" /\ slots' = slots /\ active' = active
          /\ starting' \subseteq starting
      BY <1>3, <2>3
        DEF Next, RunOnce, BeginTick, Reconcile, FetchFails, Dispatch,
            Skip, StartFails, EndDispatch, Worker, NextTurn, TurnCompletes,
            TurnEscapes, TurnBreaks, EndTurns, Finish, AbandonFinally, PhaseWithout,
            CancelTurn, Interrupt, BackoffElapses, Operator, Enqueue, Exempt,
            CloseOrReopen, EditWorkflow
    <3>. QED
      BY <3>1 DEF Inductive, ConcurrencyBound, RoomInLane, LaneOpen
  <2>. QED
    BY <2>1, <2>2, <2>3
<1>. QED
  BY <1>2, <1>3 DEF Bounds, ConcurrencyBound, RoomInLane

LEMMA InitInductive == Init => Inductive
<1>. SUFFICES ASSUME Init PROVE Inductive
  OBVIOUS
<1>1. Cardinality({}) = 0
  BY FS_EmptySet
<1>2. ASSUME NEW l \in Lanes
      PROVE  Cardinality({i \in active : LaneOf[i] = l}) <= LaneLimit[l]
  <2>1. {i \in active : LaneOf[i] = l} = {}
    BY DEF Init
  <2>. QED
    BY <1>1, <2>1, OrchestratorAssumption
<1>. QED
  BY <1>1, <1>2, InitType, OrchestratorAssumption
    DEF Init, Inductive, OneStarts, QuietWithoutWorkers, StagesOfActive, RoomInLane,
        WorkOnlyUnderClaim, Held, ConcurrencyBound, LaneBound

LEMMA InductiveStep == Inductive /\ [Next]_vars => Inductive'
<1>. SUFFICES ASSUME Inductive, [Next]_vars PROVE Inductive'
  OBVIOUS
<1>1. TypeOK'
  BY TypeStep DEF Inductive
<1>2. Bounds'
  BY StartBounds, OtherBounds
<1>3. CASE Next
  <2>1. Structure'
    BY <1>3, TickStructure, WorkerStructure, OtherStructure DEF Next, Inductive, Structure
  <2>2. WorkOnlyUnderClaim'
    BY <1>3, TickClaims, OtherClaims
  <2>. QED
    BY <1>1, <1>2, <2>1, <2>2 DEF Inductive, Structure, Bounds
<1>4. CASE UNCHANGED vars
  BY <1>1, <1>2, <1>4
    DEF Inductive, Bounds, OneStarts, QuietWithoutWorkers, StagesOfActive,
        WorkOnlyUnderClaim, Held, vars, github, tick, workers
<1>. QED
  BY <1>3, <1>4

THEOREM InductiveCorrect == Spec => []Inductive
BY InitInductive, InductiveStep, PTL DEF Spec

\* A worker exists only under its claim, for any issues, limits and failures.
THEOREM ClaimCorrect == Spec => []WorkOnlyUnderClaim
BY InductiveCorrect, PTL DEF Inductive

\* There are never more workers than agent.max_concurrency, nor in a lane more
\* than its limit, whatever lanes are configured.
THEOREM LimitsCorrect == Spec => []LimitsKept
<1>1. Inductive => LimitsKept
  BY DEF Inductive, LimitsKept
<1> QED
  BY <1>1, InductiveCorrect, PTL

\* Reconciliation never finds a worker to cancel.
THEOREM ReconcileCorrect == Spec => []ReconcileFindsNoWorker
<1>1. Inductive => ReconcileFindsNoWorker
  BY DEF Inductive, QuietWithoutWorkers, ReconcileFindsNoWorker
<1>. QED
  BY <1>1, InductiveCorrect, PTL

----------------------------------------------------------------------------
(* No claim is left behind when nothing fails.                             *)

LEMMA CalmStep == Undisturbed /\ Inductive /\ Calm /\ [Next]_vars => Calm'
<1>. SUFFICES ASSUME Undisturbed, Inductive, Calm, [Next]_vars PROVE Calm'
  OBVIOUS
<1>. USE DEF Undisturbed, Inductive, Calm, NoOrphanedClaim, TypeOK, Held,
             github, tick, workers, retry, vars
<1>1. CASE BeginTick \/ FetchCandidates \/ FetchFails \/ Interrupt
  BY <1>1 DEF BeginTick, FetchCandidates, FetchFails, Interrupt
<1>2. CASE Reconcile
  <2>1. active = {}
    BY <1>2 DEF Reconcile, QuietWithoutWorkers
  <2>. QED
    BY <1>2, <2>1 DEF Reconcile
<1>3. ASSUME NEW i \in Issues, Skip(i) \/ Start(i) PROVE Calm'
  <2>1. CASE Skip(i)
    BY <2>1 DEF Skip, Dispatching
  <2>2. CASE Start(i)
    <3>1. starting = {i}
      BY <2>2 DEF Start, OneStarts
    <3>. QED
      BY <2>2, <3>1 DEF Start
  <2>. QED
    BY <1>3, <2>1, <2>2
<1>4. ASSUME NEW i \in Issues, Claim(i) PROVE Calm'
  <2>1. PICK a \in ClaimIssue(labels[i]) :
          /\ labels' = [labels EXCEPT ![i] = a.labels]
          /\ starting' = IF a.raised THEN {} ELSE {i}
    BY <1>4 DEF Claim
  <2>2. ~a.raised
    BY ClaimIssueEffect
  <2>. QED
    BY <1>4, <2>1, <2>2 DEF Claim, Dispatching
<1>5. ASSUME NEW i \in Issues, NEW r \in BOOLEAN, StartFails(i, r) PROVE Calm'
  <2>1. PICK a \in ReleaseIssue(labels[i]) : labels' = [labels EXCEPT ![i] = a.labels]
    BY <1>5 DEF StartFails
  <2>2. a.labels = labels[i] \ {Running}
    BY ReleaseIssueEffect
  <2>3. starting = {i}
    BY <1>5 DEF StartFails, OneStarts
  <2>. QED
    BY <1>5, <2>1, <2>2, <2>3 DEF StartFails
<1>6. CASE EndDispatch
  BY <1>6 DEF EndDispatch
<1>7. ASSUME NEW i \in Issues, Finish(i) PROVE Calm'
  <2>1. PICK outcome : \E a \in Route(i, outcome) : labels' = [labels EXCEPT ![i] = a.labels]
    BY <1>7 DEF Finish
  <2>2. PICK a \in Route(i, outcome) : labels' = [labels EXCEPT ![i] = a.labels]
    BY <2>1
  <2>3. Running \notin a.labels
    BY RouteEffect
  <2>. QED
    BY <1>7, <2>2, <2>3 DEF Finish, PhaseWithout
<1>8. ASSUME NEW i \in Issues, Worker(i), ~Finish(i) PROVE Calm'
  BY <1>8 DEF Worker, NextTurn, TurnCompletes, TurnEscapes, TurnBreaks, EndTurns,
              AbandonFinally, CancelTurn
<1>9. ASSUME NEW i \in Issues, BackoffElapses(i) PROVE Calm'
  BY <1>9 DEF BackoffElapses
<1>10. CASE Operator
  BY <1>10, LabelNames DEF Operator, Enqueue, Exempt, CloseOrReopen, EditWorkflow
<1>11. CASE UNCHANGED vars
  BY <1>11
<1>. QED
  BY <1>1, <1>2, <1>3, <1>4, <1>5, <1>6, <1>7, <1>8, <1>9, <1>10, <1>11
    DEF Next, RunOnce, Dispatch

\* While no call fails and nothing kills the process, the claim label is only
\* on issues the daemon holds.
THEOREM NoOrphanCorrect == Spec => []NoOrphanedClaim
<1>1. CASE ~Undisturbed
  <2>1. NoOrphanedClaim
    BY <1>1 DEF NoOrphanedClaim, Undisturbed
  <2>. QED
    BY <2>1, PTL
<1>2. CASE Undisturbed
  <2>1. Init => Calm
    BY LabelNames DEF Init, Calm, NoOrphanedClaim
  <2>2. Inductive /\ Calm /\ [Next]_vars => Calm'
    BY <1>2, CalmStep
  <2>3. Calm => NoOrphanedClaim
    BY DEF Calm
  <2>. QED
    BY <2>1, <2>2, <2>3, InductiveCorrect, PTL DEF Spec
<1>. QED
  BY <1>1, <1>2

----------------------------------------------------------------------------
(* What the daemon settled stays settled, without an operator.             *)

\* No operator, and the tracker is told to leave blocked and done issues out.
Unattended == MaxOperatorMoves = 0 /\ {Blocked, Done} \subseteq Exclude

LEMMA NoOperatorMove == TypeOK /\ MaxOperatorMoves = 0 => ~Operator
BY DEF TypeOK, Operator, OperatorMoves, Enqueue, Exempt, CloseOrReopen, EditWorkflow

LEMMA PendingStep ==
  Unattended /\ Inductive /\ PendingIsUnsettled /\ [Next]_vars => PendingIsUnsettled'
<1>. SUFFICES ASSUME Unattended, Inductive, PendingIsUnsettled, [Next]_vars,
                     phase' = "dispatch"
              PROVE  \A i \in pending' : labels'[i] \cap {Blocked, Done} = {}
  BY DEF PendingIsUnsettled
<1>. USE DEF Inductive, TypeOK, PendingIsUnsettled, github, tick, workers, retry, vars
<1>1. CASE FetchCandidates
  BY <1>1 DEF FetchCandidates, IsCandidate, Unattended
<1>2. ASSUME NEW i \in Issues, Claim(i)
      PROVE  \A j \in pending' : labels'[j] \cap {Blocked, Done} = {}
  BY <1>2 DEF Claim, Dispatching
<1>3. ASSUME NEW i \in Issues, NEW r \in BOOLEAN, StartFails(i, r)
      PROVE  \A j \in pending' : labels'[j] \cap {Blocked, Done} = {}
  <2>1. PICK a \in ReleaseIssue(labels[i]) : labels' = [labels EXCEPT ![i] = a.labels]
    BY <1>3 DEF StartFails
  <2>2. a.labels \subseteq labels[i]
    BY ReleaseIssueEffect
  <2>. QED
    BY <1>3, <2>1, <2>2 DEF StartFails
<1>4. CASE ~FetchCandidates /\ (\A i \in Issues : ~Claim(i))
           /\ (\A i \in Issues, r \in BOOLEAN : ~StartFails(i, r))
  <2>1. ~Operator
    BY NoOperatorMove DEF Unattended
  <2>2. phase = "dispatch" /\ pending' \subseteq pending /\ labels' = labels
    BY <1>4, <2>1
      DEF Next, RunOnce, BeginTick, Reconcile, FetchFails, Dispatch, Skip, Start,
          EndDispatch, Worker, NextTurn, TurnCompletes, TurnEscapes, TurnBreaks,
          EndTurns, Finish, AbandonFinally, PhaseWithout, CancelTurn, Interrupt,
          BackoffElapses
  <2>. QED
    BY <2>2
<1>. QED
  BY <1>1, <1>2, <1>3, <1>4

\* An issue with a blocked or a done label is not claimed.
THEOREM SettledCorrect == Spec => SettledStaysSettled
<1>1. CASE ~Unattended
  BY <1>1, PTL DEF SettledStaysSettled, Unattended
<1>2. CASE Unattended
  <2>1. Init => PendingIsUnsettled
    BY DEF Init, PendingIsUnsettled
  <2>2. Inductive /\ PendingIsUnsettled /\ [Next]_vars => PendingIsUnsettled'
    BY <1>2, PendingStep
  <2>3. ASSUME Inductive, PendingIsUnsettled, [Next]_vars
        PROVE  [MaxOperatorMoves = 0 /\ {Blocked, Done} \subseteq Exclude =>
                  \A i \in starting' \ starting : labels[i] \cap {Blocked, Done} = {}]_vars
    <3>1. ASSUME NEW i \in starting' \ starting PROVE Claim(i) /\ phase = "dispatch"
      BY <2>3, <3>1
        DEF Inductive, TypeOK, Next, RunOnce, BeginTick, Reconcile, FetchCandidates,
            FetchFails, Dispatch, Dispatching, Skip, Claim, Start, StartFails,
            EndDispatch, Worker,
            NextTurn, TurnCompletes, TurnEscapes, TurnBreaks, EndTurns, Finish,
            AbandonFinally, CancelTurn, Interrupt, BackoffElapses, Operator, Enqueue,
            Exempt, CloseOrReopen, EditWorkflow, github, tick, workers, retry, env, vars
    <3>. QED
      BY <2>3, <3>1 DEF PendingIsUnsettled, Claim
  <2>. QED
    BY <2>1, <2>2, <2>3, InductiveCorrect, PTL DEF Spec, SettledStaysSettled
<1>. QED
  BY <1>1, <1>2

----------------------------------------------------------------------------
(* A hopeless run is the last of its issue.                                *)

\* Where an issue stays once its run was hopeless: out of _dispatch's hands,
\* with a label that keeps it from being a candidate.
Finished(i) ==
  /\ stage[i] = "none" /\ i \notin starting
  /\ phase = "dispatch" => i \notin pending
  /\ {Blocked, Running} \cap labels[i] # {}

Over(i) == HopelessRun(i) \/ Finished(i)

\* Blocking an issue leaves the blocked label, or the claim it had.
LEMMA BlockedEffect ==
  ASSUME NEW L \in SUBSET Label, Running \in L, NEW a \in MarkIssueBlocked(L)
  PROVE  {Blocked, Running} \cap a.labels # {}
<1>1. CASE a \in Call(L, L \cup {Blocked}) /\ a.raised
  BY <1>1 DEF Call, Ok, Raised
<1>2. CASE \E M \in DropBestEffort(L \cup {Blocked}) : a = Ok(M)
  <2>1. PICK M \in DropBestEffort(L \cup {Blocked}) : a = Ok(M)
    BY <1>2
  <2>2. L \cup {Blocked} \in SUBSET Label
    BY LabelNames
  <2>3. (L \cup {Blocked}) \ {Running, Ready} \subseteq M
    BY <2>2, DropEffect
  <2>. QED
    BY <2>1, <2>3, LabelNames DEF Ok
<1>. QED
  BY <1>1, <1>2 DEF MarkIssueBlocked, AddThenDrop

LEMMA OverStep ==
  ASSUME NEW i \in Issues, MaxOperatorMoves = 0, Blocked \in Exclude
  PROVE  Inductive /\ Over(i) /\ [Next]_vars => Over(i)'
<1>. SUFFICES ASSUME Inductive, Over(i), [Next]_vars PROVE Over(i)'
  OBVIOUS
<1>0. ~Operator
  BY NoOperatorMove DEF Inductive
<1>. USE DEF Inductive, TypeOK, github, tick, workers, retry, vars
<1>1. CASE HopelessRun(i)
  <2>. USE <1>1 DEF HopelessRun, NonRetryableFailure
  <2>1. phase \notin {"idle", "reconcile", "fetch", "dispatch"} /\ i \in active
    BY DEF QuietWithoutWorkers, StagesOfActive
  <2>2. phase # "dead" => starting = {}
    BY <2>1 DEF OneStarts
  <2>3. i \notin starting
    BY <2>1 DEF OneStarts
  <2>4. Running \in labels[i]
    BY <2>1 DEF WorkOnlyUnderClaim, Held
  <2>5. CASE Finish(i)
    <3>1. PICK outcome : \E a \in Route(i, outcome) : labels' = [labels EXCEPT ![i] = a.labels]
      BY <2>5 DEF Finish
    <3>2. PICK a \in Route(i, outcome) : labels' = [labels EXCEPT ![i] = a.labels]
      BY <3>1
    <3>3. a \in MarkIssueBlocked(labels[i])
      BY DEF Route
    <3>4. {Blocked, Running} \cap a.labels # {}
      BY <2>4, <3>3, BlockedEffect
    <3>5. labels'[i] = a.labels /\ stage'[i] = "none" /\ i \notin starting'
      BY <2>3, <2>5, <3>2 DEF Finish
    <3>6. phase' # "dispatch"
      BY <2>5 DEF Finish, PhaseWithout
    <3>. QED
      BY <3>4, <3>5, <3>6 DEF Over, Finished
  <2>6. CASE AbandonFinally(i)
    <3>1. phase' # "dispatch" /\ labels' = labels /\ stage'[i] = "none" /\ starting' = starting
      BY <2>6 DEF AbandonFinally, PhaseWithout
    <3>. QED
      BY <2>3, <2>4, <3>1 DEF Over, Finished
  <2>7. ASSUME NEW j \in Issues, j # i, Worker(j) PROVE HopelessRun(i)'
    BY <2>7 DEF Worker, NextTurn, TurnCompletes, TurnEscapes, TurnBreaks, EndTurns,
                WorkerFailed, Finish, AbandonFinally, CancelTurn
  <2>8. ASSUME Worker(i), ~Finish(i), ~AbandonFinally(i) PROVE FALSE
    BY <2>8 DEF Worker, NextTurn, TurnCompletes, TurnEscapes, TurnBreaks, EndTurns,
                CancelTurn
  <2>9. ASSUME NEW j \in Issues, BackoffElapses(j) PROVE HopelessRun(i)'
    BY <2>9 DEF BackoffElapses
  <2>10. CASE Interrupt \/ UNCHANGED vars
    BY <2>10 DEF Interrupt, Over
  <2>11. ~RunOnce
    BY <2>1, <2>2 DEF RunOnce, BeginTick, Reconcile, FetchCandidates, FetchFails, Dispatch,
           Dispatching, Skip, Claim, Start, StartFails, EndDispatch
  <2>. QED
    BY <1>0, <2>5, <2>6, <2>7, <2>8, <2>9, <2>10, <2>11 DEF Next, Over
<1>2. CASE Finished(i)
  <2>. USE <1>2 DEF Finished
  <2>1. CASE Reconcile
    <3>1. active = {}
      BY <2>1 DEF Reconcile, QuietWithoutWorkers
    <3>. QED
      BY <2>1, <3>1 DEF Reconcile, Over
  <2>2. CASE FetchCandidates
    BY <2>2 DEF FetchCandidates, IsCandidate, Over
  <2>3. CASE BeginTick \/ FetchFails \/ EndDispatch
    BY <2>3 DEF BeginTick, FetchFails, EndDispatch, Over
  <2>4. ASSUME NEW j \in Issues, Skip(j) \/ Start(j) PROVE Over(i)'
    BY <2>4 DEF Skip, Start, Dispatching, Over
  <2>5. ASSUME NEW j \in Issues, Claim(j) PROVE Over(i)'
    <3>1. j # i
      BY <2>5 DEF Claim, Dispatching
    <3>. QED
      BY <2>5, <3>1 DEF Claim, Dispatching, Over
  <2>6. ASSUME NEW j \in Issues, NEW r \in BOOLEAN, StartFails(j, r) PROVE Over(i)'
    <3>1. j # i
      BY <2>6 DEF StartFails
    <3>. QED
      BY <2>6, <3>1 DEF StartFails, Over
  <2>7. ASSUME NEW j \in Issues, Worker(j) PROVE Over(i)'
    <3>1. j # i
      BY <2>7 DEF Worker, NextTurn, TurnCompletes, TurnEscapes, TurnBreaks, EndTurns,
                  Finish, AbandonFinally, CancelTurn
    <3>. QED
      BY <2>7, <3>1
        DEF Worker, NextTurn, TurnCompletes, TurnEscapes, TurnBreaks, EndTurns,
            Finish, AbandonFinally, PhaseWithout, CancelTurn, Over
  <2>8. CASE Interrupt \/ (\E j \in Issues : BackoffElapses(j)) \/ UNCHANGED vars
    BY <2>8 DEF Interrupt, BackoffElapses, Over
  <2>. QED
    BY <1>0, <2>1, <2>2, <2>3, <2>4, <2>5, <2>6, <2>7, <2>8 DEF Next, RunOnce, Dispatch
<1>. QED
  BY <1>1, <1>2 DEF Over

LEMMA HopelessRunIsLastOf ==
  ASSUME NEW i \in Issues, MaxOperatorMoves = 0, Blocked \in Exclude
  PROVE  Spec => [](HopelessRun(i) => [](i \notin starting))
<1>1. Inductive /\ Over(i) /\ [Next]_vars => Over(i)'
  BY OverStep
<1>2. HopelessRun(i) => Over(i)
  BY DEF Over
<1>3. Inductive /\ Over(i) => i \notin starting
  BY DEF Inductive, OneStarts, StagesOfActive, Over, HopelessRun, Finished
<1>. QED
  BY <1>1, <1>2, <1>3, InductiveCorrect, PTL DEF Spec

\* After a hopeless run the issue is not claimed again, until an operator comes.
THEOREM HopelessCorrect == Spec => HopelessRunIsLast
BY HopelessRunIsLastOf DEF HopelessRunIsLast

----------------------------------------------------------------------------
(* The daemon implements IssueLifecycle.                                   *)

Shown == [i \in Issues |-> IssueStatus(i)]

\* What the daemon holds is what the abstract specification calls occupied.
LEMMA OccupiedIsHeld ==
  ASSUME Inductive, phase = "dispatch"
  PROVE  Lifecycle!Occupied = Held
BY DEF Inductive, TypeOK, StagesOfActive, OneStarts, Lifecycle!Occupied, IssueStatus, Held

LEMMA LifecycleInit == Init => Lifecycle!Init
BY LabelNames DEF Init, Lifecycle!Init, IssueStatus

\* A step that changes the labels and the stage of at most one issue that
\* nobody starts shows as a release, a loss or no change.
LEMMA OneIssueLeaves ==
  ASSUME Inductive, NEW i \in Issues,
         IssueStatus(i) \in {"claimed", "working"},
         IssueStatus(i)' \in {"free", "lost"},
         \A j \in Issues \ {i} : IssueStatus(j)' = IssueStatus(j)
  PROVE  Lifecycle!Next
<1>1. Shown' = [Shown EXCEPT ![i] = IssueStatus(i)']
  BY DEF Shown
<1>2. i \in Lifecycle!Occupied
  BY DEF Lifecycle!Occupied
<1>3. CASE IssueStatus(i)' = "free"
  BY <1>1, <1>2, <1>3 DEF Shown, Lifecycle!Next, Lifecycle!Release
<1>4. CASE IssueStatus(i)' = "lost"
  BY <1>1, <1>4 DEF Shown, Lifecycle!Next, Lifecycle!Lose
<1>. QED
  BY <1>3, <1>4

LEMMA TickLifecycle ==
  Inductive /\ RunOnce => Lifecycle!Next \/ UNCHANGED Shown
<1>. SUFFICES ASSUME Inductive, RunOnce PROVE Lifecycle!Next \/ UNCHANGED Shown
  OBVIOUS
<1>. USE DEF Inductive, TypeOK, Shown, IssueStatus, github, tick, workers, retry, env
<1>1. CASE BeginTick \/ FetchCandidates
  BY <1>1 DEF BeginTick, FetchCandidates
<1>2. CASE Reconcile
  <2>1. active = {} /\ \A i \in Issues : stage[i] = "none"
    BY <1>2 DEF Reconcile, QuietWithoutWorkers, StagesOfActive
  <2>. QED
    BY <1>2, <2>1 DEF Reconcile
<1>3. CASE FetchFails
  BY <1>3 DEF FetchFails, QuietWithoutWorkers, StagesOfActive, OneStarts
<1>4. ASSUME NEW i \in Issues, Skip(i) PROVE UNCHANGED Shown
  BY <1>4 DEF Skip
<1>5. ASSUME NEW i \in Issues, Claim(i) PROVE Lifecycle!Next \/ UNCHANGED Shown
  <2>1. PICK a \in ClaimIssue(labels[i]) :
          /\ labels' = [labels EXCEPT ![i] = a.labels]
          /\ starting' = IF a.raised THEN {} ELSE {i}
    BY <1>5 DEF Claim
  <2>2. /\ a.labels \in {labels[i], labels[i] \cup {Running}}
        /\ a.labels \in SUBSET Label
    BY ClaimIssueEffect
  <2>3. /\ phase = "dispatch" /\ phase' = phase /\ stage' = stage
        /\ starting = {} /\ slots > 0
        /\ i \notin active /\ stage[i] = "none" /\ Running \notin labels[i]
    BY <1>5 DEF Claim, Dispatching, MayDispatch, ClaimConflict, StagesOfActive
  <2>4. IssueStatus(i) = "free"
    BY <2>3
  <2>5. CASE a.raised
    <3>1. CASE Running \in a.labels
      <4>1. Shown' = [Shown EXCEPT ![i] = "lost"]
        BY <2>1, <2>2, <2>3, <2>5, <3>1
      <4>. QED
        BY <2>4, <4>1 DEF Lifecycle!Next, Lifecycle!Lose
    <3>2. CASE Running \notin a.labels
      <4>1. labels' = labels
        BY <2>1, <2>2, <3>2
      <4>. QED
        BY <2>1, <2>3, <2>5, <4>1
    <3>. QED
      BY <3>1, <3>2
  <2>6. CASE ~a.raised
    <3>1. Shown' = [Shown EXCEPT ![i] = "claimed"]
      BY <2>1, <2>3, <2>6
    <3>2. Cardinality(Lifecycle!Occupied) < MaxConcurrency
      <4>1. Lifecycle!Occupied = active
        BY <2>3, OccupiedIsHeld DEF Held
      <4>2. slots = MaxConcurrency - Cardinality(active) /\ Cardinality(active) \in Nat
        BY <2>3, ActiveIsFinite DEF ConcurrencyBound
      <4>. QED
        BY <2>3, <4>1, <4>2, OrchestratorAssumption
    <3>3. \A j \in Issues : IssueStatus(j) # "claimed"
      BY <2>3
    <3>4. Lifecycle!Cardinality(Lifecycle!Occupied) = Cardinality(Lifecycle!Occupied)
      BY Zenon DEF Lifecycle!Cardinality, Cardinality
    <3>. QED
      BY <2>4, <3>1, <3>2, <3>3, <3>4 DEF Lifecycle!Next, Lifecycle!Claim
  <2>. QED
    BY <2>5, <2>6
<1>6. ASSUME NEW i \in Issues, Start(i) PROVE Lifecycle!Next
  <2>1. starting = {i} /\ i \notin active /\ phase = "dispatch"
    BY <1>6 DEF Start, OneStarts
  <2>2. Shown' = [Shown EXCEPT ![i] = "working"] /\ IssueStatus(i) = "claimed"
    BY <1>6, <2>1 DEF Start
  <2>. QED
    BY <2>2 DEF Lifecycle!Next, Lifecycle!Work
<1>7. ASSUME NEW i \in Issues, NEW r \in BOOLEAN, StartFails(i, r) PROVE Lifecycle!Next
  <2>1. starting = {i} /\ stage[i] = "none" /\ phase = "dispatch"
    BY <1>7 DEF StartFails, OneStarts, StagesOfActive
  <2>2. \A j \in Issues \ {i} : labels'[j] = labels[j]
    BY <1>7 DEF StartFails
  <2>. QED
    BY <1>7, <2>1, <2>2, OneIssueLeaves DEF StartFails
<1>8. CASE EndDispatch
  BY <1>8 DEF EndDispatch
<1>. QED
  BY <1>1, <1>2, <1>3, <1>4, <1>5, <1>6, <1>7, <1>8 DEF RunOnce, Dispatch

LEMMA OtherLifecycle ==
  Inductive /\ [Next]_vars /\ ~RunOnce => Lifecycle!Next \/ UNCHANGED Shown
<1>. SUFFICES ASSUME Inductive, [Next]_vars, ~RunOnce
              PROVE  Lifecycle!Next \/ UNCHANGED Shown
  OBVIOUS
<1>. USE DEF Inductive, TypeOK, Shown, IssueStatus, github, tick, workers, retry, env
<1>1. ASSUME NEW i \in Issues, Finish(i) \/ AbandonFinally(i) PROVE Lifecycle!Next
  <2>1. /\ phase \in {"gather", "dying"} /\ starting = {} /\ starting' = {}
        /\ stage[i] # "none"
        /\ phase' \in {"gather", "idle", "dying", "dead"}
        /\ stage' = [stage EXCEPT ![i] = "none"]
        /\ phase' = "dead" => \A j \in Issues \ {i} : stage[j] = "none"
        /\ \A j \in Issues \ {i} : labels'[j] = labels[j]
    BY <1>1 DEF Finish, AbandonFinally, PhaseWithout, OneStarts
  <2>. QED
    BY <2>1, OneIssueLeaves
<1>2. ASSUME NEW i \in Issues, Worker(i), ~Finish(i), ~AbandonFinally(i)
      PROVE  UNCHANGED Shown
  <2>1. /\ labels' = labels /\ phase' = phase /\ starting' = starting
        /\ \A j \in Issues : stage'[j] = "none" <=> stage[j] = "none"
    BY <1>2 DEF Worker, NextTurn, TurnCompletes, TurnEscapes, TurnBreaks, EndTurns, CancelTurn
  <2>. QED
    BY <2>1
<1>3. CASE Interrupt
  <2>1. CASE phase = "gather"
    BY <1>3, <2>1 DEF Interrupt, OneStarts
  <2>2. CASE phase # "gather"
    <3>1. Shown' = [i \in Issues |-> IF i \in Lifecycle!Occupied THEN "lost" ELSE Shown[i]]
      BY <1>3, <2>2
        DEF Interrupt, Lifecycle!Occupied, WorkOnlyUnderClaim, Held, StagesOfActive
    <3>. QED
      BY <3>1 DEF Lifecycle!Next, Lifecycle!Die
  <2>. QED
    BY <2>1, <2>2
<1>4. CASE Operator
  <2>1. /\ phase' = phase /\ starting' = starting /\ stage' = stage
        /\ \A i \in Issues : Running \in labels'[i] <=> Running \in labels[i]
    BY <1>4, LabelNames DEF Operator, Enqueue, Exempt, CloseOrReopen, EditWorkflow
  <2>. QED
    BY <2>1
<1>5. CASE UNCHANGED vars \/ \E i \in Issues : BackoffElapses(i)
  BY <1>5 DEF BackoffElapses, vars
<1>. QED
  BY <1>1, <1>2, <1>3, <1>4, <1>5 DEF Next

\* The daemon implements the abstract lifecycle: every step shows as a claim,
\* the beginning of work, a release, a loss, the death of the process, or as
\* nothing.
THEOREM LifecycleCorrect == Spec => ImplementsLifecycle
<1>1. Inductive /\ [Next]_vars => Lifecycle!Next \/ UNCHANGED Shown
  BY TickLifecycle, OtherLifecycle
<1>. QED
  BY <1>1, LifecycleInit, InductiveCorrect, PTL
    DEF Spec, ImplementsLifecycle, Lifecycle!Spec, Shown
============================================================================
