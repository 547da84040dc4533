----------------------------- MODULE DaemonProofs -----------------------------
(***************************************************************************)
(* Theorems about recovery, for every set of issues, limit, set of resume  *)
(* policies and fatal exceptions, and any number of sessions and crashes.  *)
(***************************************************************************)
EXTENDS Daemon, OrchestratorProofs, SequenceTheorems

\* The records, in three parts, and where recover keeps its own state.
StoreType ==
  /\ store \in Seq(Record) /\ Len(store) <= MaxSessions
  /\ order \in [1..Len(store) -> 1..Len(store)]

RecoverType ==
  /\ heard \subseteq active
  /\ carry \in [Issues -> 0..MaxSessions]
  /\ recovery \in Recovery
  /\ todo \subseteq 1..Len(store) /\ resumed \in 0..Len(store)
  /\ \E S \in SUBSET Issues : fresh \in Snapshot(S)
  /\ gone \in SUBSET (Issues \ open)
  /\ crashes \in 0..MaxCrashes

\* No two records were last written at once.
DistinctPlaces == \A j, k \in 1..Len(store) : order[j] = order[k] => j = k

\* Where recover stands: its own worker is the only one until it returns.
Course ==
  /\ recovery = "none" => todo = {}
  /\ recovery \in {"found", "deciding", "stamping"} => phase \in {"idle", "dead"}
  /\ recovery = "found" => fresh = NoAnswer
  /\ recovery = "driving" => phase \in {"gather", "dying", "dead"}
  /\ recovery \in {"driving", "stamping"} => resumed # 0 /\ resumed \notin todo
  /\ recovery = "driving" => \A i \in Issues : stage[i] # "none" => i = store[resumed].issue
  /\ \A k \in todo : store[k].live

\* Sessions that run one after the other are written in that order, unless
\* one of them was resumed.
InOrder ==
  policy # "resume_same_session" =>
    \A j, k \in 1..Len(store) :
      /\ store[j].issue = store[k].issue /\ store[j].live /\ store[k].live
      /\ j < k
      => order[j] < order[k]

\* Nothing newer than what is still to be decided has been handed over.
CarryBehind == \A k \in todo : carry[store[k].issue] <= k

\* A claim that recover has not dropped yet has a record that is not decided.
DroppedSoFar ==
  ~TrackerFaults /\ recovery \in {"deciding", "driving", "stamping"} =>
    \A i \in DOMAIN fresh : Running \in labels[i] =>
      \/ \E k \in todo : store[k].issue = i
      \/ recovery = "driving" /\ store[resumed].issue = i

Recoverable == StoreType /\ RecoverType /\ DistinctPlaces /\ Course /\ InOrder
               /\ CarryBehind /\ DroppedSoFar

----------------------------------------------------------------------------
(* The session store.                                                      *)

\* A record that is written goes to the end; the others keep their order.
LEMMA PersistFacts ==
  ASSUME StoreType, DistinctPlaces, NEW k \in 1..Len(store), NEW r \in Record, Persist(k, r)
  PROVE  /\ StoreType' /\ DistinctPlaces'
         /\ Len(store') = Len(store)
         /\ \A j \in 1..Len(store) : store'[j] = IF j = k THEN r ELSE store[j]
         /\ \A i, j \in 1..Len(store) : i # k /\ j # k =>
              (order[i] < order[j] <=> order'[i] < order'[j])
         /\ \A j \in 1..Len(store) : j # k => order'[j] < order'[k]
<1>1. DOMAIN store = 1..Len(store) /\ Len(store) \in Nat
  BY DEF StoreType
<1>2. /\ store' \in Seq(Record) /\ Len(store') = Len(store)
      /\ \A j \in 1..Len(store) : store'[j] = IF j = k THEN r ELSE store[j]
  BY ExceptSeq DEF StoreType, Persist
<1>3. \A j \in 1..Len(store) :
        order'[j] = IF j = k THEN Len(store)
                    ELSE IF order[j] > order[k] THEN order[j] - 1 ELSE order[j]
  BY <1>1 DEF Persist, MovedToEnd
<1>4. \A j \in 1..Len(store) : order[j] \in 1..Len(store)
  BY DEF StoreType
<1>5. \A j \in 1..Len(store) : order'[j] \in 1..Len(store)
  BY <1>1, <1>3, <1>4
<1>6. order' \in [1..Len(store) -> 1..Len(store)]
  BY <1>1, <1>5 DEF Persist, MovedToEnd
<1>7. StoreType'
  BY <1>2, <1>6 DEF StoreType
<1>8. \A j \in 1..Len(store) : j # k => order'[j] < order'[k]
  BY <1>1, <1>3, <1>4 DEF DistinctPlaces
<1>9. \A i, j \in 1..Len(store) : i # k /\ j # k =>
        (order[i] < order[j] <=> order'[i] < order'[j])
  BY <1>1, <1>3, <1>4 DEF DistinctPlaces
<1>10. DistinctPlaces'
  <2>. SUFFICES ASSUME NEW i \in 1..Len(store), NEW j \in 1..Len(store), order'[i] = order'[j], i # j
                PROVE  FALSE
    BY <1>2 DEF DistinctPlaces
  <2>1. i # k /\ j # k
    BY <1>5, <1>8
  <2>2. ~(order[i] < order[j]) /\ ~(order[j] < order[i])
    BY <1>5, <1>9, <2>1
  <2>. QED
    BY <1>4, <2>2 DEF DistinctPlaces
<1>. QED
  BY <1>2, <1>7, <1>8, <1>9, <1>10

\* A stamped record is no longer live, and no other one changes.
LEMMA StampFacts ==
  ASSUME StoreType, DistinctPlaces, InOrder, NEW k \in 1..Len(store), Stamp(k), policy' = policy
  PROVE  /\ StoreType' /\ DistinctPlaces' /\ InOrder'
         /\ Len(store') = Len(store)
         /\ \A j \in 1..Len(store) : store'[j].issue = store[j].issue
         /\ \A j \in 1..Len(store) : j # k => store'[j] = store[j]
         /\ store'[k].live = FALSE
<1>. DEFINE r == [store[k] EXCEPT !.live = FALSE]
<1>1. store[k] \in Record
  BY DEF StoreType
<1>2. r \in Record /\ r.live = FALSE /\ r.issue = store[k].issue
  BY <1>1 DEF Record
<1>3. Persist(k, r)
  BY DEF Stamp
<1>. HIDE DEF r
<1>4. /\ StoreType' /\ DistinctPlaces'
      /\ Len(store') = Len(store)
      /\ \A j \in 1..Len(store) : store'[j] = IF j = k THEN r ELSE store[j]
      /\ \A i, j \in 1..Len(store) : i # k /\ j # k =>
           (order[i] < order[j] <=> order'[i] < order'[j])
  BY <1>2, <1>3, PersistFacts
<1>5. InOrder'
  BY <1>2, <1>4 DEF InOrder
<1>. QED
  BY <1>2, <1>4, <1>5

----------------------------------------------------------------------------
(* The decisions of recover.                                               *)

\* Releasing or blocking leaves labels, of other issues the same ones, and
\* no claim when no call fails.
LEMMA SettleFacts ==
  ASSUME TypeOK, NEW k, store[k].issue \in Issues, Released(k) \/ GivenUp(k)
  PROVE  /\ labels' \in [Issues -> SUBSET Label]
         /\ \A i \in Issues : i # store[k].issue => labels'[i] = labels[i]
         /\ ~TrackerFaults => Running \notin labels'[store[k].issue]
<1>. DEFINE i == store[k].issue
<1>0. labels[i] \in SUBSET Label /\ labels \in [Issues -> SUBSET Label]
  BY DEF TypeOK
<1>1. CASE Released(k)
  <2>1. PICK a \in ReleaseIssue(labels[i]) : labels' = [labels EXCEPT ![i] = a.labels]
    BY <1>1 DEF Released, Settle
  <2>2. a.labels \in SUBSET Label /\ (~TrackerFaults => Running \notin a.labels)
    BY <1>0, ReleaseIssueEffect
  <2>. QED
    BY <1>0, <2>1, <2>2
<1>2. CASE GivenUp(k)
  <2>1. PICK a \in MarkIssueBlocked(labels[i]) : labels' = [labels EXCEPT ![i] = a.labels]
    BY <1>2 DEF GivenUp, Settle
  <2>2. a.labels \in SUBSET Label /\ (~TrackerFaults => Running \notin a.labels)
    BY <1>0, <2>1, AddThenDropEffect, LabelNames DEF MarkIssueBlocked
  <2>. QED
    BY <1>0, <2>1, <2>2
<1>. QED
  BY <1>1, <1>2

\* What every decision but that to resume has in common.
Common(k) ==
  /\ IsNext(k) /\ recovery = "deciding" /\ phase = "idle"
  /\ Decided(k, todo \ {k})
  /\ labels' \in [Issues -> SUBSET Label]
  /\ \A i \in Issues : i # store[k].issue => labels'[i] = labels[i]
  /\ store[k].issue \in DOMAIN fresh /\ ~TrackerFaults => Running \notin labels'[store[k].issue]
  /\ \/ carry' = carry
     \/ /\ policy = "new_session_with_summary"
        /\ carry' = [carry EXCEPT ![store[k].issue] = k]

LEMMA DecideFacts ==
  ASSUME TypeOK, StoreType, RecoverType, NEW k \in todo, Decide(k), ~Resume(k)
  PROVE  k \in 1..Len(store) /\ store[k] \in Record /\ Common(k)
<1>1. k \in 1..Len(store) /\ store[k] \in Record /\ store[k].issue \in Issues
  <2>1. k \in 1..Len(store)
    BY DEF RecoverType
  <2>2. store[k] \in Record
    BY <2>1 DEF StoreType
  <2>. QED
    BY <2>1, <2>2 DEF Record
<1>2. CASE Discard(k)
  BY <1>1, <1>2 DEF Discard, Deciding, Retrieved, Common, TypeOK
<1>3. CASE ReleaseIneligible(k)
  BY <1>1, <1>3, SettleFacts DEF ReleaseIneligible, Deciding, Common
<1>4. CASE FailClosed(k)
  BY <1>1, <1>4, SettleFacts DEF FailClosed, Deciding, Common
<1>5. CASE HandOver(k)
  BY <1>1, <1>5, SettleFacts DEF HandOver, Deciding, Common
<1>6. CASE ReleaseUnknown(k)
  BY <1>1, <1>6, SettleFacts DEF ReleaseUnknown, Resuming, Deciding, Common
<1>7. CASE RestoreFails(k)
  BY <1>1, <1>7, SettleFacts DEF RestoreFails, Resuming, Deciding, Common
<1>. QED
  BY <1>1, <1>2, <1>3, <1>4, <1>5, <1>6, <1>7 DEF Decide

----------------------------------------------------------------------------
(* Types and stages of the orchestrator's variables.                       *)

Base == TypeOK /\ Structure

LEMMA OrchestratorBase ==
  ASSUME Base, RunOnce \/ (\E i \in Issues : Worker(i)) \/ Interrupt \/ Operator
                 \/ (\E i \in Issues : BackoffElapses(i))
  PROVE  Base'
BY RunOnceType, WorkerType, OtherType, TickStructure, WorkerStructure, OtherStructure DEF Base

LEMMA StutterBase == Base /\ UNCHANGED vars => Base'
BY DEF Base, TypeOK, Structure, OneStarts, QuietWithoutWorkers, StagesOfActive, vars, github,
       env, tick, workers, retry

LEMMA ForgottenBase ==
  ASSUME Base, Forgotten, UNCHANGED <<github, env>>, phase' \in {"idle", "dead"}
  PROVE  Base'
<1>1. TypeOK'
  <2>1. /\ turns' \in [Issues -> 0..(MaxTurns - 1)]
        /\ attempts' \in [Issues -> 0..AttemptCap]
    BY OrchestratorAssumption DEF Forgotten
  <2>2. paused' \in BOOLEAN
    BY Zenon DEF Forgotten
  <2>3. /\ stage' \in [Issues -> Stage] /\ terminal' \in [Issues -> Terminal]
        /\ next' \in [Issues -> NextAt] /\ phase' \in Phase
        /\ slots' \in Int /\ pending' = {} /\ starting' = {} /\ active' = {}
    BY DEF Forgotten, Stage, Terminal, NextAt, Phase
  <2>. QED
    BY <2>1, <2>2, <2>3 DEF Base, TypeOK, github, env
<1>2. Structure'
  BY DEF Forgotten, Structure, OneStarts, QuietWithoutWorkers, StagesOfActive
<1>. QED
  BY <1>1, <1>2 DEF Base

LEMMA DecidedBase ==
  ASSUME Base, NEW k, NEW S, Decided(k, S), labels' \in [Issues -> SUBSET Label]
  PROVE  Base'
BY DEF Base, TypeOK, Structure, OneStarts, QuietWithoutWorkers, StagesOfActive, Decided,
       env, tick, workers, retry

LEMMA ResumeBase ==
  ASSUME Base, NEW k, store[k].issue \in Issues, Resume(k)
  PROVE  Base'
<1>. DEFINE i == store[k].issue
<1>1. phase = "idle" /\ active = {} /\ starting = {}
  BY DEF Base, Structure, OneStarts, QuietWithoutWorkers, Resume, Resuming, Deciding
<1>2. /\ active' = {i} /\ phase' = "gather"
      /\ stage' = [stage EXCEPT ![i] = "turn"]
      /\ UNCHANGED <<github, env, paused, pending, slots, starting, turns, terminal, retry>>
  BY <1>1 DEF Resume
<1>. HIDE DEF i
<1>3. TypeOK'
  BY <1>2 DEF Base, TypeOK, Phase, Stage, github, env, retry, i
<1>4. \A j \in Issues : stage[j] = "none"
  BY <1>1 DEF Base, Structure, StagesOfActive
<1>5. Structure'
  BY <1>1, <1>2, <1>4 DEF Base, TypeOK, Structure, OneStarts, QuietWithoutWorkers, StagesOfActive, i
<1>. QED
  BY <1>3, <1>5 DEF Base

LEMMA DeleteBase == ASSUME Base, NEW i \in Issues, Delete(i) PROVE Base'
<1>1. OperatorMoves /\ open' = open \ {i}
      /\ UNCHANGED <<labels, workflowValid, tick, workers, retry>>
  BY DEF Delete
<1>2. moves' \in 0..MaxOperatorMoves /\ policy' = policy
  BY <1>1, OrchestratorAssumption DEF OperatorMoves, Base, TypeOK
<1>. QED
  BY <1>1, <1>2 DEF Base, TypeOK, Structure, OneStarts, QuietWithoutWorkers, StagesOfActive,
                    tick, workers, retry

LEMMA IssueOfRecord ==
  ASSUME StoreType, NEW k \in 1..Len(store)
  PROVE  store[k] \in Record /\ store[k].issue \in Issues
<1>1. store[k] \in Record
  BY DEF StoreType
<1>. QED
  BY <1>1 DEF Record

\* The end of the process, of whatever it dies.
Ending == Crash \/ \E k \in todo : ResumeEscapes(k)

LEMMA EndingFacts ==
  ASSUME StoreType, DistinctPlaces, InOrder, RecoverType, Ending
  PROVE  /\ Dies /\ StoreType' /\ DistinctPlaces' /\ InOrder'
         /\ Len(store') = Len(store) /\ crashes' \in 0..MaxCrashes
<1>0. crashes \in 0..MaxCrashes /\ MaxCrashes \in Nat
  BY DaemonAssumption DEF RecoverType
<1>1. CASE Crash
  BY <1>0, <1>1 DEF Crash, Dies, disk, env, StoreType, DistinctPlaces, InOrder
<1>2. ASSUME NEW k \in todo, ResumeEscapes(k)
      PROVE  /\ Dies /\ StoreType' /\ DistinctPlaces' /\ InOrder'
             /\ Len(store') = Len(store) /\ crashes' \in 0..MaxCrashes
  <2>1. /\ Dies /\ crashes' \in 0..MaxCrashes
        /\ policy = "resume_same_session" /\ policy' = policy
    BY <1>0, <1>2 DEF ResumeEscapes, Resuming, Dies, env
  <2>2. InOrder'
    BY <2>1 DEF InOrder
  <2>3. CASE UNCHANGED disk
    BY <2>1, <2>2, <2>3 DEF disk, StoreType, DistinctPlaces
  <2>4. CASE Persist(k, store[k])
    <3>1. k \in 1..Len(store)
      BY DEF RecoverType
    <3>2. store[k] \in Record
      BY <3>1 DEF StoreType
    <3>. QED
      BY <2>1, <2>2, <2>4, <3>1, <3>2, PersistFacts
  <2>. QED
    BY <1>2, <2>3, <2>4 DEF ResumeEscapes
<1>. QED
  BY <1>1, <1>2 DEF Ending

LEMMA BaseStep == Base /\ Recoverable /\ [DaemonNext]_dvars => Base'
<1>. SUFFICES ASSUME Base, Recoverable, [DaemonNext]_dvars PROVE Base'
  OBVIOUS
<1>1. CASE UNCHANGED dvars
  BY <1>1, StutterBase DEF dvars
<1>2. CASE Tick
  <2>1. RunOnce
    BY <1>2 DEF Tick, RunOnce, Dispatch
  <2>. QED
    BY <2>1, OrchestratorBase
<1>3. CASE FetchIssues \/ FetchIssuesFails
  BY <1>3, StutterBase DEF FetchIssues, FetchIssuesFails
<1>4. CASE StampResumed
  BY <1>4, DecidedBase DEF StampResumed, Base, TypeOK
<1>5. ASSUME NEW k \in todo, Decide(k) PROVE Base'
  <2>1. CASE Resume(k)
    BY <2>1, IssueOfRecord, ResumeBase DEF Recoverable, RecoverType
  <2>2. CASE ~Resume(k)
    BY <1>5, <2>2, DecideFacts, DecidedBase DEF Recoverable, Base, Common
  <2>. QED
    BY <2>1, <2>2
<1>6. CASE Ending \/ Restart
  BY <1>6, EndingFacts, ForgottenBase DEF Dies, Restart, Recoverable
<1>7. CASE Elsewhere
  BY <1>7, OrchestratorBase DEF Elsewhere
<1>8. ASSUME NEW i \in Issues, StartSession(i) \/ FirstEvent(i) \/ Work(i) \/ Delete(i) PROVE Base'
  <2>1. CASE StartSession(i)
    BY <2>1, OrchestratorBase DEF StartSession, RunOnce, Dispatch
  <2>2. CASE FirstEvent(i)
    BY <2>2, StutterBase DEF FirstEvent
  <2>3. CASE Work(i)
    <3>1. Worker(i)
      BY <2>3 DEF Work, Worker
    <3>. QED
      BY <3>1, OrchestratorBase
  <2>4. CASE Delete(i)
    BY <2>4, DeleteBase
  <2>. QED
    BY <1>8, <2>1, <2>2, <2>3, <2>4
<1>. QED
  BY <1>1, <1>2, <1>3, <1>4, <1>5, <1>6, <1>7, <1>8 DEF DaemonNext, Recover, Ending

----------------------------------------------------------------------------
(* What recover keeps, over the steps that are not its own.                *)

LEMMA StoreKept ==
  ASSUME Recoverable, UNCHANGED <<disk, carry, todo, policy>>
  PROVE  StoreType' /\ DistinctPlaces' /\ InOrder' /\ CarryBehind'
BY DEF Recoverable, StoreType, DistinctPlaces, InOrder, CarryBehind, disk

LEMMA StutterKeeps == Recoverable /\ UNCHANGED dvars => Recoverable'
BY DEF Recoverable, StoreType, RecoverType, DistinctPlaces, Course, InOrder, CarryBehind,
       DroppedSoFar, dvars, vars, daemon, disk, decided, github, env, tick, workers

\* A tick begins when nothing is left to recover.
LEMMA TickKeeps == Base /\ Recoverable /\ Tick => Recoverable'
<1>. SUFFICES ASSUME Base, Recoverable, Tick PROVE Recoverable'
  OBVIOUS
<1>1. recovery = "none" /\ UNCHANGED daemon
  BY DEF Tick
<1>2. UNCHANGED <<open, policy>>
  BY DEF Tick, BeginTick, Reconcile, FetchCandidates, FetchFails, EndDispatch, Skip, Claim,
         StartFails, github, env
<1>3. active \subseteq active'
  <2>1. CASE Reconcile
    BY <2>1 DEF Reconcile, Base, Structure, QuietWithoutWorkers
  <2>2. CASE ~Reconcile
    BY <2>2 DEF Tick, BeginTick, FetchCandidates, FetchFails, EndDispatch, Skip, Claim,
                StartFails, workers
  <2>. QED
    BY <2>1, <2>2
<1>4. StoreType' /\ DistinctPlaces' /\ InOrder' /\ CarryBehind'
  BY <1>1, <1>2, StoreKept DEF daemon, decided
<1>5. RecoverType'
  BY <1>1, <1>2, <1>3 DEF Recoverable, RecoverType, daemon, decided, disk
<1>6. Course' /\ DroppedSoFar'
  BY <1>1 DEF Recoverable, Course, DroppedSoFar, daemon, decided
<1>. QED
  BY <1>4, <1>5, <1>6 DEF Recoverable

\* A new session is the newest record.
LEMMA StartKeeps ==
  ASSUME NEW i \in Issues PROVE Base /\ Recoverable /\ StartSession(i) => Recoverable'
<1>. SUFFICES ASSUME Base, Recoverable, StartSession(i) PROVE Recoverable'
  OBVIOUS
<1>. DEFINE n == Len(store)  r == [issue |-> i, known |-> FALSE, live |-> TRUE]
<1>1. /\ recovery = "none" /\ todo = {} /\ n < MaxSessions
      /\ store' = Append(store, r) /\ order' = Append(order, n + 1)
      /\ UNCHANGED <<heard, decided, gone, crashes>>
      /\ UNCHANGED <<open, policy>> /\ active \subseteq active'
  BY DEF StartSession, Start, Recoverable, Course, github, env
<1>2. n \in Nat /\ store \in Seq(Record) /\ order \in [1..n -> 1..n]
  BY DEF Recoverable, StoreType
<1>3. r \in Record
  BY DEF Record
<1>4. /\ store' \in Seq(Record) /\ Len(store') = n + 1
      /\ \A j \in 1..n : store'[j] = store[j]
      /\ store'[n + 1] = r
  BY <1>1, <1>2, <1>3, AppendProperties
<1>5. order \in Seq(1..n) /\ Len(order) = n
  BY <1>2, IsASeq, LenProperties
<1>6. /\ order' \in Seq(1..(n + 1)) /\ Len(order') = n + 1
      /\ \A j \in 1..n : order'[j] = order[j]
      /\ order'[n + 1] = n + 1
  <2>1. order \in Seq(1..(n + 1)) /\ n + 1 \in 1..(n + 1)
    BY <1>2, <1>5
  <2>. QED
    BY <1>1, <1>5, <2>1, AppendProperties
<1>7. order' \in [1..(n + 1) -> 1..(n + 1)]
  BY <1>2, <1>6, LenProperties
<1>8. StoreType'
  BY <1>1, <1>2, <1>4, <1>7, DaemonAssumption DEF StoreType
<1>9. DistinctPlaces'
  <2>. SUFFICES ASSUME NEW j \in 1..(n + 1), NEW k \in 1..(n + 1), order'[j] = order'[k]
                PROVE  j = k
    BY <1>4 DEF DistinctPlaces
  <2>1. \A m \in 1..n : order'[m] \in 1..n
    BY <1>2, <1>6
  <2>2. (j = n + 1 \/ j \in 1..n) /\ (k = n + 1 \/ k \in 1..n)
    BY <1>2
  <2>3. CASE j \in 1..n /\ k \in 1..n
    BY <1>6, <2>3 DEF Recoverable, DistinctPlaces
  <2>4. CASE j = n + 1 \/ k = n + 1
    BY <1>2, <1>6, <2>1, <2>2, <2>4
  <2>. QED
    BY <2>2, <2>3, <2>4
<1>10. InOrder'
  <2>. SUFFICES ASSUME policy # "resume_same_session",
                       NEW j \in 1..(n + 1), NEW k \in 1..(n + 1), j < k,
                       store'[j].issue = store'[k].issue, store'[j].live, store'[k].live
                PROVE  order'[j] < order'[k]
    BY <1>1, <1>4 DEF InOrder
  <2>1. j \in 1..n
    BY <1>2
  <2>2. CASE k = n + 1
    BY <1>2, <1>6, <2>1, <2>2
  <2>3. CASE k # n + 1
    <3>1. k \in 1..n
      BY <1>2, <2>3
    <3>. QED
      BY <1>4, <1>6, <2>1, <3>1 DEF Recoverable, InOrder
  <2>. QED
    BY <2>2, <2>3
<1>11. RecoverType'
  <2>1. carry' \in [Issues -> 0..MaxSessions]
    BY DaemonAssumption DEF StartSession, Recoverable, RecoverType
  <2>. QED
    BY <1>1, <1>2, <1>4, <2>1 DEF Recoverable, RecoverType, decided
<1>12. Course' /\ CarryBehind' /\ DroppedSoFar'
  BY <1>1 DEF Course, CarryBehind, DroppedSoFar, decided
<1>. QED
  BY <1>8, <1>9, <1>10, <1>11, <1>12 DEF Recoverable

\* The record that learns its id is the last of its issue, and stays it.
LEMMA FirstEventKeeps ==
  ASSUME NEW i \in Issues PROVE Base /\ Recoverable /\ FirstEvent(i) => Recoverable'
<1>. SUFFICES ASSUME Base, Recoverable, FirstEvent(i) PROVE Recoverable'
  OBVIOUS
<1>1. DOMAIN store = 1..Len(store) /\ Len(store) \in Nat
  BY DEF Recoverable, StoreType
<1>2. PICK k \in 1..Len(store) :
        IsRecordOf(k, i) /\ Persist(k, [store[k] EXCEPT !.known = TRUE])
  BY <1>1 DEF FirstEvent
<1>. DEFINE r == [store[k] EXCEPT !.known = TRUE]
<1>3. r \in Record /\ r.issue = store[k].issue /\ r.live = store[k].live
  <2>1. store[k] \in Record
    BY DEF Recoverable, StoreType
  <2>. QED
    BY <2>1 DEF Record
<1>4. Persist(k, r)
  BY <1>2
<1>. HIDE DEF r
<1>5. /\ StoreType' /\ DistinctPlaces' /\ Len(store') = Len(store)
      /\ \A j \in 1..Len(store) : store'[j] = IF j = k THEN r ELSE store[j]
      /\ \A a, b \in 1..Len(store) : a # k /\ b # k => (order[a] < order[b] <=> order'[a] < order'[b])
      /\ \A j \in 1..Len(store) : j # k => order'[j] < order'[k]
  BY <1>3, <1>4, PersistFacts DEF Recoverable
<1>6. \A j \in 1..Len(store) : store'[j].issue = store[j].issue /\ store'[j].live = store[j].live
  BY <1>3, <1>5
<1>7. UNCHANGED <<vars, carry, decided, gone, crashes>> /\ heard' = heard \cup {i}
  BY DEF FirstEvent
<1>8. i \in active
  BY DEF FirstEvent, Base, Structure, StagesOfActive
<1>9. InOrder'
  <2>. SUFFICES ASSUME policy # "resume_same_session",
                       NEW a \in 1..Len(store), NEW b \in 1..Len(store), a < b,
                       store[a].issue = store[b].issue, store[a].live, store[b].live
                PROVE  order'[a] < order'[b]
    BY <1>5, <1>6, <1>7 DEF InOrder, vars, env
  <2>1. order[a] < order[b]
    BY DEF Recoverable, InOrder
  <2>2. order[a] \in Nat /\ order[b] \in Nat
    BY <1>1 DEF Recoverable, StoreType
  <2>3. a # k
    BY <1>1, <1>2, <2>1, <2>2 DEF IsRecordOf
  <2>. QED
    BY <1>5, <2>1, <2>3
<1>10. RecoverType'
  BY <1>5, <1>7, <1>8 DEF Recoverable, RecoverType, vars, github, workers, decided
<1>11. todo \subseteq 1..Len(store) /\ (recovery \in {"driving", "stamping"} => resumed \in 1..Len(store))
  BY <1>1 DEF Recoverable, RecoverType, Course
<1>12. Course' /\ CarryBehind' /\ DroppedSoFar'
  BY <1>6, <1>7, <1>11 DEF Recoverable, Course, CarryBehind, DroppedSoFar, vars, github, tick, workers, decided
<1>. QED
  BY <1>5, <1>9, <1>10, <1>12 DEF Recoverable

\* A worker's steps: that of the resumed session drops the claim as it ends.
LEMMA WorkKeeps ==
  ASSUME NEW i \in Issues PROVE Base /\ Recoverable /\ Work(i) => Recoverable'
<1>. SUFFICES ASSUME Base, Recoverable, Work(i) PROVE Recoverable'
  OBVIOUS
<1>1. /\ heard' = heard \cap active'
      /\ recovery' = IF recovery = "driving" /\ phase' = "idle" THEN "stamping" ELSE recovery
      /\ UNCHANGED <<disk, carry, todo, resumed, fresh, gone, crashes>>
  BY DEF Work
<1>2. Worker(i)
  BY DEF Work, Worker
<1>3. /\ phase \in {"gather", "dying"} /\ stage[i] # "none"
      /\ UNCHANGED <<open, policy>>
      /\ \A j \in Issues : stage'[j] # "none" => stage[j] # "none"
  BY <1>2 DEF Worker, NextTurn, TurnCompletes, TurnBreaks, TurnEscapes, EndTurns, Finish,
              AbandonFinally, CancelTurn, github, env, Base, TypeOK
<1>4. phase' = "idle" => Finish(i)
  BY <1>2, <1>3 DEF Worker, NextTurn, TurnCompletes, TurnBreaks, TurnEscapes, EndTurns,
                    AbandonFinally, PhaseWithout, CancelTurn, tick
<1>5. phase' \in {"gather", "dying", "dead", "idle"}
  BY <1>2, <1>3 DEF Worker, NextTurn, TurnCompletes, TurnBreaks, TurnEscapes, EndTurns, Finish,
                    AbandonFinally, PhaseWithout, CancelTurn, tick
<1>6. CASE Finish(i)
  <2>1. PICK outcome : \E a \in Route(i, outcome) : labels' = [labels EXCEPT ![i] = a.labels]
    BY <1>6 DEF Finish
  <2>2. PICK a \in Route(i, outcome) : labels' = [labels EXCEPT ![i] = a.labels]
    BY <2>1
  <2>3. ~TrackerFaults => Running \notin a.labels
    BY RouteEffect DEF Base
  <2>4. /\ ~TrackerFaults => Running \notin labels'[i]
        /\ \A j \in Issues : j # i => labels'[j] = labels[j]
    BY <2>2, <2>3 DEF Base, TypeOK
  <2>5. recovery = "driving" => i = store[resumed].issue
    BY <1>3 DEF Recoverable, Course
  <2>6. DOMAIN fresh \subseteq Issues
    BY DEF Recoverable, RecoverType, Snapshot
  <2>7. DroppedSoFar'
    BY <1>1, <2>4, <2>5, <2>6 DEF Recoverable, DroppedSoFar, disk
  <2>. QED
    BY <1>1, <1>3, <1>5, <2>7, StoreKept
      DEF Recoverable, RecoverType, Course, Recovery, disk
<1>7. CASE ~Finish(i)
  <2>1. labels' = labels
    BY <1>2, <1>7 DEF Worker, NextTurn, TurnCompletes, TurnBreaks, TurnEscapes, EndTurns,
                      AbandonFinally, CancelTurn, github
  <2>2. recovery' = recovery
    BY <1>1, <1>4, <1>7
  <2>3. DroppedSoFar'
    BY <1>1, <2>1, <2>2 DEF Recoverable, DroppedSoFar, disk
  <2>. QED
    BY <1>1, <1>3, <1>4, <1>5, <1>7, <2>2, <2>3, StoreKept
      DEF Recoverable, RecoverType, Course, Recovery, disk
<1>. QED
  BY <1>6, <1>7

LEMMA NoAnswerType == NoAnswer \in Snapshot({}) /\ DOMAIN NoAnswer = {}
BY DEF NoAnswer, Snapshot

LEMMA EndingKeeps == Base /\ Recoverable /\ Ending => Recoverable'
<1>. SUFFICES ASSUME Base, Recoverable, Ending PROVE Recoverable'
  OBVIOUS
<1>1. /\ Dies /\ StoreType' /\ DistinctPlaces' /\ InOrder'
      /\ Len(store') = Len(store) /\ crashes' \in 0..MaxCrashes
  BY EndingFacts DEF Recoverable
<1>2. /\ heard' = {} /\ active' = {} /\ carry' = [i \in Issues |-> 0] /\ resumed' = 0
      /\ fresh' = NoAnswer /\ todo' = {} /\ recovery' = "none"
  BY <1>1 DEF Dies, Forgotten
<1>3. RecoverType'
  <2>1. carry' \in [Issues -> 0..MaxSessions]
    BY <1>2, DaemonAssumption
  <2>2. resumed' \in 0..Len(store')
    BY <1>1, <1>2 DEF StoreType
  <2>3. \E S \in SUBSET Issues : fresh' \in Snapshot(S)
    BY <1>2, NoAnswerType
  <2>4. gone' \in SUBSET (Issues \ open')
    BY <1>1 DEF Dies, Recoverable, RecoverType, github
  <2>. QED
    BY <1>1, <1>2, <2>1, <2>2, <2>3, <2>4 DEF RecoverType, Recovery
<1>4. Course' /\ DroppedSoFar' /\ CarryBehind'
  BY <1>2 DEF Course, DroppedSoFar, CarryBehind
<1>. QED
  BY <1>1, <1>3, <1>4 DEF Recoverable

LEMMA RestartKeeps == Base /\ Recoverable /\ Restart => Recoverable'
<1>. SUFFICES ASSUME Base, Recoverable, Restart PROVE Recoverable'
  OBVIOUS
<1>1. Forgotten /\ UNCHANGED <<github, env, disk, gone, crashes>>
  BY DEF Restart
<1>2. /\ todo' \subseteq {k \in 1..Len(store) : store[k].live}
      /\ recovery' = IF todo' = {} THEN "none" ELSE "found"
      /\ phase' = "idle"
      /\ crashes' \in 0..MaxCrashes
  <2>1. DOMAIN store = 1..Len(store)
    BY DEF Recoverable, StoreType
  <2>. QED
    BY <2>1 DEF Restart, Recoverable, RecoverType
<1>3. /\ heard' = {} /\ active' = {} /\ carry' = [i \in Issues |-> 0] /\ resumed' = 0
      /\ fresh' = NoAnswer
  BY <1>1 DEF Forgotten
<1>4. StoreType' /\ DistinctPlaces' /\ InOrder' /\ Len(store) \in Nat
  BY <1>1 DEF Recoverable, StoreType, DistinctPlaces, InOrder, disk, env
<1>5. CarryBehind'
  <2>. SUFFICES ASSUME NEW k \in todo' PROVE carry'[store'[k].issue] <= k
    BY DEF CarryBehind
  <2>1. k \in 1..Len(store) /\ store' = store
    BY <1>1, <1>2 DEF disk
  <2>2. store[k].issue \in Issues
    BY <2>1, IssueOfRecord DEF Recoverable
  <2>. QED
    BY <1>3, <1>4, <2>1, <2>2
<1>6. RecoverType'
  <2>1. carry' \in [Issues -> 0..MaxSessions]
    BY <1>3, DaemonAssumption
  <2>2. todo' \subseteq 1..Len(store') /\ resumed' \in 0..Len(store')
    BY <1>1, <1>2, <1>3, <1>4 DEF disk
  <2>3. \E S \in SUBSET Issues : fresh' \in Snapshot(S)
    BY <1>3, NoAnswerType
  <2>4. gone' \in SUBSET (Issues \ open')
    BY <1>1 DEF Recoverable, RecoverType, github
  <2>. QED
    BY <1>2, <1>3, <2>1, <2>2, <2>3, <2>4 DEF RecoverType, Recovery
<1>7. Course' /\ DroppedSoFar'
  BY <1>1, <1>2, <1>3 DEF Course, DroppedSoFar, disk
<1>. QED
  BY <1>4, <1>5, <1>6, <1>7 DEF Recoverable

\* What the operator, an interrupt or the clock does: no claim is added.
LEMMA ElsewhereKeeps == Base /\ Recoverable /\ Elsewhere => Recoverable'
<1>. SUFFICES ASSUME Base, Recoverable, Elsewhere PROVE Recoverable'
  OBVIOUS
<1>1. UNCHANGED daemon
  BY DEF Elsewhere
<1>2. /\ UNCHANGED <<active, stage, policy>>
      /\ \A i \in Issues : Running \in labels'[i] => Running \in labels[i]
      /\ gone \in SUBSET (Issues \ open')
  <2>1. CASE Operator /\ open' \cap gone = {}
    <3>1. UNCHANGED <<active, stage, policy>>
      BY <2>1 DEF Operator, EditWorkflow, Enqueue, Exempt, CloseOrReopen, OperatorMoves, workers
    <3>2. \A i \in Issues : Running \in labels'[i] => Running \in labels[i]
      BY <2>1, LabelNames DEF Operator, EditWorkflow, Enqueue, Exempt, CloseOrReopen, github, Base, TypeOK
    <3>. QED
      BY <2>1, <3>1, <3>2 DEF Recoverable, RecoverType
  <2>2. CASE Interrupt \/ \E i \in Issues : BackoffElapses(i)
    BY <2>2 DEF Interrupt, BackoffElapses, github, workers, env, Recoverable, RecoverType
  <2>. QED
    BY <2>1, <2>2 DEF Elsewhere
<1>3. phase' = phase \/ phase' = IF phase = "gather" THEN "dying" ELSE "dead"
  BY DEF Elsewhere, Operator, EditWorkflow, Enqueue, Exempt, CloseOrReopen, Interrupt,
         BackoffElapses, tick
<1>4. DOMAIN fresh \subseteq Issues
  BY DEF Recoverable, RecoverType, Snapshot
<1>5. StoreType' /\ DistinctPlaces' /\ InOrder' /\ CarryBehind'
  BY <1>1, <1>2, StoreKept DEF daemon, decided
<1>6. RecoverType'
  BY <1>1, <1>2 DEF Recoverable, RecoverType, daemon, disk, decided
<1>7. Course'
  BY <1>1, <1>2, <1>3 DEF Recoverable, Course, daemon, disk, decided
<1>8. DroppedSoFar'
  BY <1>1, <1>2, <1>4 DEF Recoverable, DroppedSoFar, daemon, disk, decided
<1>. QED
  BY <1>5, <1>6, <1>7, <1>8 DEF Recoverable

LEMMA DeleteKeeps ==
  ASSUME NEW i \in Issues PROVE Base /\ Recoverable /\ Delete(i) => Recoverable'
<1>. SUFFICES ASSUME Base, Recoverable, Delete(i) PROVE Recoverable'
  OBVIOUS
<1>1. /\ gone' = gone \cup {i} /\ open' = open \ {i}
      /\ UNCHANGED <<policy, labels, tick, workers, disk, heard, carry, decided, crashes>>
  BY DEF Delete, OperatorMoves
<1>2. StoreType' /\ DistinctPlaces' /\ InOrder' /\ CarryBehind'
  BY <1>1, StoreKept DEF decided
<1>3. RecoverType'
  BY <1>1 DEF Recoverable, RecoverType, disk, decided, workers
<1>4. Course' /\ DroppedSoFar'
  BY <1>1 DEF Recoverable, Course, DroppedSoFar, disk, decided, tick, workers
<1>. QED
  BY <1>2, <1>3, <1>4 DEF Recoverable

----------------------------------------------------------------------------
(* The steps of recover.                                                   *)

LEMMA FetchKeeps == Base /\ Recoverable /\ FetchIssues => Recoverable'
<1>. SUFFICES ASSUME Base, Recoverable, FetchIssues PROVE Recoverable'
  OBVIOUS
<1>. DEFINE asked == {store[k].issue : k \in todo} \ gone
<1>1. /\ recovery = "found" /\ phase = "idle" /\ recovery' = "deciding"
      /\ fresh' = [i \in asked |-> [open |-> i \in open, labels |-> labels[i]]]
      /\ UNCHANGED <<vars, disk, heard, carry, todo, resumed, gone, crashes>>
  BY DEF FetchIssues
<1>2. \A k \in todo : store[k].issue \in Issues
  BY IssueOfRecord DEF Recoverable, RecoverType
<1>3. asked \in SUBSET Issues
  BY <1>2
<1>4. fresh' \in Snapshot(asked) /\ DOMAIN fresh' = asked
  BY <1>1, <1>3 DEF Snapshot, Base, TypeOK
<1>5. \A i \in DOMAIN fresh' : \E k \in todo : store[k].issue = i
  BY <1>4
<1>. HIDE DEF asked
<1>6. StoreType' /\ DistinctPlaces' /\ InOrder' /\ CarryBehind'
  BY <1>1, StoreKept DEF vars, env
<1>7. RecoverType'
  BY <1>1, <1>3, <1>4 DEF Recoverable, RecoverType, Recovery, vars, disk, github, workers
<1>8. Course'
  BY <1>1 DEF Recoverable, Course, vars, disk, tick
<1>9. DroppedSoFar'
  BY <1>1, <1>5 DEF DroppedSoFar, disk
<1>. QED
  BY <1>6, <1>7, <1>8, <1>9 DEF Recoverable

LEMMA FetchFailsKeeps == Base /\ Recoverable /\ FetchIssuesFails => Recoverable'
<1>. SUFFICES ASSUME Base, Recoverable, FetchIssuesFails PROVE Recoverable'
  OBVIOUS
<1>1. /\ recovery' = "none" /\ todo' = {}
      /\ store' = [k \in DOMAIN store |-> [store[k] EXCEPT !.live = FALSE]]
      /\ UNCHANGED <<vars, order, heard, carry, resumed, fresh, gone, crashes>>
  BY DEF FetchIssuesFails
<1>2. DOMAIN store = 1..Len(store) /\ Len(store) \in Nat
  BY DEF Recoverable, StoreType
<1>3. \A k \in 1..Len(store) : [store[k] EXCEPT !.live = FALSE] \in Record
  <2>. SUFFICES ASSUME NEW k \in 1..Len(store) PROVE [store[k] EXCEPT !.live = FALSE] \in Record
    OBVIOUS
  <2>1. store[k] \in Record
    BY DEF Recoverable, StoreType
  <2>. QED
    BY <2>1 DEF Record
<1>4. store' \in [1..Len(store) -> Record]
  BY <1>1, <1>2, <1>3
<1>5. store' \in Seq(Record) /\ Len(store') = Len(store)
  BY <1>2, <1>4, IsASeq, LenProperties
<1>6. \A k \in 1..Len(store) : store'[k].live = FALSE
  <2>. SUFFICES ASSUME NEW k \in 1..Len(store) PROVE store'[k].live = FALSE
    OBVIOUS
  <2>1. store[k] \in Record /\ store'[k] = [store[k] EXCEPT !.live = FALSE]
    BY <1>1, <1>2 DEF Recoverable, StoreType
  <2>. QED
    BY <2>1 DEF Record
<1>7. StoreType' /\ DistinctPlaces'
  BY <1>1, <1>5 DEF Recoverable, StoreType, DistinctPlaces
<1>8. InOrder' /\ CarryBehind'
  BY <1>1, <1>5, <1>6 DEF InOrder, CarryBehind
<1>9. RecoverType'
  BY <1>1, <1>5 DEF Recoverable, RecoverType, Recovery, vars, github, workers
<1>10. Course' /\ DroppedSoFar'
  BY <1>1 DEF Course, DroppedSoFar
<1>. QED
  BY <1>7, <1>8, <1>9, <1>10 DEF Recoverable

\* A record is decided, and stamped; what is left was not touched.
LEMMA DecidedKeeps ==
  ASSUME Base, Recoverable, NEW k \in 1..Len(store), NEW S \in SUBSET (todo \ {k}),
         Decided(k, S), carry' \in [Issues -> 0..MaxSessions],
         recovery \in {"deciding", "stamping"}, phase = "idle",
         \A j \in S : carry'[store[j].issue] <= j,
         ~TrackerFaults =>
           \A i \in DOMAIN fresh : Running \in labels'[i] => \E j \in S : store[j].issue = i
  PROVE  Recoverable'
<1>1. /\ Stamp(k) /\ todo' = S /\ resumed' = 0
      /\ recovery' = IF S = {} THEN "none" ELSE "deciding"
      /\ fresh' = IF S = {} THEN NoAnswer ELSE fresh
      /\ UNCHANGED <<open, env, tick, workers, retry, heard, gone, crashes>>
  BY DEF Decided
<1>2. /\ StoreType' /\ DistinctPlaces' /\ InOrder'
      /\ Len(store') = Len(store)
      /\ \A j \in 1..Len(store) : store'[j].issue = store[j].issue
      /\ \A j \in 1..Len(store) : j # k => store'[j] = store[j]
  BY <1>1, StampFacts DEF Recoverable, env
<1>3. S \subseteq 1..Len(store) /\ Len(store) \in Nat
  BY DEF Recoverable, RecoverType, StoreType
<1>4. RecoverType'
  <2>1. \E T \in SUBSET Issues : fresh' \in Snapshot(T)
    BY <1>1, NoAnswerType DEF Recoverable, RecoverType
  <2>. QED
    BY <1>1, <1>2, <1>3, <2>1 DEF Recoverable, RecoverType, Recovery, workers
<1>5. CarryBehind'
  BY <1>1, <1>2, <1>3 DEF CarryBehind
<1>6. Course'
  BY <1>1, <1>2, <1>3 DEF Recoverable, Course, tick
<1>7. DroppedSoFar'
  BY <1>1, <1>2, <1>3 DEF DroppedSoFar
<1>. QED
  BY <1>2, <1>4, <1>5, <1>6, <1>7 DEF Recoverable

LEMMA StampKeeps == Base /\ Recoverable /\ StampResumed => Recoverable'
<1>. SUFFICES ASSUME Base, Recoverable, StampResumed PROVE Recoverable'
  OBVIOUS
<1>1. /\ recovery = "stamping" /\ phase = "idle" /\ Decided(resumed, todo)
      /\ UNCHANGED <<labels, carry>>
  BY DEF StampResumed
<1>2. resumed \in 1..Len(store) /\ todo \in SUBSET (todo \ {resumed})
  <2>1. resumed # 0 /\ resumed \notin todo /\ resumed \in 0..Len(store) /\ Len(store) \in Nat
    BY <1>1 DEF Recoverable, Course, RecoverType, StoreType
  <2>. QED
    BY <2>1
<1>3. ~TrackerFaults =>
        \A i \in DOMAIN fresh : Running \in labels'[i] => \E j \in todo : store[j].issue = i
  BY <1>1 DEF Recoverable, DroppedSoFar
<1>4. \A j \in todo : carry'[store[j].issue] <= j
  BY <1>1 DEF Recoverable, CarryBehind
<1>5. carry' \in [Issues -> 0..MaxSessions]
  BY <1>1 DEF Recoverable, RecoverType
<1>. QED
  BY <1>1, <1>2, <1>3, <1>4, <1>5, DecidedKeeps

\* A session that is handed over is older than those still to be decided,
\* and every claim is dropped with the decision on its record.
LEMMA CommonFacts ==
  ASSUME Base, Recoverable, NEW k \in todo, Common(k)
  PROVE  /\ carry' \in [Issues -> 0..MaxSessions]
         /\ \A j \in todo \ {k} : carry'[store[j].issue] <= j
         /\ \A i \in Issues : carry'[i] >= carry[i]
         /\ ~TrackerFaults => \A i \in DOMAIN fresh :
              Running \in labels'[i] => \E j \in todo \ {k} : store[j].issue = i
<1>1. /\ IsNext(k) /\ recovery = "deciding"
      /\ \A i \in Issues : i # store[k].issue => labels'[i] = labels[i]
      /\ store[k].issue \in DOMAIN fresh /\ ~TrackerFaults => Running \notin labels'[store[k].issue]
      /\ \/ carry' = carry
         \/ /\ policy = "new_session_with_summary"
            /\ carry' = [carry EXCEPT ![store[k].issue] = k]
  BY DEF Common
<1>2. /\ Len(store) \in Nat /\ Len(store) <= MaxSessions /\ todo \subseteq 1..Len(store)
      /\ order \in [1..Len(store) -> 1..Len(store)]
      /\ carry \in [Issues -> 0..MaxSessions] /\ DOMAIN fresh \subseteq Issues
      /\ MaxSessions \in Nat
  BY DaemonAssumption DEF Recoverable, StoreType, RecoverType, Snapshot
<1>3. \A j \in todo : store[j].issue \in Issues /\ store[j].live /\ carry[store[j].issue] <= j
  BY <1>2, IssueOfRecord DEF Recoverable, CarryBehind, Course
<1>4. ~TrackerFaults => \A i \in DOMAIN fresh :
        Running \in labels'[i] => \E j \in todo \ {k} : store[j].issue = i
  BY <1>1, <1>2 DEF Recoverable, DroppedSoFar
<1>5. CASE carry' = carry
  BY <1>2, <1>3, <1>4, <1>5
<1>6. CASE policy = "new_session_with_summary" /\ carry' = [carry EXCEPT ![store[k].issue] = k]
  <2>1. carry' \in [Issues -> 0..MaxSessions] /\ \A i \in Issues : carry'[i] >= carry[i]
    BY <1>2, <1>3, <1>6
  <2>2. ASSUME NEW j \in todo \ {k} PROVE carry'[store[j].issue] <= j
    <3>1. CASE store[j].issue # store[k].issue
      BY <1>3, <1>6, <3>1
    <3>2. CASE store[j].issue = store[k].issue
      <4>1. order[k] <= order[j]
        BY <1>1 DEF IsNext
      <4>2. ~(j < k)
        <5>. SUFFICES ASSUME j < k PROVE FALSE
          OBVIOUS
        <5>1. order[j] < order[k]
          BY <1>2, <1>3, <1>6, <3>2 DEF Recoverable, InOrder
        <5>. QED
          BY <1>2, <4>1, <5>1
      <4>. QED
        BY <1>2, <1>3, <1>6, <3>2, <4>2
    <3>. QED
      BY <3>1, <3>2
  <2>. QED
    BY <1>4, <2>1, <2>2
<1>. QED
  BY <1>1, <1>5, <1>6

\* The record of a session that is resumed goes to the end of the store.
LEMMA ResumeKeeps ==
  ASSUME NEW k \in todo PROVE Base /\ Recoverable /\ Resume(k) => Recoverable'
<1>. SUFFICES ASSUME Base, Recoverable, Resume(k) PROVE Recoverable'
  OBVIOUS
<1>. DEFINE i == store[k].issue
<1>1. /\ recovery = "deciding" /\ phase = "idle" /\ policy = "resume_same_session"
      /\ i \in DOMAIN fresh
      /\ Persist(k, store[k])
      /\ active' = active \cup {i} /\ heard' = heard \cup {i}
      /\ stage' = [stage EXCEPT ![i] = "turn"]
      /\ phase' = "gather" /\ recovery' = "driving" /\ resumed' = k /\ todo' = todo \ {k}
      /\ UNCHANGED <<github, env, carry, fresh, gone, crashes>>
  BY DEF Resume, Resuming, Deciding, Retrieved
<1>2. k \in 1..Len(store) /\ store[k] \in Record /\ i \in Issues /\ Len(store) \in Nat
  BY IssueOfRecord DEF Recoverable, RecoverType, StoreType
<1>3. /\ StoreType' /\ DistinctPlaces' /\ Len(store') = Len(store)
      /\ \A j \in 1..Len(store) : store'[j] = store[j]
  BY <1>1, <1>2, PersistFacts DEF Recoverable
<1>4. InOrder'
  BY <1>1 DEF InOrder, env
<1>5. todo \subseteq 1..Len(store)
  BY DEF Recoverable, RecoverType
<1>6. CarryBehind'
  BY <1>1, <1>3, <1>5 DEF Recoverable, CarryBehind
<1>7. RecoverType'
  BY <1>1, <1>2, <1>3 DEF Recoverable, RecoverType, Recovery, github
<1>8. \A j \in Issues : stage[j] = "none"
  BY <1>1 DEF Base, TypeOK, Structure, QuietWithoutWorkers, StagesOfActive
<1>9. Course'
  <2>1. \A j \in Issues : stage'[j] # "none" => j = store'[resumed'].issue
    BY <1>1, <1>2, <1>3, <1>8 DEF Base, TypeOK
  <2>. QED
    BY <1>1, <1>2, <1>3, <1>5, <2>1 DEF Recoverable, Course
<1>10. DroppedSoFar'
  BY <1>1, <1>2, <1>3, <1>5 DEF Recoverable, DroppedSoFar, github
<1>. QED
  BY <1>3, <1>4, <1>6, <1>7, <1>9, <1>10 DEF Recoverable

LEMMA DecideKeeps ==
  ASSUME NEW k \in todo PROVE Base /\ Recoverable /\ Decide(k) => Recoverable'
<1>. SUFFICES ASSUME Base, Recoverable, Decide(k) PROVE Recoverable'
  OBVIOUS
<1>1. CASE Resume(k)
  BY <1>1, ResumeKeeps
<1>2. CASE ~Resume(k)
  <2>1. k \in 1..Len(store) /\ Common(k)
    BY <1>2, DecideFacts DEF Base, Recoverable
  <2>2. recovery = "deciding" /\ phase = "idle" /\ Decided(k, todo \ {k})
    BY <2>1 DEF Common
  <2>. QED
    BY <2>1, <2>2, CommonFacts, DecidedKeeps
<1>. QED
  BY <1>1, <1>2

----------------------------------------------------------------------------
(* The theorems.                                                           *)

LEMMA DaemonInitial == DaemonInit => Base /\ Recoverable
<1>. SUFFICES ASSUME DaemonInit PROVE Base /\ Recoverable
  OBVIOUS
<1>1. Base
  BY InitType DEF DaemonInit, Init, Base, Structure, OneStarts, QuietWithoutWorkers, StagesOfActive
<1>2. store = <<>> /\ order = <<>> /\ todo = {} /\ recovery = "none"
  BY DEF DaemonInit
<1>3. store \in Seq(Record) /\ Len(store) = 0
  BY <1>2, EmptySeq
<1>4. order \in [1..0 -> 1..0]
  <2>1. order \in Seq(1..0) /\ Len(order) = 0
    BY <1>2, EmptySeq
  <2>. QED
    BY <2>1, LenProperties
<1>5. StoreType /\ DistinctPlaces /\ InOrder
  BY <1>3, <1>4, DaemonAssumption DEF StoreType, DistinctPlaces, InOrder
<1>6. RecoverType
  <2>1. carry \in [Issues -> 0..MaxSessions] /\ crashes \in 0..MaxCrashes
    BY DaemonAssumption DEF DaemonInit
  <2>2. \E S \in SUBSET Issues : fresh \in Snapshot(S)
    BY NoAnswerType DEF DaemonInit
  <2>. QED
    BY <1>3, <2>1, <2>2 DEF DaemonInit, RecoverType, Recovery
<1>7. Course /\ CarryBehind /\ DroppedSoFar
  BY <1>2 DEF Course, CarryBehind, DroppedSoFar
<1>. QED
  BY <1>1, <1>5, <1>6, <1>7 DEF Recoverable

LEMMA RecoverableStep == Base /\ Recoverable /\ [DaemonNext]_dvars => Recoverable'
<1>1. Base /\ Recoverable /\ Recover => Recoverable'
  BY FetchKeeps, FetchFailsKeeps, StampKeeps, DecideKeeps, EndingKeeps DEF Recover, Ending
<1>. QED
  BY <1>1, StutterKeeps, TickKeeps, StartKeeps, FirstEventKeeps, WorkKeeps, EndingKeeps,
     RestartKeeps, ElsewhereKeeps, DeleteKeeps DEF DaemonNext, Ending

\* Over crashes, restarts and recoveries the records keep their order, the
\* carryover stays behind what is still to be decided, and every claim that is
\* not dropped yet has such a record.
THEOREM DaemonInductiveCorrect == DaemonSpec => [](Base /\ Recoverable)
BY DaemonInitial, BaseStep, RecoverableStep, PTL DEF DaemonSpec

\* Every variable keeps its type, those of the orchestrator included.
THEOREM DaemonTypeCorrect == DaemonSpec => []DaemonTypeOK
<1>1. Base /\ Recoverable => DaemonTypeOK
  BY DEF Base, Recoverable, StoreType, RecoverType, DaemonTypeOK
<1>. QED
  BY <1>1, DaemonInductiveCorrect, PTL

\* When no call fails, recovery leaves no claim on an issue it has looked at.
THEOREM RecoveryReleasesClaimsCorrect == DaemonSpec => RecoveryReleasesClaims
<1>. DEFINE Returned == RecoveryReturns /\ ~TrackerFaults =>
              \A i \in DOMAIN fresh \ gone : Running \notin labels'[i]
<1>1. Base /\ Recoverable /\ [DaemonNext]_dvars => [Returned]_dvars
  <2>. SUFFICES ASSUME Base, Recoverable, DaemonNext, RecoveryReturns, ~TrackerFaults,
                       NEW i \in DOMAIN fresh
                PROVE  Running \notin labels'[i]
    OBVIOUS
  <2>1. recovery # "none" /\ recovery' = "none" /\ phase = "idle" /\ phase' = "idle"
    BY DEF RecoveryReturns
  <2>2. Recover
    BY <2>1 DEF DaemonNext, Tick, Elsewhere, Crash, Dies, Restart, StartSession, FirstEvent, Work,
                Delete, daemon, decided
  <2>3. CASE FetchIssuesFails
    BY <2>3, NoAnswerType DEF FetchIssuesFails, Recoverable, Course
  <2>4. CASE StampResumed
    BY <2>1, <2>4 DEF StampResumed, Decided, Recoverable, DroppedSoFar
  <2>5. ASSUME NEW k \in todo, Decide(k) PROVE Running \notin labels'[i]
    <3>1. ~Resume(k)
      BY <2>1 DEF Resume
    <3>2. Common(k)
      BY <2>5, <3>1, DecideFacts DEF Base, Recoverable
    <3>3. todo \ {k} = {}
      BY <2>1, <3>2 DEF Common, Decided
    <3>. QED
      BY <3>2, <3>3, CommonFacts
  <2>. QED
    BY <2>1, <2>2, <2>3, <2>4, <2>5 DEF Recover, FetchIssues, ResumeEscapes, Dies
<1>. QED
  BY <1>1, DaemonInductiveCorrect, PTL DEF DaemonSpec, RecoveryReleasesClaims

\* The carryover never goes back to an older session.
THEOREM CarryNeverGoesBackCorrect == DaemonSpec => CarryNeverGoesBack
<1>. DEFINE Forward == recovery = "deciding" /\ phase # "dead" /\ phase' # "dead" =>
              \A i \in Issues : carry'[i] >= carry[i]
<1>1. Base /\ Recoverable /\ [DaemonNext]_dvars => [Forward]_dvars
  <2>. SUFFICES ASSUME Base, Recoverable, DaemonNext, recovery = "deciding", phase # "dead",
                       phase' # "dead"
                PROVE  \A i \in Issues : carry'[i] >= carry[i]
    OBVIOUS
  <2>1. carry \in [Issues -> 0..MaxSessions] /\ MaxSessions \in Nat
    BY DaemonAssumption DEF Recoverable, RecoverType
  <2>2. CASE carry' = carry
    BY <2>1, <2>2
  <2>3. ASSUME NEW k \in todo, Decide(k) PROVE \A i \in Issues : carry'[i] >= carry[i]
    <3>1. CASE Resume(k)
      BY <2>2, <3>1 DEF Resume
    <3>2. CASE ~Resume(k)
      BY <2>3, <3>2, DecideFacts, CommonFacts DEF Base, Recoverable
    <3>. QED
      BY <3>1, <3>2
  <2>. QED
    BY <2>2, <2>3 DEF DaemonNext, Recover, FetchIssues, FetchIssuesFails, StampResumed, Tick,
                      Elsewhere, Crash, ResumeEscapes, Dies, Restart, StartSession, FirstEvent,
                      Work, Delete, daemon
<1>. QED
  BY <1>1, DaemonInductiveCorrect, PTL DEF DaemonSpec, CarryNeverGoesBack

----------------------------------------------------------------------------
(* The limits, the claims and the settled issues over crashes and          *)
(* recoveries.                                                             *)

\* The worker that recover drives has no slot, may have no claim, and is alone.
Alone == recovery = "driving" => active \subseteq {store[resumed].issue} /\ starting = {}

\* At any other time the daemon is where one that never recovers can be.
Ticking == recovery # "driving" => Inductive

\* A daemon with nobody at work is in order, whatever it did before.
LEMMA QuietIsInductive ==
  ASSUME Base', active' = {}, starting' = {}, phase' # "dispatch"
  PROVE  Inductive'
<1>1. Cardinality({}) = 0
  BY FS_EmptySet
<1>2. ASSUME NEW l \in Lanes PROVE Cardinality({i \in active' : LaneOf[i] = l}) <= LaneLimit[l]
  <2>1. {i \in active' : LaneOf[i] = l} = {}
    OBVIOUS
  <2>. QED
    BY <1>1, <2>1, OrchestratorAssumption
<1>3. ConcurrencyBound' /\ LaneBound'
  BY <1>1, <1>2, OrchestratorAssumption DEF ConcurrencyBound, LaneBound
<1>. QED
  BY <1>3 DEF Base, Structure, Inductive, RoomInLane, WorkOnlyUnderClaim, Held

\* What is not a step of the orchestrator itself: an issue leaves GitHub, a
\* record is written or decided, the process ends, a session is resumed.
Aside ==
  \/ \E i \in Issues : Delete(i) \/ FirstEvent(i)
  \/ FetchIssues \/ FetchIssuesFails
  \/ Ending \/ Restart
  \/ phase = "idle" /\ \E k, S : Decided(k, S)
  \/ \E k \in 1..Len(store) : Resume(k)

\* Every step of the daemon is one of the orchestrator's, or one of these.
LEMMA StepKinds ==
  ASSUME Base, Recoverable, DaemonNext
  PROVE  Tick \/ Elsewhere \/ Aside \/ \E i \in Issues : StartSession(i) \/ Work(i)
<1>1. ASSUME NEW k \in todo, Decide(k) PROVE Aside
  <2>1. k \in 1..Len(store)
    BY DEF Recoverable, RecoverType
  <2>2. CASE ~Resume(k)
    BY <1>1, <2>2, DecideFacts DEF Base, Recoverable, Common, Aside
  <2>. QED
    BY <2>1, <2>2 DEF Aside
<1>2. CASE StampResumed
  BY <1>2 DEF StampResumed, Aside
<1>. QED
  BY <1>1, <1>2 DEF DaemonNext, Recover, Ending, Aside

LEMMA AsideTicks ==
  ASSUME Base, Base', Recoverable, Recoverable', Ticking, Alone, Aside
  PROVE  Ticking' /\ Alone'
<1>1. ASSUME NEW i \in Issues, Delete(i) PROVE Ticking' /\ Alone'
  BY <1>1 DEF Delete, Ticking, Alone, Base, Structure, Inductive, RoomInLane, LaneOpen, Held,
              WorkOnlyUnderClaim, ConcurrencyBound, LaneBound, tick, workers, disk, decided
<1>2. ASSUME NEW i \in Issues, FirstEvent(i) PROVE Ticking' /\ Alone'
  <2>1. UNCHANGED <<vars, recovery, resumed>>
    BY <1>2 DEF FirstEvent, decided
  <2>2. Ticking'
    BY <2>1, InductiveStep DEF Ticking
  <2>0. DOMAIN store = 1..Len(store)
    BY DEF Recoverable, StoreType
  <2>3. PICK k \in 1..Len(store) : Persist(k, [store[k] EXCEPT !.known = TRUE])
    BY <1>2, <2>0 DEF FirstEvent
  <2>4. store[k] \in Record
    BY DEF Recoverable, StoreType
  <2>5. [store[k] EXCEPT !.known = TRUE] \in Record /\ [store[k] EXCEPT !.known = TRUE].issue = store[k].issue
    BY <2>4 DEF Record
  <2>6. \A j \in 1..Len(store) : store'[j].issue = store[j].issue
    BY <2>3, <2>5, PersistFacts DEF Recoverable
  <2>7. recovery = "driving" => resumed \in 1..Len(store)
    BY DEF Recoverable, RecoverType, Course, StoreType
  <2>. QED
    BY <2>1, <2>2, <2>6, <2>7 DEF Alone, vars, tick, workers
<1>3. CASE FetchIssues \/ FetchIssuesFails
  <2>1. UNCHANGED vars /\ recovery # "driving" /\ recovery' # "driving"
    BY <1>3 DEF FetchIssues, FetchIssuesFails
  <2>. QED
    BY <2>1, InductiveStep DEF Ticking, Alone
<1>4. CASE Ending \/ Restart
  <2>1. recovery' # "driving" /\ active' = {} /\ starting' = {} /\ phase' # "dispatch"
    BY <1>4, EndingFacts DEF Recoverable, Dies, Restart, Forgotten
  <2>. QED
    BY <2>1, QuietIsInductive DEF Ticking, Alone
<1>5. ASSUME NEW k, NEW S, Decided(k, S), phase = "idle" PROVE Ticking' /\ Alone'
  <2>1. active = {} /\ starting = {}
    BY <1>5 DEF Base, Structure, OneStarts, QuietWithoutWorkers
  <2>2. recovery' # "driving" /\ active' = {} /\ starting' = {} /\ phase' # "dispatch"
    BY <1>5, <2>1 DEF Decided, tick, workers
  <2>. QED
    BY <2>2, QuietIsInductive DEF Ticking, Alone
<1>6. ASSUME NEW k \in 1..Len(store), Resume(k) PROVE Ticking' /\ Alone'
  <2>1. active = {} /\ starting = {}
    BY <1>6 DEF Base, Structure, OneStarts, QuietWithoutWorkers, Resume, Resuming, Deciding
  <2>2. store[k] \in Record /\ Persist(k, store[k])
    BY <1>6 DEF Resume, Recoverable, StoreType
  <2>3. store'[k] = store[k]
    BY <2>2, PersistFacts DEF Recoverable
  <2>. QED
    BY <1>6, <2>1, <2>3 DEF Resume, Ticking, Alone
<1>. QED
  BY <1>1, <1>2, <1>3, <1>4, <1>5, <1>6 DEF Aside

\* Workers only leave, and nobody is being started, outside of _dispatch.
LEMMA WorkersLeave ==
  ASSUME Base
  PROVE  /\ \A i \in Issues : Worker(i) => active' \subseteq active /\ starting' = starting
         /\ Elsewhere => active' = active /\ starting' = starting
<1>1. ASSUME NEW i \in Issues, Worker(i) PROVE active' \subseteq active /\ starting' = starting
  BY <1>1 DEF Worker, NextTurn, TurnCompletes, TurnEscapes, TurnBreaks, EndTurns, Finish, AbandonFinally,
              CancelTurn, tick, workers, retry
<1>2. ASSUME Elsewhere PROVE active' = active /\ starting' = starting
  BY <1>2 DEF Elsewhere, Interrupt, BackoffElapses, Operator, Enqueue, Exempt, CloseOrReopen, EditWorkflow,
              tick, workers, retry
<1>. QED
  BY <1>1, <1>2

\* While recover drives a session its worker goes on, or ends.
LEMMA WorkTicks ==
  ASSUME Base, Base', Recoverable, Ticking, Alone, NEW i \in Issues, Work(i)
  PROVE  Ticking' /\ Alone'
<1>1. Worker(i) /\ UNCHANGED <<store, resumed>>
  BY DEF Work, Worker, disk
<1>2. CASE recovery # "driving"
  <2>1. recovery' # "driving" /\ Next
    BY <1>1, <1>2 DEF Work, Next
  <2>. QED
    BY <1>2, <2>1, InductiveStep DEF Ticking, Alone
<1>3. CASE recovery = "driving"
  <2>1. active' \subseteq {store[resumed].issue} /\ starting' = {}
    BY <1>1, <1>3, WorkersLeave DEF Alone
  <2>2. CASE recovery' = "driving"
    BY <1>1, <2>1, <2>2 DEF Ticking, Alone
  <2>3. CASE recovery' # "driving"
    <3>1. phase' = "idle"
      BY <1>3, <2>3 DEF Work
    <3>2. active' = {}
      BY <3>1 DEF Base, Structure, QuietWithoutWorkers
    <3>. QED
      BY <2>1, <2>3, <3>1, <3>2, QuietIsInductive DEF Ticking, Alone
  <2>. QED
    BY <2>2, <2>3
<1>. QED
  BY <1>2, <1>3

\* A tick keeps the invariant; while recover drives, nothing else starts anybody.
LEMMA OwnTicks ==
  ASSUME Base, Recoverable, Ticking, Alone, Tick \/ Elsewhere \/ \E i \in Issues : StartSession(i)
  PROVE  Ticking' /\ Alone'
<1>1. Next /\ recovery' = recovery
  BY DEF Tick, Elsewhere, StartSession, Next, RunOnce, Dispatch, daemon, decided
<1>2. CASE recovery # "driving"
  BY <1>1, <1>2, InductiveStep DEF Ticking, Alone
<1>3. CASE recovery = "driving"
  <2>1. Elsewhere
    BY <1>3 DEF Tick, StartSession
  <2>2. active' = active /\ starting' = starting
    BY <2>1, WorkersLeave
  <2>. QED
    BY <1>1, <1>3, <2>1, <2>2 DEF Ticking, Alone, Elsewhere, daemon, disk, decided
<1>. QED
  BY <1>2, <1>3

LEMMA TickingStep ==
  Base /\ Recoverable /\ Ticking /\ Alone /\ [DaemonNext]_dvars => Ticking' /\ Alone'
<1>. SUFFICES ASSUME Base, Recoverable, Ticking, Alone, [DaemonNext]_dvars PROVE Ticking' /\ Alone'
  OBVIOUS
<1>1. Base' /\ Recoverable'
  BY BaseStep, RecoverableStep
<1>2. CASE UNCHANGED dvars
  <2>1. UNCHANGED <<vars, recovery, store, resumed>>
    BY <1>2 DEF dvars, daemon, disk, decided
  <2>2. Ticking'
    BY <2>1, InductiveStep DEF Ticking
  <2>. QED
    BY <2>1, <2>2 DEF Alone, vars, tick, workers
<1>3. CASE DaemonNext
  BY <1>1, <1>3, StepKinds, AsideTicks, WorkTicks, OwnTicks
<1>. QED
  BY <1>2, <1>3

\* Recovery and any number of crashes take nothing from the invariant of the
\* orchestrator, but for the one worker that recover drives itself.
THEOREM TickingCorrect == DaemonSpec => [](Ticking /\ Alone)
<1>1. DaemonInit => Ticking /\ Alone
  BY InitInductive DEF DaemonInit, Ticking, Alone
<1>. QED
  BY <1>1, TickingStep, DaemonInductiveCorrect, PTL DEF DaemonSpec

\* Over crashes and restarts, too, there are never more workers than
\* agent.max_concurrency, nor more in a lane than its limit: a worker that
\* recover drives is past the count of the slots, but alone.
THEOREM DaemonLimitsCorrect == DaemonSpec => []LimitsKept
<1>1. Base /\ Recoverable /\ Ticking /\ Alone => LimitsKept
  <2>. SUFFICES ASSUME Base, Recoverable, Ticking, Alone PROVE LimitsKept
    OBVIOUS
  <2>1. CASE recovery # "driving"
    BY <2>1 DEF Ticking, Inductive, LimitsKept
  <2>2. CASE recovery = "driving"
    <3>. DEFINE One == {store[resumed].issue}
    <3>1. /\ active \subseteq One /\ phase # "dispatch"
      BY <2>2 DEF Alone, Recoverable, Course
    <3>2. IsFiniteSet(One) /\ Cardinality(One) = 1
      BY FS_Singleton
    <3>3. \A S \in SUBSET One : Cardinality(S) \in Nat /\ Cardinality(S) <= 1
      BY <3>2, FS_Subset, FS_CardinalityType
    <3>4. Cardinality(active) \in Nat /\ Cardinality(active) <= 1
      BY <3>1, <3>3
    <3>5. ASSUME NEW l \in Lanes PROVE Cardinality({i \in active : LaneOf[i] = l}) <= LaneLimit[l]
      <4>. DEFINE In == {i \in active : LaneOf[i] = l}
      <4>1. In \in SUBSET One
        BY <3>1
      <4>2. Cardinality(In) \in Nat /\ Cardinality(In) <= 1
        BY <3>3, <4>1
      <4>. QED
        BY <4>2, OrchestratorAssumption
    <3>. QED
      BY <3>1, <3>4, <3>5, OrchestratorAssumption DEF LimitsKept, ConcurrencyBound, LaneBound
  <2>. QED
    BY <2>1, <2>2
<1>. QED
  BY <1>1, TickingCorrect, DaemonInductiveCorrect, PTL

\* A worker whose issue does not carry the claim label is the one that recover
\* has resumed: every other one works under its claim, over any number of
\* crashes and restarts.
OnlyResumedWorkIsUnclaimed ==
  \A i \in Held : Running \in labels[i] \/ (recovery = "driving" /\ store[resumed].issue = i)

THEOREM DaemonClaimCorrect == DaemonSpec => []OnlyResumedWorkIsUnclaimed
<1>1. Ticking /\ Alone => OnlyResumedWorkIsUnclaimed
  BY DEF Ticking, Alone, Inductive, WorkOnlyUnderClaim, Held, OnlyResumedWorkIsUnclaimed
<1>. QED
  BY <1>1, TickingCorrect, PTL

\* No step of recovery comes into the dispatch of a tick.
LEMMA PendingKept ==
  ASSUME Unattended, Base, Recoverable, Recoverable', Ticking, PendingIsUnsettled, [DaemonNext]_dvars
  PROVE  PendingIsUnsettled'
<1>. SUFFICES ASSUME phase' = "dispatch" PROVE PendingIsUnsettled'
  BY DEF PendingIsUnsettled
<1>1. CASE recovery # "driving" /\ [Next]_vars
  BY <1>1, PendingStep DEF Ticking
<1>2. recovery' # "driving" /\ recovery' # "stamping"
  BY DEF Recoverable, Course
<1>3. CASE UNCHANGED vars
  BY <1>3 DEF PendingIsUnsettled, vars, github, tick
<1>4. CASE Aside
  <2>1. ~Ending /\ ~Restart /\ \A k \in 1..Len(store) : ~Resume(k)
    BY DEF Ending, Crash, ResumeEscapes, Dies, Restart, Resume
  <2>2. \A k, S : ~(phase = "idle" /\ Decided(k, S))
    BY DEF Decided, tick
  <2>3. \A i \in Issues : ~Delete(i)
    BY DEF Delete, OperatorMoves, Unattended, Base, TypeOK
  <2>4. UNCHANGED vars
    BY <1>4, <2>1, <2>2, <2>3 DEF Aside, FirstEvent, FetchIssues, FetchIssuesFails
  <2>. QED
    BY <1>3, <2>4
<1>5. CASE Tick \/ Elsewhere \/ \E i \in Issues : StartSession(i) \/ Work(i)
  <2>1. Next
    BY <1>5 DEF Tick, Elsewhere, StartSession, Work, Next, RunOnce, Dispatch, Worker
  <2>2. recovery # "driving"
    BY <1>2, <1>5 DEF Tick, Elsewhere, StartSession, Work, daemon, decided
  <2>. QED
    BY <1>1, <2>1, <2>2
<1>. QED
  BY <1>3, <1>4, <1>5, StepKinds DEF dvars

\* Nor does a restart bring back what the daemon has settled: an issue with a
\* blocked or a done label is not claimed again without an operator, over any
\* number of crashes and recoveries.
THEOREM DaemonSettledCorrect == DaemonSpec => SettledStaysSettled
<1>. DEFINE Unclaimed == MaxOperatorMoves = 0 /\ {Blocked, Done} \subseteq Exclude =>
              \A i \in starting' \ starting : labels[i] \cap {Blocked, Done} = {}
<1>1. CASE ~Unattended
  <2>1. [DaemonNext]_dvars => [Unclaimed]_vars
    BY <1>1 DEF Unattended
  <2>. QED
    BY <2>1, PTL DEF DaemonSpec, SettledStaysSettled
<1>2. CASE Unattended
  <2>1. DaemonInit => PendingIsUnsettled
    BY DEF DaemonInit, Init, PendingIsUnsettled
  <2>2. Base /\ Recoverable /\ Ticking /\ PendingIsUnsettled /\ [DaemonNext]_dvars => PendingIsUnsettled'
    BY <1>2, PendingKept, RecoverableStep
  <2>3. ASSUME Base, Recoverable, PendingIsUnsettled, [DaemonNext]_dvars
        PROVE  [Unclaimed]_vars
    <3>1. ASSUME NEW i \in starting' \ starting PROVE Claim(i) /\ phase = "dispatch"
      <4>1. ~UNCHANGED vars
        BY <3>1 DEF vars, tick
      <4>2. ~Aside
        BY <3>1, <4>1 DEF Aside, Delete, FirstEvent, FetchIssues, FetchIssuesFails, Ending, Crash,
                          ResumeEscapes, Dies, Restart, Forgotten, Decided, Resume, tick
      <4>3. ~Elsewhere /\ \A j \in Issues : ~Work(j)
        BY <2>3, <3>1, WorkersLeave DEF Work, Worker
      <4>4. \A j \in Issues : ~StartSession(j)
        BY <3>1 DEF StartSession, Start
      <4>5. Tick
        BY <2>3, <4>1, <4>2, <4>3, <4>4, StepKinds DEF dvars
      <4>. QED
        BY <3>1, <4>5 DEF Tick, BeginTick, Reconcile, FetchCandidates, FetchFails, EndDispatch, Skip,
                          Claim, Dispatching, StartFails, github, workers, retry, env, Base, TypeOK
    <3>. QED
      BY <2>3, <3>1 DEF PendingIsUnsettled, Claim
  <2>. QED
    BY <2>1, <2>2, <2>3, TickingCorrect, DaemonInductiveCorrect, PTL DEF DaemonSpec, SettledStaysSettled
<1>. QED
  BY <1>1, <1>2

----------------------------------------------------------------------------
(* Every worker has a record.                                              *)

\* Every worker has a record by which recovery will find it: none is stamped as
\* long as its run goes on.  (A claim whose session has not started yet has none,
\* and stays when the daemon crashes there.)
WorkersAreRecorded ==
  \A i \in active : \E k \in 1..Len(store) : store[k].issue = i /\ store[k].live

LEMMA RecordedStep ==
  ASSUME Base, Recoverable, WorkersAreRecorded, DaemonNext
  PROVE  WorkersAreRecorded'
<1>1. CASE active' \subseteq active /\ UNCHANGED store
  BY <1>1 DEF WorkersAreRecorded
<1>2. CASE active' = {}
  BY <1>2 DEF WorkersAreRecorded
<1>3. CASE phase = "idle" /\ active' = active
  BY <1>2, <1>3 DEF Base, Structure, QuietWithoutWorkers
<1>4. CASE Tick
  BY <1>1, <1>4 DEF Tick, BeginTick, Reconcile, FetchCandidates, FetchFails, EndDispatch, Skip, Claim,
                    StartFails, github, workers, retry, env, daemon, disk
<1>5. CASE Elsewhere
  BY <1>1, <1>5, WorkersLeave DEF Elsewhere, daemon, disk
<1>6. ASSUME NEW i \in Issues, StartSession(i) PROVE WorkersAreRecorded'
  <2>. DEFINE r == [issue |-> i, known |-> FALSE, live |-> TRUE]
  <2>1. /\ r \in Record /\ r.issue = i /\ r.live
        /\ store \in Seq(Record) /\ store' = Append(store, r)
    BY <1>6 DEF StartSession, Record, Recoverable, StoreType
  <2>2. active' \subseteq active \cup {i}
    BY <1>6 DEF StartSession, Start
  <2>. HIDE DEF r
  <2>3. /\ Len(store) \in Nat /\ Len(store') = Len(store) + 1
        /\ \A k \in 1..Len(store) : store'[k] = store[k]
        /\ store'[Len(store) + 1] = r
    BY <2>1, AppendProperties
  <2>. QED
    BY <2>1, <2>2, <2>3 DEF WorkersAreRecorded
<1>7. ASSUME NEW i \in Issues, Work(i) PROVE WorkersAreRecorded'
  <2>1. Worker(i) /\ UNCHANGED store
    BY <1>7 DEF Work, Worker, disk
  <2>. QED
    BY <1>1, <2>1, WorkersLeave
<1>8. ASSUME NEW i \in Issues, FirstEvent(i) PROVE WorkersAreRecorded'
  <2>0. DOMAIN store = 1..Len(store) /\ active' = active
    BY <1>8 DEF FirstEvent, Recoverable, StoreType, vars, workers, tick
  <2>1. PICK k \in 1..Len(store) : Persist(k, [store[k] EXCEPT !.known = TRUE])
    BY <1>8, <2>0 DEF FirstEvent
  <2>. DEFINE r == [store[k] EXCEPT !.known = TRUE]
  <2>2. store[k] \in Record
    BY DEF Recoverable, StoreType
  <2>3. r \in Record /\ r.issue = store[k].issue /\ r.live = store[k].live
    BY <2>2 DEF Record
  <2>. HIDE DEF r
  <2>4. Len(store') = Len(store) /\ \A j \in 1..Len(store) : store'[j] = IF j = k THEN r ELSE store[j]
    BY <2>1, <2>3, PersistFacts DEF Recoverable, r
  <2>. QED
    BY <2>0, <2>3, <2>4 DEF WorkersAreRecorded
<1>9. ASSUME NEW k \in 1..Len(store), Resume(k) PROVE WorkersAreRecorded'
  <2>1. active = {}
    BY <1>9 DEF Base, Structure, QuietWithoutWorkers, Resume, Resuming, Deciding
  <2>2. store[k] \in Record /\ Persist(k, store[k])
    BY <1>9 DEF Resume, Recoverable, StoreType
  <2>3. store'[k] = store[k] /\ Len(store') = Len(store)
    BY <2>2, PersistFacts DEF Recoverable
  <2>4. store[k].live
    BY <1>9 DEF Resume, Resuming, Deciding, IsNext, Recoverable, Course
  <2>. QED
    BY <1>9, <2>1, <2>3, <2>4 DEF Resume, WorkersAreRecorded
<1>10. CASE Aside
  <2>1. CASE \E i \in Issues : Delete(i)
    BY <1>1, <2>1 DEF Delete, workers, disk
  <2>2. CASE FetchIssues \/ FetchIssuesFails \/ (phase = "idle" /\ \E k, S : Decided(k, S))
    BY <1>3, <2>2 DEF FetchIssues, FetchIssuesFails, Decided, vars, workers, tick
  <2>3. CASE Ending \/ Restart
    BY <1>2, <2>3, EndingFacts DEF Recoverable, Dies, Restart, Forgotten
  <2>. QED
    BY <1>8, <1>9, <1>10, <2>1, <2>2, <2>3 DEF Aside
<1>. QED
  BY <1>4, <1>5, <1>6, <1>7, <1>10, StepKinds

\* Whatever run a crash cuts off, recovery finds its record.
THEOREM WorkersAreRecordedCorrect == DaemonSpec => []WorkersAreRecorded
<1>1. DaemonInit => WorkersAreRecorded
  BY DEF DaemonInit, Init, WorkersAreRecorded
<1>2. Base /\ Recoverable /\ WorkersAreRecorded /\ [DaemonNext]_dvars => WorkersAreRecorded'
  <2>1. ASSUME WorkersAreRecorded, UNCHANGED dvars PROVE WorkersAreRecorded'
    BY <2>1 DEF WorkersAreRecorded, dvars, vars, workers, tick, daemon, disk
  <2>. QED
    BY <2>1, RecordedStep
<1>. QED
  BY <1>1, <1>2, DaemonInductiveCorrect, PTL DEF DaemonSpec
=============================================================================
