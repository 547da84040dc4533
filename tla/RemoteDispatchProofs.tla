------------------------- MODULE RemoteDispatchProofs -------------------------
(***************************************************************************)
(* Theorems about remote dispatches, for every number of retries, crashes, *)
(* processes left behind and operator moves, and whether or not GitHub's   *)
(* calls fail.                                                             *)
(***************************************************************************)
EXTENDS RemoteDispatch, FiniteSetTheorems, TLAPS

\* The attempts are bounded because an issue whose retries are over leaves the
\* queue until the operator comes.
Counted ==
  /\ attempts <= MaxAttempts + 1 + moves
  /\ InFlight \/ IsCandidate(TRUE, labels, Exclude) => attempts <= MaxAttempts + moves
  /\ InFlight => attempt = attempts + 1

\* A dispatch has its claim, and its worker its number.
Held ==
  /\ InFlight => Running \in labels
  /\ pc = "ssh" => worker.attempt = attempt

\* A process that says it succeeded went through all of its stages.
Honest(p) ==
  /\ p.code = 0 => /\ p.at \in {"leaving", "exited"} /\ p.state = "completed"
                   /\ ~p.said /\ p.session
  /\ p.said => p.at \in {"leaving", "exited", "killed"}
  /\ p.at = "hook" => p.state = "completed"
  /\ p.at \in {"turn", "working", "hook"} => p.session

Genuine ==
  /\ pc \in {"dispatch", "ssh"} => ~failed
  /\ pc = "ssh" => Honest(worker)
  /\ pc \in {"collect", "settle"} /\ ~failed =>
       /\ worker.at = "exited" /\ worker.code = 0
       /\ worker.state = "completed" /\ ~worker.said

\* Nobody else writes to the directory of a dispatch that began alone, so that
\* what its worker has written there stays.
Complete == [session |-> "this", terminal |-> "completed"]

Own ==
  ~shared /\ ~failed =>
    /\ InFlight => \A p \in leftover : p.attempt # attempt
    /\ pc = "ssh" /\ worker.at = "exited" =>
         /\ files[attempt].terminal = worker.state
         /\ worker.session => files[attempt].session = "this"
    /\ pc = "collect" => files[attempt] = Complete
    /\ pc = "settle" => collected = Complete

\* The type invariant in parts, of which most steps leave some alone.
EnvType ==
  /\ labels \in SUBSET Label
  /\ moves \in 0..MaxOperatorMoves /\ crashes \in 0..MaxCrashes

CoordinatorType ==
  /\ pc \in {"down", "idle", "dispatch", "ssh", "collect", "settle"}
  /\ attempts \in 0..LastAttempt /\ next \in {"none", "later", "due"}
  /\ attempt \in 0..LastAttempt
  /\ failed \in BOOLEAN /\ shared \in BOOLEAN /\ collected \in Artifacts

HostType ==
  /\ worker \in Process
  /\ files \in [1..LastAttempt -> Artifacts]

LeftoverType ==
  /\ \A p \in leftover : p \in Process /\ Alive(p) /\ p.attempt # 0
  /\ IsFiniteSet(leftover) /\ Cardinality(leftover) <= MaxLeftovers

TypeParts == EnvType /\ CoordinatorType /\ HostType /\ LeftoverType

Inductive == TypeParts /\ Counted /\ Held /\ Genuine /\ Own

----------------------------------------------------------------------------
(* The operators the actions are built from.                               *)

LEMMA TypeFollows == TypeParts => RemoteTypeOK
  BY DEF RemoteTypeOK, TypeParts, EnvType, CoordinatorType, HostType, LeftoverType

LEMMA Bounds ==
  /\ MaxAttempts \in Nat /\ MaxLeftovers \in Nat /\ MaxCrashes \in Nat
  /\ MaxOperatorMoves \in Nat /\ LastAttempt \in Nat
  /\ LastAttempt = MaxAttempts + 1 + MaxOperatorMoves
  /\ Blocked \in Exclude /\ TrackerFaults \in BOOLEAN
  BY RemoteAssumption, TrackerFaultsAssumption DEF LastAttempt

\* A new process is at its boot, and honest.
LEMMA NewProcessType ==
  ASSUME NEW a \in 0..LastAttempt, NEW s \in Stage
  PROVE  /\ NewProcess(a, s) \in Process
         /\ NewProcess(a, s).attempt = a /\ NewProcess(a, s).at = s
         /\ NewProcess(a, "boot").at = "boot" /\ Honest(NewProcess(a, "boot"))
  BY DEF NewProcess, Process, Honest

\* A step of a process keeps its number, and its honesty; who exits has said
\* all before.
LEMMA RunEffect ==
  ASSUME NEW p \in Process, NEW q \in Run(p)
  PROVE  /\ q \in Process /\ q.attempt = p.attempt
         /\ Honest(p) => Honest(q)
         /\ q.at = "exited" => q.session = p.session
         /\ p.at # "exited"
<1>1. \/ q \in Boot(p) \/ q \in Prepare(p) \/ q \in StartSession(p)
      \/ q \in BeginTurn(p) \/ q \in EndTurn(p) \/ q \in AfterRun(p)
      \/ q \in Leave(p) \/ q \in Kill(p)
  BY DEF Run
<1>2. CASE q \in Boot(p)
  BY <1>2 DEF Boot, Refuses, Process, Stage, Honest
<1>3. CASE q \in Prepare(p)
  BY <1>3 DEF Prepare, Fails, Process, Stage, Honest
<1>4. CASE q \in StartSession(p)
  BY <1>4 DEF StartSession, Fails, Process, Stage, Honest
<1>5. CASE q \in BeginTurn(p)
  BY <1>5 DEF BeginTurn, Fails, Process, Stage, Honest
<1>6. CASE q \in EndTurn(p)
  BY <1>6 DEF EndTurn, Fails, Process, Stage, Honest
<1>7. CASE q \in AfterRun(p)
  BY <1>7 DEF AfterRun, Fails, Process, Stage, Honest
<1>8. CASE q \in Leave(p)
  BY <1>8 DEF Leave, Process, Stage, Honest
<1>9. CASE q \in Kill(p)
  <2>1. q = [p EXCEPT !.at = "killed", !.code = 1] /\ p.at # "exited"
    BY <1>9 DEF Kill, Alive
  <2>2. q \in Process /\ q.attempt = p.attempt /\ q.at = "killed" /\ q.code = 1
    BY <2>1 DEF Process, Stage
  <2> QED
    BY <2>1, <2>2 DEF Honest
<1> QED
  BY <1>1, <1>2, <1>3, <1>4, <1>5, <1>6, <1>7, <1>8, <1>9

\* So does the loss of the channel.
LEMMA LoseChannelEffect ==
  ASSUME NEW p \in Process, NEW q \in LoseChannel(p)
  PROVE  q \in Process /\ q.attempt = p.attempt
<1>1. CASE q = [p EXCEPT !.at = "leaving"]
  BY <1>1 DEF Process, Stage
<1>2. CASE \E s \in {"failed", "completed"} : q = [p EXCEPT !.at = "leaving", !.state = s]
  BY <1>2 DEF Process, Stage
<1> QED
  BY <1>1, <1>2 DEF LoseChannel

\* A process writes to the directory of its number only.
LEMMA WrittenEffect ==
  ASSUME HostType, NEW p \in Process, NEW q \in Process, p.attempt # 0, NEW isThis \in BOOLEAN
  PROVE  LET f == Written(p, q, isThis) IN
         /\ f \in [1..LastAttempt -> Artifacts]
         /\ \A a \in 1..LastAttempt : a # p.attempt => f[a] = files[a]
         /\ q.at = "exited" /\ isThis =>
              /\ f[p.attempt].terminal = q.state
              /\ q.session => f[p.attempt].session = "this"
<1> DEFINE s == IF WritesSession(p, q) THEN IF isThis THEN "this" ELSE "old"
                ELSE files[p.attempt].session
           t == IF q.at = "exited" THEN IF isThis THEN q.state ELSE "old"
                ELSE files[p.attempt].terminal
<1>1. p.attempt \in 1..LastAttempt
  BY Bounds DEF Process
<1>2. files[p.attempt] \in Artifacts
  BY <1>1 DEF HostType
<1>3. s \in {"none", "this", "old"} /\ t \in {"none", "completed", "failed", "old"}
  BY <1>2 DEF Artifacts, Process
<1>4. Written(p, q, isThis) = [files EXCEPT ![p.attempt] = [session |-> s, terminal |-> t]]
  BY DEF Written
<1>5. q.at = "exited" /\ isThis => t = q.state /\ (q.session => s = "this")
  BY DEF WritesSession
<1> HIDE DEF s, t
<1>6. [session |-> s, terminal |-> t] \in Artifacts
  BY <1>3 DEF Artifacts
<1> QED
  BY <1>1, <1>4, <1>5, <1>6 DEF HostType

\* Replacing an element does not make a set larger.
LEMMA ReplaceOne ==
  ASSUME NEW S, IsFiniteSet(S), NEW x \in S, NEW T, T = {} \/ \E y : T = {y}
  PROVE  /\ IsFiniteSet((S \ {x}) \cup T)
         /\ Cardinality((S \ {x}) \cup T) <= Cardinality(S)
<1>1. IsFiniteSet(S \ {x}) /\ Cardinality(S \ {x}) = Cardinality(S) - 1
  BY FS_RemoveElement
<1>2. Cardinality(S) \in Nat /\ Cardinality(S \ {x}) \in Nat
  BY <1>1, FS_CardinalityType
<1>3. CASE T = {}
  <2>1. (S \ {x}) \cup T = S \ {x}
    BY <1>3
  <2>2. Cardinality((S \ {x}) \cup T) = Cardinality(S \ {x}) /\ IsFiniteSet((S \ {x}) \cup T)
    BY <2>1, <1>1, Zenon
  <2> QED
    BY <2>2, <1>1, <1>2
<1>4. CASE \E y : T = {y}
  <2>1. PICK y : T = {y}
    BY <1>4
  <2>2. /\ IsFiniteSet((S \ {x}) \cup {y})
        /\ Cardinality((S \ {x}) \cup {y}) = IF y \in S \ {x} THEN Cardinality(S \ {x})
                                             ELSE Cardinality(S \ {x}) + 1
    BY <1>1, FS_AddElement
  <2> QED
    BY <2>1, <2>2, <1>1, <1>2
<1> QED
  BY <1>3, <1>4

\* What the label operations leave.
LEMMA ClaimEffect ==
  ASSUME NEW L \in SUBSET Label, NEW a \in ClaimIssue(L)
  PROVE  /\ a.labels \in SUBSET Label
         /\ a.labels = L \/ a.labels = L \cup {Running}
         /\ ~a.raised => a.labels = L \cup {Running}
  BY DEF ClaimIssue, Call, Ok, Raised, Label

LEMMA ReleaseEffect ==
  ASSUME NEW L \in SUBSET Label, NEW a \in ReleaseIssue(L)
  PROVE  a.labels \in SUBSET Label
  BY DEF ReleaseIssue, Call, Ok, Raised

\* Marking a claimed issue blocked takes it out of the queue, whatever fails.
LEMMA BlockEffect ==
  ASSUME NEW L \in SUBSET Label, Running \in L, NEW a \in MarkIssueBlocked(L)
  PROVE  /\ a.labels \in SUBSET Label
         /\ Running \in a.labels \/ Blocked \in a.labels
<1>1. \/ a \in Call(L, L \cup {Blocked}) /\ a.raised
      \/ \E M \in DropBestEffort(L \cup {Blocked}) : a = Ok(M)
  BY DEF MarkIssueBlocked, AddThenDrop
<1>2. CASE a \in Call(L, L \cup {Blocked}) /\ a.raised
  BY <1>2 DEF Call, Ok, Raised, Label
<1>3. CASE \E M \in DropBestEffort(L \cup {Blocked}) : a = Ok(M)
  <2>1. PICK M \in DropBestEffort(L \cup {Blocked}) : a = Ok(M)
    BY <1>3
  <2>2. \E S \in SUBSET {Running, Ready} : M = (L \cup {Blocked}) \ S
    BY DEF DropBestEffort
  <2>3. Blocked \in M /\ M \subseteq Label
    BY <2>2 DEF Running, Ready, Blocked, Label
  <2> QED
    BY <2>1, <2>3 DEF Ok
<1> QED
  BY <1>1, <1>2, <1>3

LEMMA NoCandidate ==
  ASSUME NEW L, Running \in L \/ Blocked \in L
  PROVE  ~IsCandidate(TRUE, L, Exclude)
  BY Bounds DEF IsCandidate

\* A process left behind adds nothing but itself.
LEMMA LeaveBehindEffect ==
  ASSUME LeftoverType, HostType, pc = "ssh" => worker.attempt # 0,
         NEW c \in BOOLEAN, LeaveBehind(c)
  PROVE  /\ LeftoverType'
         /\ \A p \in leftover' : \/ pc = "ssh" /\ p.attempt = worker.attempt
                                \/ \E r \in leftover : p.attempt = r.attempt
<1> DEFINE Aged(p) == [p EXCEPT !.current = @ /\ c]
           past == {Aged(p) : p \in leftover}
           left == [Unheard(worker) EXCEPT !.current = c]
           f    == [p \in leftover |-> Aged(p)]
<1>1. leftover' = IF pc = "ssh" /\ Alive(worker) /\ Cardinality(past) < MaxLeftovers
                    THEN past \cup {left} ELSE past
  BY DEF LeaveBehind
<1>2. \A p \in past : /\ p \in Process /\ Alive(p) /\ p.attempt # 0
                      /\ \E r \in leftover : p.attempt = r.attempt
  <2> SUFFICES ASSUME NEW r \in leftover
               PROVE  /\ Aged(r) \in Process /\ Alive(Aged(r)) /\ Aged(r).attempt # 0
                      /\ Aged(r).attempt = r.attempt
    BY Zenon
  <2>1. r \in Process /\ Alive(r) /\ r.attempt # 0
    BY DEF LeftoverType
  <2>2. Aged(r) \in Process /\ Aged(r).attempt = r.attempt /\ Aged(r).at = r.at
    BY <2>1 DEF Process
  <2> QED
    BY <2>1, <2>2 DEF Alive
<1>3. IsFiniteSet(past) /\ Cardinality(past) <= Cardinality(leftover)
  <2>1. f \in Surjection(leftover, past)
    BY DEF Surjection
  <2> QED
    BY <2>1, FS_Surjection DEF LeftoverType
<1>4. Cardinality(past) \in Nat /\ Cardinality(leftover) \in Nat /\ Cardinality(past) <= MaxLeftovers
  <2>1. Cardinality(past) \in Nat /\ Cardinality(leftover) \in Nat
    BY <1>3, FS_CardinalityType DEF LeftoverType
  <2> HIDE DEF past
  <2> QED
    BY <2>1, <1>3, Bounds DEF LeftoverType
<1>5. ASSUME pc = "ssh", Alive(worker)
      PROVE  left \in Process /\ Alive(left) /\ left.attempt = worker.attempt
  <2>1. worker \in Process
    BY DEF HostType
  <2>2. left \in Process /\ left.attempt = worker.attempt /\ left.at = worker.at
    BY <2>1 DEF Unheard, Process
  <2> QED
    BY <2>2, <1>5 DEF Alive
<1> HIDE DEF past, left
<1>6. CASE leftover' = past
  BY <1>6, <1>2, <1>3, <1>4 DEF LeftoverType
<1>7. CASE /\ leftover' = past \cup {left} /\ pc = "ssh" /\ Alive(worker)
           /\ Cardinality(past) < MaxLeftovers
  <2>1. /\ IsFiniteSet(past \cup {left})
        /\ Cardinality(past \cup {left}) = IF left \in past THEN Cardinality(past)
                                           ELSE Cardinality(past) + 1
    BY <1>3, FS_AddElement
  <2>2. Cardinality(past \cup {left}) <= MaxLeftovers
    BY <2>1, <1>4, <1>7, Bounds
  <2>3. \A p \in past \cup {left} : p \in past \/ p = left
    OBVIOUS
  <2>4. \A p \in leftover' : p \in past \/ p = left
    BY <2>3, <1>7
  <2>5. left \in Process /\ Alive(left) /\ left.attempt = worker.attempt /\ left.attempt # 0
    BY <1>5, <1>7
  <2>6. IsFiniteSet(leftover') /\ Cardinality(leftover') <= MaxLeftovers
    BY <2>1, <2>2, <1>7
  <2> QED
    BY <2>4, <2>5, <2>6, <1>2, <1>7 DEF LeftoverType
<1> QED
  BY <1>1, <1>6, <1>7

----------------------------------------------------------------------------
(* The steps of the processes.                                             *)

LEMMA Numbered ==
  ASSUME Inductive, InFlight
  PROVE  attempt \in 1..LastAttempt /\ attempts <= MaxAttempts + moves
  BY Bounds DEF Inductive, Counted, TypeParts, CoordinatorType, EnvType

LEMMA WorkerStepKeepsInductive ==
  ASSUME Inductive, WorkerStep
  PROVE  Inductive'
<1>1. PICK q \in Run(worker) : worker' = q /\ files' = Written(worker, q, TRUE)
  BY DEF WorkerStep
<1>2. /\ pc = "ssh" /\ InFlight
      /\ UNCHANGED <<labels, moves, crashes, pc, attempts, next, attempt, failed, collected,
                     leftover, shared>>
  BY DEF WorkerStep, env, coordinator, InFlight
<1>3. /\ TypeParts /\ worker \in Process /\ worker.attempt = attempt /\ ~failed /\ Honest(worker)
      /\ attempt \in 1..LastAttempt
  BY <1>2, Numbered DEF Inductive, TypeParts, HostType, Held, Genuine
<1>4. /\ q \in Process /\ q.attempt = attempt /\ Honest(q)
  BY <1>1, <1>3, RunEffect
<1>5. /\ files' \in [1..LastAttempt -> Artifacts]
      /\ q.at = "exited" => /\ files'[attempt].terminal = q.state
                            /\ q.session => files'[attempt].session = "this"
  <2>1. worker.attempt # 0 /\ HostType /\ TRUE \in BOOLEAN
    BY <1>3, Bounds DEF TypeParts
  <2>2. LET f == Written(worker, q, TRUE) IN
        /\ f \in [1..LastAttempt -> Artifacts]
        /\ q.at = "exited" => /\ f[worker.attempt].terminal = q.state
                              /\ q.session => f[worker.attempt].session = "this"
    BY <2>1, <1>3, <1>4, WrittenEffect
  <2> QED
    BY <2>2, <1>1, <1>3
<1>6. TypeParts'
  BY <1>1, <1>2, <1>3, <1>4, <1>5
     DEF TypeParts, EnvType, CoordinatorType, HostType, LeftoverType
<1>7. Counted' /\ Held'
  BY <1>1, <1>2, <1>4 DEF Inductive, Counted, Held, InFlight
<1>8. Genuine'
  BY <1>1, <1>2, <1>3, <1>4 DEF Genuine
<1>9. Own'
  BY <1>1, <1>2, <1>5 DEF Inductive, Own, InFlight
<1> QED
  BY <1>6, <1>7, <1>8, <1>9 DEF Inductive

LEMMA LeftoverStepKeepsInductive ==
  ASSUME Inductive, LeftoverStep
  PROVE  Inductive'
<1>1. PICK p \in leftover : \E q \in Run(p) \cup LoseChannel(p) :
         /\ leftover' = (leftover \ {p}) \cup (IF Alive(q) THEN {Unheard(q)} ELSE {})
         /\ files' = Written(p, q, FALSE)
  BY DEF LeftoverStep
<1>2. PICK q \in Run(p) \cup LoseChannel(p) :
         /\ leftover' = (leftover \ {p}) \cup (IF Alive(q) THEN {Unheard(q)} ELSE {})
         /\ files' = Written(p, q, FALSE)
  BY <1>1
<1>3. UNCHANGED <<labels, moves, crashes, pc, attempts, next, attempt, failed, collected,
                  worker, shared>>
  BY DEF LeftoverStep, env, coordinator
<1>4. p \in Process /\ Alive(p) /\ p.attempt # 0 /\ TypeParts
  BY DEF Inductive, TypeParts, LeftoverType
<1>5. q \in Process /\ q.attempt = p.attempt
  BY <1>4, RunEffect, LoseChannelEffect
<1>6. /\ Unheard(q) \in Process /\ Unheard(q).attempt = p.attempt
      /\ Alive(q) => Alive(Unheard(q))
  <2>1. Unheard(q) \in Process /\ Unheard(q).attempt = p.attempt /\ Unheard(q).at = q.at
    BY <1>5 DEF Unheard, Process
  <2> QED
    BY <2>1 DEF Alive
<1>7. /\ files' \in [1..LastAttempt -> Artifacts]
      /\ \A a \in 1..LastAttempt : a # p.attempt => files'[a] = files[a]
  BY <1>2, <1>4, <1>5, WrittenEffect DEF TypeParts
<1> DEFINE T == IF Alive(q) THEN {Unheard(q)} ELSE {}
<1>8. /\ IsFiniteSet(leftover') /\ Cardinality(leftover') <= Cardinality(leftover)
  <2>1. T = {} \/ \E y : T = {y}
    OBVIOUS
  <2>2. leftover' = (leftover \ {p}) \cup T
    BY <1>2
  <2> HIDE DEF T
  <2>3. IsFiniteSet(leftover)
    BY <1>4 DEF TypeParts, LeftoverType
  <2> QED
    BY <2>1, <2>2, <2>3, ReplaceOne
<1>9. \A r \in leftover' : r \in leftover \/ (Alive(q) /\ r = Unheard(q))
  BY <1>2
<1>10. LeftoverType'
  <2>1. Cardinality(leftover) \in Nat /\ Cardinality(leftover') \in Nat
        /\ Cardinality(leftover) <= MaxLeftovers
    BY <1>4, <1>8, FS_CardinalityType DEF TypeParts, LeftoverType
  <2>2. Cardinality(leftover') <= MaxLeftovers
    BY <2>1, <1>8, Bounds
  <2>3. \A r \in leftover' : r \in Process /\ Alive(r) /\ r.attempt # 0
    BY <1>4, <1>6, <1>9 DEF TypeParts, LeftoverType
  <2> QED
    BY <2>2, <2>3, <1>8 DEF LeftoverType
<1>11. TypeParts'
  BY <1>3, <1>4, <1>7, <1>10 DEF TypeParts, EnvType, CoordinatorType, HostType
<1>12. Counted' /\ Held' /\ Genuine'
  BY <1>3 DEF Inductive, Counted, Held, Genuine, InFlight
<1>13. Own'
  <2> SUFFICES ASSUME ~shared, ~failed, InFlight
               PROVE  Own'
    BY <1>3 DEF Inductive, Own, InFlight
  <2>1. \A r \in leftover : r.attempt # attempt
    BY DEF Inductive, Own
  <2>2. \A r \in leftover' : r.attempt # attempt
    BY <2>1, <1>6, <1>9
  <2>3. attempt \in 1..LastAttempt
    BY Numbered
  <2>4. files'[attempt] = files[attempt]
    BY <2>1, <2>3, <1>7
  <2> QED
    BY <2>2, <2>4, <1>3 DEF Inductive, Own, InFlight
<1> QED
  BY <1>11, <1>12, <1>13 DEF Inductive

----------------------------------------------------------------------------
(* The steps of the coordinator and of those around it.                    *)

LEMMA ClaimKeepsInductive ==
  ASSUME Inductive, Claim
  PROVE  Inductive'
<1>1. PICK a \in ClaimIssue(labels) : labels' = a.labels /\ pc' = IF a.raised THEN "idle" ELSE "dispatch"
  BY DEF Claim
<1>2. /\ pc = "idle" /\ IsCandidate(TRUE, labels, Exclude)
      /\ attempt' = attempts + 1 /\ failed' = FALSE
      /\ shared' = \E p \in leftover : p.attempt = attempt'
      /\ files' = [n \in DOMAIN files |->
                    [session  |-> IF files[n].session = "none" THEN "none" ELSE "old",
                     terminal |-> IF files[n].terminal = "none" THEN "none" ELSE "old"]]
      /\ UNCHANGED <<moves, crashes, attempts, next, collected, worker, leftover>>
  BY DEF Claim, AttemptNumber, env
<1>3. TypeParts /\ attempts <= MaxAttempts + moves /\ attempts \in Nat /\ moves \in 0..MaxOperatorMoves
  BY <1>2, Bounds DEF Inductive, Counted, TypeParts, CoordinatorType, EnvType
<1>4. /\ labels' \in SUBSET Label
      /\ ~a.raised => Running \in labels'
  BY <1>1, <1>3, ClaimEffect DEF TypeParts, EnvType
<1>5. TypeParts'
  <2>1. EnvType'
    BY <1>2, <1>3, <1>4 DEF TypeParts, EnvType
  <2>2. attempt' \in 0..LastAttempt
    BY <1>2, <1>3, Bounds
  <2>3. CoordinatorType'
    BY <2>2, <1>1, <1>2, <1>3 DEF TypeParts, CoordinatorType
  <2>4. files' \in [1..LastAttempt -> Artifacts]
    BY <1>2, <1>3 DEF TypeParts, HostType, Artifacts
  <2> QED
    BY <2>1, <2>3, <2>4, <1>2, <1>3 DEF TypeParts, HostType, LeftoverType
<1>6. Counted'
  <2>1. /\ attempts' <= MaxAttempts + 1 + moves' /\ attempts' <= MaxAttempts + moves'
        /\ attempt' = attempts' + 1
    BY <1>2, <1>3, Bounds
  <2> QED
    BY <2>1 DEF Counted
<1>7. Held' /\ Genuine'
  BY <1>1, <1>2, <1>4 DEF Held, Genuine, InFlight
<1>8. Own'
  BY <1>1, <1>2 DEF Own, InFlight
<1> QED
  BY <1>5, <1>6, <1>7, <1>8 DEF Inductive

LEMMA TransportKeepsInductive ==
  ASSUME Inductive, Connect \/ PrepareFails \/ ConnectFails \/ SshReturns \/ SshBreaks
  PROVE  Inductive'
<1>0. TypeParts /\ InFlight /\ attempt \in 1..LastAttempt
  BY Numbered DEF Inductive, InFlight, Connect, PrepareFails, ConnectFails, SshReturns, SshBreaks
<1>1. CASE Connect
  <2>1. /\ pc = "dispatch" /\ pc' = "ssh" /\ worker' = NewProcess(attempt, "boot")
        /\ UNCHANGED <<labels, moves, crashes, attempts, next, attempt, failed, collected,
                       leftover, shared, files>>
    BY <1>1 DEF Connect, env
  <2>2. /\ worker' \in Process /\ worker'.attempt = attempt /\ worker'.at = "boot"
        /\ Honest(worker')
    <3>1. attempt \in 0..LastAttempt /\ "boot" \in Stage
      BY <1>0 DEF Stage
    <3> QED
      BY <3>1, <2>1, NewProcessType
  <2>3. ~failed
    BY <2>1 DEF Inductive, Genuine
  <2>4. TypeParts'
    BY <1>0, <2>1, <2>2 DEF TypeParts, EnvType, CoordinatorType, HostType, LeftoverType
  <2>5. Counted' /\ Held'
    BY <2>1, <2>2 DEF Inductive, Counted, Held, InFlight
  <2>6. Genuine' /\ Own'
    BY <2>1, <2>2, <2>3 DEF Inductive, Genuine, Own, InFlight
  <2> QED
    BY <2>4, <2>5, <2>6 DEF Inductive
<1>2. CASE PrepareFails \/ ConnectFails
  <2>1. /\ pc = "dispatch" /\ pc' \in {"collect", "settle"} /\ failed' = TRUE
        /\ UNCHANGED <<labels, moves, crashes, attempts, next, attempt, collected, worker,
                       leftover, shared, files>>
    BY <1>2 DEF PrepareFails, ConnectFails, env, host
  <2>2. TypeParts'
    BY <1>0, <2>1 DEF TypeParts, EnvType, CoordinatorType, HostType, LeftoverType
  <2>3. Counted' /\ Held'
    BY <2>1 DEF Inductive, Counted, Held, InFlight
  <2>4. Genuine' /\ Own'
    BY <2>1 DEF Genuine, Own
  <2> QED
    BY <2>2, <2>3, <2>4 DEF Inductive
<1>3. CASE SshReturns
  <2>1. /\ pc = "ssh" /\ ~Alive(worker) /\ pc' = "collect"
        /\ \E noise \in Noise : failed' = (TransportFailed(worker) \/ noise)
        /\ UNCHANGED <<labels, moves, crashes, attempts, next, attempt, collected, worker,
                       leftover, shared, files>>
    BY <1>3 DEF SshReturns, env, host
  <2>2. worker \in Process /\ Honest(worker) /\ ~failed
    BY <1>0, <2>1 DEF Inductive, Genuine, TypeParts, HostType
  <2>3. failed' \in BOOLEAN /\ (~failed' => ~worker.said /\ worker.code = 0)
    BY <2>1, <2>2 DEF TransportFailed, Noise, Process
  <2>4. ~failed' => /\ worker.at = "exited" /\ worker.code = 0 /\ worker.session
                    /\ worker.state = "completed" /\ ~worker.said
    BY <2>1, <2>2, <2>3 DEF Honest, Alive
  <2>5. TypeParts'
    BY <1>0, <2>1, <2>3 DEF TypeParts, EnvType, CoordinatorType, HostType, LeftoverType
  <2>6. Counted' /\ Held'
    BY <2>1 DEF Inductive, Counted, Held, InFlight
  <2>7. Genuine'
    BY <2>1, <2>4 DEF Genuine
  <2>8. Own'
    <3> SUFFICES ASSUME ~shared, ~failed'
                 PROVE  /\ \A p \in leftover : p.attempt # attempt
                        /\ files[attempt] = Complete
      BY <2>1 DEF Own
    <3>1. /\ \A p \in leftover : p.attempt # attempt
          /\ files[attempt].terminal = worker.state
          /\ worker.session => files[attempt].session = "this"
      BY <2>1, <2>2, <2>4 DEF Inductive, Own, InFlight
    <3>2. files[attempt] \in Artifacts
      BY <1>0 DEF TypeParts, HostType
    <3> QED
      BY <3>1, <3>2, <2>4 DEF Artifacts, Complete
  <2> QED
    BY <2>5, <2>6, <2>7, <2>8 DEF Inductive
<1>4. CASE SshBreaks
  <2>1. /\ pc = "ssh" /\ pc' = "collect" /\ failed' = TRUE /\ LeaveBehind(TRUE)
        /\ UNCHANGED <<labels, moves, crashes, attempts, next, attempt, collected, worker,
                       shared, files>>
    BY <1>4 DEF SshBreaks, env
  <2>2. LeftoverType'
    <3>1. LeftoverType /\ HostType /\ worker.attempt # 0 /\ TRUE \in BOOLEAN
      BY <1>0, <2>1, Bounds DEF Inductive, Held, TypeParts
    <3> QED
      BY <3>1, <2>1, LeaveBehindEffect
  <2>3. TypeParts'
    BY <1>0, <2>1, <2>2 DEF TypeParts, EnvType, CoordinatorType, HostType
  <2>4. Counted' /\ Held'
    BY <2>1 DEF Inductive, Counted, Held, InFlight
  <2>5. Genuine' /\ Own'
    BY <2>1 DEF Genuine, Own
  <2> QED
    BY <2>3, <2>4, <2>5 DEF Inductive
<1> QED
  BY <1>1, <1>2, <1>3, <1>4

LEMMA CollectKeepsInductive ==
  ASSUME Inductive, Collect
  PROVE  Inductive'
<1>1. PICK errors \in SUBSET DOMAIN NoArtifacts :
         /\ collected' = [f \in DOMAIN NoArtifacts |-> Copied(f, f \in errors)]
         /\ failed' = (failed \/ errors # {})
  BY DEF Collect
<1>2. /\ pc = "collect" /\ pc' = "settle"
      /\ UNCHANGED <<labels, moves, crashes, attempts, next, attempt, worker, leftover, shared,
                     files>>
  BY DEF Collect, env, host
<1>3. TypeParts /\ attempt \in 1..LastAttempt /\ files[attempt] \in Artifacts /\ failed \in BOOLEAN
  <2>1. TypeParts /\ InFlight
    BY <1>2 DEF Inductive, InFlight
  <2> QED
    BY <2>1, Numbered DEF TypeParts, HostType, CoordinatorType
<1>4. collected' = [session |-> Copied("session", "session" \in errors),
                    terminal |-> Copied("terminal", "terminal" \in errors)]
  BY <1>1 DEF NoArtifacts
<1>5. collected' \in Artifacts /\ failed' \in BOOLEAN
  BY <1>1, <1>3, <1>4 DEF Copied, Artifacts
<1>6. ~failed' => ~failed /\ errors = {} /\ collected' = files[attempt]
  BY <1>1, <1>3, <1>4 DEF Copied, Artifacts
<1>7. TypeParts'
  BY <1>2, <1>3, <1>5 DEF TypeParts, EnvType, CoordinatorType, HostType, LeftoverType
<1>8. Counted' /\ Held'
  BY <1>2 DEF Inductive, Counted, Held, InFlight
<1>9. Genuine' /\ Own'
  BY <1>2, <1>6 DEF Inductive, Genuine, Own, InFlight
<1> QED
  BY <1>7, <1>8, <1>9 DEF Inductive

LEMMA SettleKeepsInductive ==
  ASSUME Inductive, Settle
  PROVE  Inductive'
<1>1. /\ pc = "settle" /\ pc' = "idle" /\ InFlight /\ ~InFlight'
      /\ attempt' = 0 /\ failed' = FALSE /\ collected' = NoArtifacts
      /\ worker' = NoWorker /\ shared' = FALSE
      /\ UNCHANGED <<moves, crashes, files>>
  BY DEF Settle, SettleFailed, SettleCompleted, InFlight, env
<1>2. /\ TypeParts /\ Running \in labels /\ labels \in SUBSET Label /\ attempts \in Nat
      /\ moves \in 0..MaxOperatorMoves /\ attempts <= MaxAttempts + moves
  BY <1>1, Numbered, Bounds DEF Inductive, Held, TypeParts, EnvType, CoordinatorType
<1>3. NoWorker \in Process /\ NoArtifacts \in Artifacts /\ 0 \in 0..LastAttempt
  <2>1. 0 \in 0..LastAttempt /\ "off" \in Stage
    BY Bounds DEF Stage
  <2> QED
    BY <2>1, NewProcessType DEF NoWorker, NoArtifacts, Artifacts
<1>4. /\ labels' \in SUBSET Label /\ LeftoverType'
      /\ attempts' \in 0..LastAttempt /\ next' \in {"none", "later", "due"}
      /\ attempts' <= MaxAttempts + 1 + moves
      /\ IsCandidate(TRUE, labels', Exclude) => attempts' <= MaxAttempts + moves
  <2>1. CASE SettleFailed
    <3>1. PICK a \in IF Exhausted THEN MarkIssueBlocked(labels) ELSE ReleaseIssue(labels) :
             labels' = a.labels
      BY <2>1 DEF SettleFailed
    <3>2. attempts' = attempts + 1 /\ next' \in {"none", "later"} /\ leftover' = leftover
      BY <2>1 DEF SettleFailed
    <3>3. attempts' \in 0..LastAttempt /\ attempts' <= MaxAttempts + 1 + moves
      BY <3>2, <1>2, Bounds
    <3>4. LeftoverType'
      BY <3>2, <1>2 DEF TypeParts, LeftoverType
    <3>5. CASE Exhausted
      <4>1. labels' \in SUBSET Label /\ (Running \in labels' \/ Blocked \in labels')
        BY <3>1, <3>5, <1>2, BlockEffect
      <4> QED
        BY <4>1, <3>2, <3>3, <3>4, NoCandidate
    <3>6. CASE ~Exhausted
      <4>1. labels' \in SUBSET Label
        BY <3>1, <3>6, <1>2, ReleaseEffect
      <4>2. attempts' <= MaxAttempts + moves
        BY <3>2, <3>6, <1>2, Bounds DEF Exhausted
      <4> QED
        BY <4>1, <4>2, <3>2, <3>3, <3>4
    <3> QED
      BY <3>5, <3>6
  <2>2. CASE SettleCompleted
    <3>1. PICK a \in ReleaseIssue(labels) : labels' = a.labels
      BY <2>2 DEF SettleCompleted
    <3>2. attempts' = 0 /\ next' = "none" /\ LeaveBehind(FALSE)
      BY <2>2 DEF SettleCompleted
    <3>3. labels' \in SUBSET Label
      BY <3>1, <1>2, ReleaseEffect
    <3>4. LeftoverType'
      <4>1. LeftoverType /\ HostType /\ pc # "ssh" /\ FALSE \in BOOLEAN
        BY <1>1, <1>2 DEF TypeParts
      <4> QED
        BY <4>1, <3>2, LeaveBehindEffect
    <3>5. attempts' <= MaxAttempts + moves /\ attempts' <= MaxAttempts + 1 + moves
      BY <3>2, <1>2, Bounds
    <3> QED
      BY <3>2, <3>3, <3>4, <3>5, <1>3
  <2> QED
    BY <2>1, <2>2 DEF Settle
<1>5. TypeParts'
  BY <1>1, <1>2, <1>3, <1>4 DEF TypeParts, EnvType, CoordinatorType, HostType
<1>6. Counted'
  BY <1>1, <1>4 DEF Counted
<1>7. Held' /\ Genuine' /\ Own'
  BY <1>1 DEF Held, Genuine, Own, InFlight
<1> QED
  BY <1>5, <1>6, <1>7 DEF Inductive

LEMMA AroundKeepsInductive ==
  ASSUME Inductive, Crash \/ Restart \/ BackoffElapses \/ Requeue \/ UNCHANGED vars
  PROVE  Inductive'
<1>0. TypeParts /\ attempts \in Nat /\ moves \in 0..MaxOperatorMoves
  BY Bounds DEF Inductive, TypeParts, EnvType, CoordinatorType
<1>1. CASE Crash
  <2>1. /\ pc' = "down" /\ ~InFlight' /\ attempts' = 0 /\ next' = "none"
        /\ attempt' = 0 /\ failed' = FALSE /\ collected' = NoArtifacts
        /\ worker' = NoWorker /\ shared' = FALSE
        /\ crashes < MaxCrashes /\ crashes' = crashes + 1
        /\ LeaveBehind(FALSE) /\ UNCHANGED <<labels, moves, files>>
    BY <1>1 DEF Crash, InFlight
  <2>2. NoWorker \in Process /\ NoArtifacts \in Artifacts /\ 0 \in 0..LastAttempt
    <3>1. 0 \in 0..LastAttempt /\ "off" \in Stage
      BY Bounds DEF Stage
    <3> QED
      BY <3>1, NewProcessType DEF NoWorker, NoArtifacts, Artifacts
  <2>3. LeftoverType'
    <3>1. LeftoverType /\ HostType /\ FALSE \in BOOLEAN
      BY <1>0 DEF TypeParts
    <3>2. pc = "ssh" => worker.attempt # 0
      BY Numbered, Bounds DEF Inductive, Held, InFlight
    <3> QED
      BY <3>1, <3>2, <2>1, LeaveBehindEffect
  <2>4. EnvType'
    BY <1>0, <2>1, Bounds DEF TypeParts, EnvType
  <2>5. TypeParts'
    BY <1>0, <2>1, <2>2, <2>3, <2>4 DEF TypeParts, CoordinatorType, HostType
  <2>6. Counted'
    <3>1. attempts' <= MaxAttempts + 1 + moves' /\ attempts' <= MaxAttempts + moves'
      BY <1>0, <2>1, Bounds
    <3> QED
      BY <3>1, <2>1 DEF Counted
  <2>7. Held' /\ Genuine' /\ Own'
    BY <2>1 DEF Held, Genuine, Own, InFlight
  <2> QED
    BY <2>5, <2>6, <2>7 DEF Inductive
<1>2. CASE Requeue
  <2>1. /\ pc \in {"down", "idle"} /\ moves' = moves + 1 /\ labels' = {Ready}
        /\ moves < MaxOperatorMoves
        /\ UNCHANGED <<crashes, pc, attempts, next, attempt, failed, collected, worker, leftover,
                       shared, files>>
    BY <1>2 DEF Requeue, coordinator, host
  <2>2. EnvType'
    BY <1>0, <2>1, Bounds DEF TypeParts, EnvType, Label
  <2>3. TypeParts'
    BY <1>0, <2>1, <2>2 DEF TypeParts, CoordinatorType, HostType, LeftoverType
  <2>4. Counted'
    <3>1. attempts <= MaxAttempts + 1 + moves
      BY DEF Inductive, Counted
    <3>2. attempts' <= MaxAttempts + 1 + moves' /\ attempts' <= MaxAttempts + moves'
      BY <3>1, <1>0, <2>1, Bounds
    <3>3. ~InFlight'
      BY <2>1 DEF InFlight
    <3> QED
      BY <3>2, <3>3 DEF Counted
  <2>5. Held' /\ Genuine' /\ Own'
    BY <2>1 DEF Held, Genuine, Own, InFlight
  <2> QED
    BY <2>3, <2>4, <2>5 DEF Inductive
<1>3. CASE Restart \/ BackoffElapses \/ UNCHANGED vars
  <2>1. /\ pc' = pc \/ (pc = "down" /\ pc' = "idle")
        /\ next' = next \/ next' = "due"
        /\ UNCHANGED <<labels, moves, crashes, attempts, attempt, failed, collected, worker,
                       leftover, shared, files>>
    BY <1>3 DEF Restart, BackoffElapses, vars, env, coordinator, host
  <2>2. TypeParts'
    BY <1>0, <2>1 DEF TypeParts, EnvType, CoordinatorType, HostType, LeftoverType
  <2>3. Counted' /\ Held' /\ Genuine' /\ Own'
    BY <2>1 DEF Inductive, Counted, Held, Genuine, Own, InFlight
  <2> QED
    BY <2>2, <2>3 DEF Inductive
<1> QED
  BY <1>1, <1>2, <1>3

----------------------------------------------------------------------------
(* The theorems.                                                           *)

LEMMA InitInductive == Init => Inductive
<1> SUFFICES ASSUME Init PROVE Inductive
  OBVIOUS
<1>1. /\ 0 \in 0..LastAttempt /\ 0 \in 0..MaxOperatorMoves /\ 0 \in 0..MaxCrashes
      /\ "off" \in Stage
  BY Bounds DEF Stage
<1>2. NoWorker \in Process /\ NoArtifacts \in Artifacts
  BY <1>1, NewProcessType DEF NoWorker, NoArtifacts, Artifacts
<1>3. EnvType
  BY <1>1 DEF Init, EnvType, Label
<1>4. CoordinatorType /\ HostType
  BY <1>1, <1>2 DEF Init, CoordinatorType, HostType
<1>5. LeftoverType
  BY FS_EmptySet, Bounds DEF Init, LeftoverType
<1>6. pc = "idle" /\ ~InFlight /\ attempts = 0 /\ moves = 0
  BY DEF Init, InFlight
<1>7. Counted
  <2>1. attempts <= MaxAttempts + 1 + moves /\ attempts <= MaxAttempts + moves
    BY <1>6, Bounds
  <2> QED
    BY <1>6, <2>1, Zenon DEF Counted
<1>8. Held /\ Genuine /\ Own
  BY <1>6 DEF Held, Genuine, Own
<1> QED
  BY <1>3, <1>4, <1>5, <1>7, <1>8 DEF Inductive, TypeParts

LEMMA NextInductive == Inductive /\ [Next]_vars => Inductive'
  BY WorkerStepKeepsInductive, LeftoverStepKeepsInductive, ClaimKeepsInductive,
     TransportKeepsInductive, CollectKeepsInductive, SettleKeepsInductive, AroundKeepsInductive
     DEF Next, Coordinator

\* The strengthening of the invariants below holds of every behaviour.
THEOREM RemoteInductive == Spec => []Inductive
  BY InitInductive, NextInductive, PTL DEF Spec

\* Type correctness, with the bound on the attempts: an issue whose retries are
\* over gets no further one unless the operator queues it again.
THEOREM RemoteTypeCorrect == Spec => []RemoteTypeOK
<1>1. Inductive => RemoteTypeOK
  BY TypeFollows DEF Inductive
<1> QED
  BY <1>1, RemoteInductive, PTL

\* No lost connection, killed process or late answer passes for a success, with
\* any number of processes left behind (_run_remote_dispatch, run_real_worker).
THEOREM CompletedIsGenuineCorrect == Spec => []CompletedIsGenuine
<1>1. Inductive => CompletedIsGenuine
  BY DEF Inductive, Genuine, CompletedIsGenuine
<1> QED
  BY <1>1, RemoteInductive, PTL

\* A completed dispatch that began alone under its number has artifacts that
\* it wrote itself, however many attempts used the directory before.
THEOREM CompletedHasItsArtifactsCorrect == Spec => []CompletedHasItsArtifacts
<1>1. Inductive => CompletedHasItsArtifacts
  BY DEF Inductive, Own, InFlight, Complete, CompletedHasItsArtifacts
<1> QED
  BY <1>1, RemoteInductive, PTL
=============================================================================
