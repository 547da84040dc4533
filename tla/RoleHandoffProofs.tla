-------------------------- MODULE RoleHandoffProofs --------------------------
(***************************************************************************)
(* Two daemons never work on the same issue, proved for every role graph   *)
(* with exclusive claims, every number of daemons that share its roles,    *)
(* and whatever calls are rejected; no run passes a gate without the       *)
(* evidence it asks for, proved for every role graph, fault and crash;     *)
(* and as long as no call fails, no daemon crashes and no move stays       *)
(* where it is, the daemons implement IssueHandoff, so that an issue       *)
(* nobody works on is in one state.                                        *)
(***************************************************************************)
EXTENDS RoleHandoff, FiniteSetTheorems, SequenceTheorems, TLAPS

----------------------------------------------------------------------------
(* The inductive invariant.                                                *)

Delete(l)  == <<Do("delete", l)>>
Recovering == {"recovering", "settling"}
BlockTail  == <<Do("try_delete", ClaimLabel), Do("try_delete", ReadyLabel)>>
LastDrop   == <<Do("try_delete", ReadyLabel)>>

\* What is left of the move out of a role's state.
Leaving(j) == {Move(RoleState(j), l) : l \in States} \cup {Delete(RoleState(j))}
Blocking   == {MarkBlocked, BlockTail, LastDrop}

\* The record of a job: a role where one is played, a state to go back to
\* unless the run was resumed, and nothing left to recover once it is idle.
Ops(claimed) == IF claimed THEN Op ELSE Op \ {Release}

JobShape(j) ==
  /\ j \in Job
  /\ j.at \in InRole => j.role \in Roles /\ RoleState(j) \in States
  /\ j.at \in {"claiming", "claimed", "preflight", "starting", "releasing"} => j.home \in States
  /\ j.tries \in Seq(Ops(j.home \in States))
  /\ j.at = "routing" => j.tries # <<>>
  /\ j.at \in Recovering => j.left > 0
  /\ j.at \in {"idle", "down", "fetched"} => j.left = 0

CallsShape(j) ==
  /\ j.at \in {"idle", "fetched", "claimed", "starting", "running", "down", "recovering"} =>
       j.calls = <<>>
  /\ j.at = "claiming" => j.calls \in {Move(j.home, RoleState(j)), Delete(j.home)}
  /\ j.at \in {"preflight", "releasing"} => j.calls \in Leaving(j)
  /\ j.at = "routing" => j.calls \in Leaving(j) \cup Blocking
  /\ j.at = "settling" => j.calls \in Blocking \cup {ReleaseClaim}

EnvType ==
  /\ labels \subseteq States /\ policy \in Policies /\ faults \in FaultModels
  /\ crashes \in 0..MaxCrashes /\ moves \in 0..MaxHumanMoves

TypeParts ==
  /\ EnvType
  /\ records \in [Daemons -> 0..MaxRecords]
  /\ job \in [Daemons -> Job]
  /\ \A d \in Daemons :
       JobShape(job[d]) /\ CallsShape(job[d]) /\ job[d].left <= records[d]

\* Daemon d, doing j, is about to claim: it goes by the labels it has fetched.
Target(j)     == IF j.at = "fetched" THEN StateIn(j.seen) ELSE j.home
Pending(d, j) ==
  \/ j.at = "fetched" /\ Dispatchable(j.seen, Enabled[d])
  \/ j.at = "claiming" /\ j.calls = Move(j.home, RoleState(j))

\* It has the issue, until it drops the last label.
Holding(d, j) ==
  j.at \in InRole /\ ~Pending(d, j) /\ ~(j.at = "routing" /\ j.calls = LastDrop)

\* The state it is about to claim is one for an agent role of its own.
OwnState(d, s) ==
  /\ s \in States
  /\ DispatchRole(s) \in Enabled[d] \cap Roles
  /\ s \in CanClaim[DispatchRole(s)] /\ ByAgent(DispatchRole(s))

\* Until somebody crashes there is nothing to recover; the labels show who has
\* the issue, and that nobody has it while somebody is about to claim it.
Owned(d, j, ls) ==
  /\ j.at \notin {"down", "recovering", "settling"} /\ j.left = 0
  /\ Pending(d, j) => OwnState(d, Target(j)) /\ ls \subseteq {Target(j)}
  /\ Holding(d, j) => RoleState(j) \in ls
  /\ j.at = "claiming" => j.home \in CanClaim[j.role]

Owner(d) == Pending(d, job[d]) \/ Holding(d, job[d])

Exclusive ==
  /\ \A d \in Daemons : Owned(d, job[d], labels)
  /\ \A d, e \in Daemons : Owner(d) /\ Owner(e) => d = e

OwnedOnce == RolesAreShared /\ ClaimsAreExclusive /\ Calm => Exclusive

Inductive == TypeParts /\ OwnedOnce

----------------------------------------------------------------------------
(* The role graph.                                                         *)

\* A set of positions has a first one.
LEMMA FirstOf ==
  ASSUME NEW n \in Nat, NEW T \in SUBSET (1..n), T # {}
  PROVE  \E x \in T : \A y \in T : x <= y
<1> DEFINE UpTo(k) == 1..k
           Chain == {UpTo(k) : k \in T}
<1>1. IsFiniteSet(1..n)
  BY FS_Interval
<1>2. IsWellFoundedOn(StrictSubsetOrdering(1..n), SUBSET (1..n))
  BY <1>1, FS_StrictSubsetOrderingWellFounded, FS_FiniteSubsetsOfFinite
<1>3. Chain \subseteq SUBSET (1..n) /\ Chain # {}
  <2>1. \A k \in T : UpTo(k) \subseteq 1..n
    OBVIOUS
  <2> HIDE DEF UpTo
  <2> QED
    BY <2>1
<1>4. PICK C \in Chain : \A D \in Chain : <<D, C>> \notin StrictSubsetOrdering(1..n)
  BY <1>2, <1>3, WFMin
<1>5. PICK x \in T : C = UpTo(x)
  BY <1>4
<1>6. ASSUME NEW y \in T, y < x PROVE FALSE
  <2>1. UpTo(y) \subseteq UpTo(x) /\ x \in UpTo(x) /\ x \notin UpTo(y)
    BY <1>6
  <2>2. UpTo(y) \in Chain /\ UpTo(y) \in SUBSET (1..n) /\ C \in SUBSET (1..n)
    BY <1>3, <1>4
  <2>3. <<UpTo(y), C>> \in StrictSubsetOrdering(1..n)
    BY <2>1, <2>2, <1>5 DEF StrictSubsetOrdering
  <2> QED
    BY <1>4, <2>2, <2>3
<1> QED
  BY <1>6

\* Where an issue is dispatched there is a role that can claim its state.
LEMMA DispatchRoleClaims ==
  ASSUME NEW s, DispatchRole(s) # None
  PROVE  DispatchRole(s) \in Roles /\ s \in CanClaim[DispatchRole(s)]
<1>1. PICK n \in Nat : DOMAIN RoleOrder = 1..n
  BY RoleGraphAssumption
<1>2. Claimants(s) # {} /\ Claimants(s) \in SUBSET (1..n)
  BY <1>1 DEF DispatchRole, Claimants
<1>3. \E k \in Claimants(s) : \A j \in Claimants(s) : k <= j
  BY <1>2, FirstOf
<1>4. PICK k \in Claimants(s) : DispatchRole(s) = RoleOrder[k]
  BY <1>2, <1>3 DEF DispatchRole
<1> QED
  BY <1>4 DEF Claimants, Roles

\* One label is the state it stands for.
LEMMA OneLabel ==
  ASSUME NEW ls, IsFiniteSet(ls), Resolves(ls)
  PROVE  ls = {StateIn(ls)}
<1>1. Cardinality(ls) = 1
  BY DEF Resolves
<1>2. PICK x : ls = {x}
  BY <1>1, FS_Singleton
<1> QED
  BY <1>2 DEF StateIn

LEMMA StatesAreFinite ==
  ASSUME NEW ls \in SUBSET States PROVE IsFiniteSet(ls)
  BY RoleGraphAssumption, FS_Subset

\* A daemon's own states.
LEMMA DispatchableOwn ==
  ASSUME NEW d \in Daemons, NEW ls \in SUBSET States, Dispatchable(ls, Enabled[d])
  PROVE  ls = {StateIn(ls)} /\ OwnState(d, StateIn(ls))
         /\ ClaimState[DispatchRole(StateIn(ls))] \in States
<1> DEFINE s == StateIn(ls)
<1>1. ls = {s} /\ s \in States
  BY OneLabel, StatesAreFinite DEF Dispatchable
<1>2. /\ DispatchRole(s) # None /\ DispatchRole(s) \in Enabled[d] /\ ByAgent(DispatchRole(s))
      /\ ClaimState[DispatchRole(s)] # None
  BY DEF Dispatchable
<1>3. DispatchRole(s) \in Roles /\ s \in CanClaim[DispatchRole(s)]
  BY <1>2, DispatchRoleClaims
<1> QED
  BY <1>1, <1>2, <1>3, RoleGraphAssumption DEF OwnState

\* What is requested of the role graph is one of its transitions, if any.
LEMMA FirstTransitionType ==
  ASSUME NEW r, NEW S, NEW names \in Seq(S)
  PROVE  FirstTransition(r, names) \in Transitions \cup {None}
<1> DEFINE own == {k \in DOMAIN names : names[k] \in Transitions /\ RoleOf[names[k]] = r}
<1>1. CASE own = {}
  BY <1>1 DEF FirstTransition
<1>2. CASE own # {}
  <2>1. PICK n \in Nat : DOMAIN names = 1..n
    OBVIOUS
  <2>2. \E k \in own : \A j \in own : k <= j
    BY <1>2, <2>1, FirstOf
  <2>3. PICK k \in own : FirstTransition(r, names) = names[k]
    BY <1>2, <2>2 DEF FirstTransition
  <2> QED
    BY <2>3
<1> QED
  BY <1>1, <1>2

----------------------------------------------------------------------------
(* What the end of a run tries.                                            *)

\* The operations a run of role r in state s may end with after o: a transition
\* is one of its own whose verifiable requirements it fulfils.
Fitting(op, r, s, earned) ==
  op \in Transitions =>
    /\ RoleOf[op] = r /\ s \in FromStates[op]
    /\ Requires[op] \cap Verifiable \subseteq earned

Earned(r, s, c, o) == {op \in Ops(c) : Fitting(op, r, s, Proved(o))}

LEMMA ConcatType ==
  ASSUME NEW S, NEW s \in Seq(S), NEW t \in Seq(S)
  PROVE  s \o t \in Seq(S) /\ (t # <<>> => s \o t # <<>>)
<1>1. s \o t \in Seq(S) /\ Len(s \o t) = Len(s) + Len(t)
  OBVIOUS
<1>2. t # <<>> => Len(t) > 0
  BY EmptySeq
<1> QED
  BY <1>1, <1>2, EmptySeq

LEMMA OnlyIfType ==
  ASSUME NEW S, NEW cond, NEW ops \in Seq(S)
  PROVE  OnlyIf(cond, ops) \in Seq(S)
  BY EmptySeq DEF OnlyIf

LEMMA OneOp ==
  ASSUME NEW S, NEW op \in S
  PROVE  <<op>> \in Seq(S) /\ <<op>> # <<>>
  OBVIOUS

LEMMA PlannedIsTransition ==
  ASSUME NEW r, NEW t, NEW s, NEW e, PlanTransition(r, t, s, e) = "ok"
  PROVE  t \in Transitions /\ RoleOf[t] = r /\ s \in FromStates[t] /\ Requires[t] \subseteq e
  BY DEF PlanTransition

\* Comments aside, the evidence the code goes by is what the facts prove.
LEMMA EvidenceIsProved ==
  ASSUME NEW t, NEW o \in Outcome
  PROVE  Evidence(t, o) \cap Verifiable \subseteq Proved(o)
<1>1. Attested(t, o) \cap Verifiable \subseteq {"pr_approval", "pr_merged"}
  BY DEF Attested, Verifiable
<1>2. "pr_approval" \in Attested(t, o) => VerifiedApproval(o)
  BY DEF Attested
<1>3. "pr_merged" \in Attested(t, o) => o.merged
  BY DEF Attested
<1>4. /\ "pr_link" \in Evidence(t, o) => o.linked \/ "pr_link" \in Attested(t, o)
      /\ "pr_approval" \in Evidence(t, o) => "pr_approval" \in Attested(t, o)
      /\ "pr_merged" \in Evidence(t, o) => "pr_merged" \in Attested(t, o)
      /\ "design_checklist" \in Evidence(t, o) =>
           o.design \/ "design_checklist" \in Attested(t, o)
  BY DEF Evidence
<1>5. /\ o.linked => "pr_link" \in Proved(o)
      /\ VerifiedApproval(o) => "pr_approval" \in Proved(o)
      /\ o.merged => "pr_merged" \in Proved(o)
      /\ o.design => "design_checklist" \in Proved(o)
  BY DEF Proved, Verifiable, VerifiedApproval
<1>6. "pr_link" \notin Attested(t, o) /\ "design_checklist" \notin Attested(t, o)
  BY <1>1 DEF Verifiable
<1> QED
  BY <1>2, <1>3, <1>4, <1>5, <1>6 DEF Verifiable

LEMMA BlockIsOp ==
  ASSUME NEW c
  PROVE  Block \in Ops(c) /\ Transitions \subseteq Ops(c)
         /\ Block \notin Transitions /\ Release \notin Transitions
  BY RoleGraphAssumption DEF Ops, Op, Release, Block

\* A transition that was planned may be tried.
LEMMA PlannedIsEarned ==
  ASSUME NEW r, NEW t, NEW s, NEW c, NEW o, NEW e,
         PlanTransition(r, t, s, e) = "ok", e \cap Verifiable \subseteq Proved(o)
  PROVE  t \in Earned(r, s, c, o)
  BY PlannedIsTransition, BlockIsOp DEF Earned, Fitting

LEMMA ChangesRequestedType ==
  ASSUME NEW r, NEW s, NEW c, NEW o
  PROVE  ChangesRequested(r, s) \in Seq(Earned(r, s, c, o))
<1>1. CASE PlanTransition(r, "changes_requested", s, {"review_comment"}) = "ok"
  <2>1. {"review_comment"} \cap Verifiable \subseteq Proved(o)
    BY DEF Verifiable
  <2>2. "changes_requested" \in Earned(r, s, c, o)
    BY <1>1, <2>1, PlannedIsEarned
  <2> QED
    BY <2>2, OneOp, OnlyIfType DEF ChangesRequested
<1>2. CASE PlanTransition(r, "changes_requested", s, {"review_comment"}) # "ok"
  BY <1>2, EmptySeq DEF ChangesRequested, OnlyIf
<1> QED
  BY <1>1, <1>2

LEMMA ReleaseIfClaimed ==
  ASSUME NEW r, NEW s, NEW o, NEW c \in BOOLEAN, NEW p \in BOOLEAN
  PROVE  OnlyIf(p /\ c, <<Release>>) \in Seq(Earned(r, s, c, o))
<1>1. CASE c
  <2>1. Release \in Earned(r, s, c, o)
    BY <1>1, BlockIsOp DEF Earned, Fitting, Ops, Op
  <2> QED
    BY <2>1, OneOp, OnlyIfType
<1>2. CASE ~c
  BY <1>2, EmptySeq DEF OnlyIf
<1> QED
  BY <1>1, <1>2

LEMMA BlockIsEarned ==
  ASSUME NEW r, NEW s, NEW c, NEW o
  PROVE  Block \in Earned(r, s, c, o)
  BY BlockIsOp DEF Earned, Fitting

LEMMA FallbackType ==
  ASSUME NEW r, NEW s, NEW c \in BOOLEAN, NEW o \in Outcome, NEW code
  PROVE  Fallback(r, s, c, o, code) \in Seq(Earned(r, s, c, o)) /\ Fallback(r, s, c, o, code) # <<>>
<1> DEFINE asked    == Requested(r, o)
           escalate == FirstTransition(r, <<"operator_blocked", "needs_leader">>)
           design   == asked \in {"decision_to_impl", "decision_to_review"}
                         /\ code = "missing_evidence"
           review   == asked = "approved" /\ code = "missing_evidence" /\ ~VerifiedApproval(o)
           goes     == escalate \notin {None, asked}
                         /\ PlanTransition(r, escalate, s, {"issue_comment"}) = "ok"
           first  == OnlyIf(design /\ c, <<Release>>)
           second == OnlyIf(review /\ (o.threads \/ "fail" \in o.checklists \/ "pass" \notin o.checklists),
                            ChangesRequested(r, s))
           third  == OnlyIf(review /\ c, <<Release>>)
           fourth == OnlyIf(goes, <<escalate>>)
<1>1. first \in Seq(Earned(r, s, c, o)) /\ third \in Seq(Earned(r, s, c, o))
  BY ReleaseIfClaimed
<1>2. second \in Seq(Earned(r, s, c, o))
  BY ChangesRequestedType, OnlyIfType
<1>3. fourth \in Seq(Earned(r, s, c, o))
  <2>1. CASE goes
    <3>1. {"issue_comment"} \cap Verifiable \subseteq Proved(o)
      BY DEF Verifiable
    <3>2. escalate \in Earned(r, s, c, o)
      BY <2>1, <3>1, PlannedIsEarned
    <3> HIDE DEF escalate
    <3> QED
      BY <3>2, OneOp, OnlyIfType
  <2>2. CASE ~goes
    <3> HIDE DEF goes
    <3> QED
      BY <2>2, EmptySeq DEF OnlyIf
  <2> QED
    BY <2>1, <2>2
<1>4. <<Block>> \in Seq(Earned(r, s, c, o)) /\ <<Block>> # <<>>
  BY BlockIsEarned, OneOp
<1>5. Fallback(r, s, c, o, code) = first \o second \o third \o fourth \o <<Block>>
  BY DEF Fallback
<1> HIDE DEF first, second, third, fourth
<1>6. first \o second \o third \o fourth \in Seq(Earned(r, s, c, o))
  BY <1>1, <1>2, <1>3, ConcatType
<1> QED
  BY <1>4, <1>5, <1>6, ConcatType

LEMMA OverrideType ==
  ASSUME NEW r, NEW s, NEW c \in BOOLEAN, NEW o \in Outcome
  PROVE  Override(r, s, c, o) \in Seq(Earned(r, s, c, o))
<1> DEFINE first  == OnlyIf(o.threads, ChangesRequested(r, s))
           second == OnlyIf("pass" \notin o.checklists, ChangesRequested(r, s))
           third  == OnlyIf(~o.approval /\ c, <<Release>>)
           cond   == s = "reviewing" /\ Requested(r, o) = "needs_leader" /\ o.linked
<1>1. first \in Seq(Earned(r, s, c, o)) /\ second \in Seq(Earned(r, s, c, o))
  BY ChangesRequestedType, OnlyIfType
<1>2. third \in Seq(Earned(r, s, c, o))
  BY ReleaseIfClaimed
<1>3. Override(r, s, c, o) = OnlyIf(cond, first \o second \o third)
  BY DEF Override
<1> HIDE DEF first, second, third, cond
<1>4. first \o second \o third \in Seq(Earned(r, s, c, o))
  BY <1>1, <1>2, ConcatType
<1> QED
  BY <1>3, <1>4, OnlyIfType

LEMMA RoutingType ==
  ASSUME NEW r, NEW s, NEW c \in BOOLEAN, NEW o \in Outcome
  PROVE  Routing(r, s, c, o) \in Seq(Earned(r, s, c, o)) /\ Routing(r, s, c, o) # <<>>
<1> DEFINE asked == Requested(r, o)
           code  == PlanTransition(r, asked, s, Evidence(asked, o))
<1>1. CASE o.task = "role_action_error"
  <2>1. Routing(r, s, c, o) = IF c THEN <<Release>> ELSE <<Block>>
    BY <1>1 DEF Routing
  <2>2. c => Release \in Earned(r, s, c, o)
    BY BlockIsOp DEF Earned, Fitting, Ops, Op
  <2> QED
    BY <2>1, <2>2, BlockIsEarned, OneOp
<1>2. CASE o.task # "role_action_error" /\ asked = None
  <2>1. Routing(r, s, c, o) = Fallback(r, s, c, o, "no_transition_for_outcome")
    BY <1>2 DEF Routing
  <2> QED
    BY <2>1, FallbackType
<1>3. CASE o.task # "role_action_error" /\ asked # None /\ code = "ok"
  <2>1. Routing(r, s, c, o) =
          Override(r, s, c, o) \o (<<asked>> \o Fallback(r, s, c, o, "apply_transition_failed"))
    BY <1>3 DEF Routing
  <2>2. asked \in Earned(r, s, c, o)
    BY <1>3, EvidenceIsProved, PlannedIsEarned
  <2>3. <<asked>> \in Seq(Earned(r, s, c, o))
    BY <2>2, OneOp
  <2> HIDE DEF asked
  <2>4. /\ <<asked>> \o Fallback(r, s, c, o, "apply_transition_failed") \in Seq(Earned(r, s, c, o))
        /\ <<asked>> \o Fallback(r, s, c, o, "apply_transition_failed") # <<>>
    BY <2>3, FallbackType, ConcatType
  <2> QED
    BY <2>1, <2>4, OverrideType, ConcatType
<1>4. CASE o.task # "role_action_error" /\ asked # None /\ code # "ok"
  <2>1. Routing(r, s, c, o) = Override(r, s, c, o) \o Fallback(r, s, c, o, code)
    BY <1>4 DEF Routing
  <2> QED
    BY <2>1, OverrideType, FallbackType, ConcatType
<1> QED
  BY <1>1, <1>2, <1>3, <1>4

----------------------------------------------------------------------------
(* The calls of an operation.                                              *)

LEMMA CallFacts ==
  ASSUME NEW a \in States, NEW b \in States
  PROVE  /\ Move(a, b) \in Seq(Call) /\ Delete(a) \in Seq(Call)
         /\ Head(Move(a, b)) = Do("add", b) /\ Tail(Move(a, b)) = Delete(a)
         /\ Len(Move(a, b)) = 2 /\ Move(a, b) # <<>>
         /\ Head(Delete(a)) = Do("delete", a) /\ Len(Delete(a)) = 1 /\ Delete(a) # <<>>
         /\ Move(a, b) # LastDrop /\ Delete(a) # LastDrop
         /\ \A c, d : Delete(a) # Move(c, d)
<1>1. Do("add", b) \in Call /\ Do("delete", a) \in Call
  BY DEF Do, Call
<1>2. Move(a, b) = <<Do("add", b), Do("delete", a)>> /\ Delete(a) = <<Do("delete", a)>>
  BY DEF Move, Delete
<1>3. Do("delete", a) # Do("try_delete", ReadyLabel) /\ LastDrop = <<Do("try_delete", ReadyLabel)>>
  BY DEF Do, LastDrop
<1>4. Delete(a) # LastDrop
  BY <1>2, <1>3
<1>5. Move(a, b) # LastDrop
  <2>1. Len(Move(a, b)) = 2 /\ Len(LastDrop) = 1
    BY <1>2, <1>3
  <2> QED
    BY <2>1
<1>6. \A c, d : Delete(a) # Move(c, d)
  <2>1. \A c, d : Len(Move(c, d)) = 2 /\ Len(Delete(a)) = 1
    BY <1>2 DEF Move
  <2> QED
    BY <2>1
<1> QED
  BY <1>1, <1>2, <1>4, <1>5, <1>6

LEMMA BlockCallFacts ==
  /\ Blocking \subseteq Seq(Call) /\ ReleaseClaim \in Seq(Call)
  /\ Head(MarkBlocked) = Do("add", BlockedLabel) /\ Tail(MarkBlocked) = BlockTail
  /\ Head(BlockTail) = Do("try_delete", ClaimLabel) /\ Tail(BlockTail) = LastDrop
  /\ Head(LastDrop) = Do("try_delete", ReadyLabel)
  /\ Head(ReleaseClaim) = Do("try_delete", ClaimLabel)
  /\ Len(MarkBlocked) = 3 /\ Len(BlockTail) = 2 /\ Len(LastDrop) = 1 /\ Len(ReleaseClaim) = 1
  /\ MarkBlocked # LastDrop /\ BlockTail # LastDrop
<1> DEFINE ab == Do("add", BlockedLabel)
           dc == Do("try_delete", ClaimLabel)
           dr == Do("try_delete", ReadyLabel)
<1>1. ab \in Call /\ dc \in Call /\ dr \in Call
  BY RoleGraphAssumption DEF Do, Call
<1>2. MarkBlocked = <<ab, dc, dr>> /\ BlockTail = <<dc, dr>> /\ LastDrop = <<dr>>
      /\ ReleaseClaim = <<dc>>
  BY DEF MarkBlocked, BlockTail, LastDrop, ReleaseClaim
<1> HIDE DEF ab, dc, dr
<1>3. MarkBlocked \in Seq(Call) /\ BlockTail \in Seq(Call) /\ LastDrop \in Seq(Call)
      /\ ReleaseClaim \in Seq(Call)
  BY <1>1, <1>2
<1>4. /\ Head(MarkBlocked) = ab /\ Tail(MarkBlocked) = BlockTail
      /\ Head(BlockTail) = dc /\ Tail(BlockTail) = LastDrop
      /\ Head(LastDrop) = dr /\ Head(ReleaseClaim) = dc
      /\ Len(MarkBlocked) = 3 /\ Len(BlockTail) = 2 /\ Len(LastDrop) = 1 /\ Len(ReleaseClaim) = 1
  BY <1>2
<1>5. MarkBlocked # LastDrop /\ BlockTail # LastDrop
  BY <1>4
<1> QED
  BY <1>3, <1>4, <1>5 DEF Blocking, ab, dc, dr

LEMMA CallsOfType ==
  ASSUME NEW j \in Job, j.role \in Roles, RoleState(j) \in States,
         NEW op \in Ops(j.home \in States)
  PROVE  IF op = Block THEN CallsOf(j, op) = MarkBlocked ELSE CallsOf(j, op) \in Leaving(j)
<1>1. CASE op = Release
  <2>1. j.home \in States
    BY <1>1 DEF Ops
  <2>2. CallsOf(j, op) = Move(RoleState(j), j.home) /\ op # Block
    BY <1>1 DEF CallsOf, Release, Block
  <2> QED
    BY <2>1, <2>2 DEF Leaving
<1>2. CASE op = Block
  <2>1. CallsOf(j, op) = MarkBlocked
    BY <1>2 DEF CallsOf, Release, Block
  <2> QED
    BY <2>1, <1>2
<1>3. CASE op \in Transitions /\ op # Release /\ op # Block
  <2>1. CallsOf(j, op) = Move(RoleState(j), ToState[op])
    BY <1>3 DEF CallsOf
  <2> QED
    BY <2>1, <1>3, RoleGraphAssumption DEF Leaving
<1> QED
  BY <1>1, <1>2, <1>3 DEF Ops, Op

\* The calls a role has left are calls.
LEMMA LeavingType ==
  ASSUME NEW j, RoleState(j) \in States
  PROVE  Leaving(j) \subseteq Seq(Call)
  BY CallFacts DEF Leaving

----------------------------------------------------------------------------
(* The jobs.                                                               *)

LEMMA JobFields ==
  ASSUME NEW j \in Job
  PROVE  /\ j.at \in At /\ j.seen \subseteq States /\ j.role \in Roles \cup {None}
         /\ j.home \in States \cup {None} /\ j.calls \in Seq(Call) /\ j.tries \in Seq(Op)
         /\ j.earned \subseteq Verifiable /\ j.left \in 0..MaxRecords
  BY DEF Job

LEMMA JobUpdates ==
  ASSUME NEW j \in Job
  PROVE  /\ \A a \in At : [j EXCEPT !.at = a] \in Job
         /\ \A c \in Seq(Call) : [j EXCEPT !.calls = c] \in Job
         /\ \A a \in At, c \in Seq(Call) : [j EXCEPT !.at = a, !.calls = c] \in Job
         /\ \A a \in At, c \in Seq(Call), e \in SUBSET Verifiable :
              [j EXCEPT !.at = a, !.calls = c, !.earned = e] \in Job
         /\ \A t \in Seq(Op), c \in Seq(Call) : [j EXCEPT !.tries = t, !.calls = c] \in Job
         /\ \A a \in At, t \in Seq(Op), c \in Seq(Call), e \in SUBSET Verifiable :
              [j EXCEPT !.at = a, !.tries = t, !.calls = c, !.earned = e] \in Job
         /\ \A a \in At, r \in Roles : [j EXCEPT !.at = a, !.role = r] \in Job
         /\ \A a \in At, r \in Roles, h \in States, s \in SUBSET States, c \in Seq(Call) :
              [j EXCEPT !.at = a, !.role = r, !.home = h, !.seen = s, !.calls = c] \in Job
  BY DEF Job

LEMMA NoJobType ==
  /\ NoJob \in Job /\ NoJob.at = "idle" /\ NoJob.left = 0 /\ NoJob.calls = <<>>
  /\ \A a \in At : [NoJob EXCEPT !.at = a] \in Job
  /\ \A a \in At, s \in SUBSET States : [NoJob EXCEPT !.at = a, !.seen = s] \in Job
  /\ \A a \in At, s \in SUBSET States, n \in 0..MaxRecords :
       [NoJob EXCEPT !.at = a, !.seen = s, !.left = n] \in Job
<1>1. 0 \in 0..MaxRecords /\ "idle" \in At
  BY RoleHandoffAssumption DEF At
<1>2. <<>> \in Seq(Call) /\ <<>> \in Seq(Op)
  BY EmptySeq
<1>3. NoJob \in Job
  BY <1>1, <1>2 DEF NoJob, Job
<1>4. /\ \A a \in At : [NoJob EXCEPT !.at = a] \in Job
      /\ \A a \in At, s \in SUBSET States : [NoJob EXCEPT !.at = a, !.seen = s] \in Job
      /\ \A a \in At, s \in SUBSET States, n \in 0..MaxRecords :
           [NoJob EXCEPT !.at = a, !.seen = s, !.left = n] \in Job
  BY <1>3 DEF Job
<1> QED
  BY <1>3, <1>4 DEF NoJob

\* A daemon that does nothing about the issue.
LEMMA RestShape ==
  ASSUME NEW k \in Job, k.at \in {"idle", "down", "fetched"}, k.left = 0,
         k.calls = <<>>, k.tries = <<>>
  PROVE  JobShape(k) /\ CallsShape(k)
<1>1. k.tries \in Seq(Ops(k.home \in States))
  BY EmptySeq
<1> QED
  BY <1>1 DEF JobShape, CallsShape, InRole, Recovering

LEMMA LeftShape ==
  ASSUME NEW j \in Job
  PROVE  /\ JobShape(Left(j)) /\ CallsShape(Left(j))
         /\ j.left > 1 => Left(j).left = j.left - 1
         /\ j.left <= 1 => Left(j).left = 0 /\ Left(j) = NoJob
         /\ Left(j).at \in {"idle", "recovering"} /\ (Left(j).at = "recovering" => j.left > 1)
<1>1. j.left \in 0..MaxRecords /\ j.seen \subseteq States /\ MaxRecords \in Nat
  BY JobFields, RoleHandoffAssumption
<1>2. CASE j.left > 1
  <2> DEFINE k == [NoJob EXCEPT !.at = "recovering", !.seen = j.seen, !.left = j.left - 1]
  <2>1. Left(j) = k
    BY <1>2 DEF Left
  <2>2. k \in Job
    <3>1. j.left - 1 \in 0..MaxRecords /\ "recovering" \in At
      BY <1>1, <1>2 DEF At
    <3> QED
      BY <1>1, <3>1, NoJobType
  <2>3. k.at = "recovering" /\ k.left = j.left - 1 /\ k.calls = <<>> /\ k.tries = <<>>
    BY DEF NoJob
  <2>4. k.tries \in Seq(Ops(k.home \in States))
    BY <2>3, EmptySeq
  <2> HIDE DEF k
  <2>5. JobShape(k) /\ CallsShape(k)
    BY <1>1, <1>2, <2>2, <2>3, <2>4 DEF JobShape, CallsShape, InRole, Recovering
  <2> QED
    BY <1>1, <1>2, <2>1, <2>3, <2>5
<1>3. CASE j.left <= 1
  <2>1. Left(j) = NoJob
    BY <1>1, <1>3 DEF Left
  <2>2. JobShape(NoJob) /\ CallsShape(NoJob)
    BY RestShape, NoJobType DEF NoJob
  <2>3. JobShape(Left(j)) /\ CallsShape(Left(j))
    BY <2>1, <2>2
  <2>4. Left(j).at = "idle" /\ Left(j).left = 0
    BY <2>1, NoJobType
  <2>5. ~(j.left > 1)
    BY <1>1, <1>3
  <2> QED
    BY <2>1, <2>3, <2>4, <2>5
<1> QED
  BY <1>1, <1>2, <1>3

\* What a role has left to call, as a case distinction on where it is.
LEMMA CallsLeft ==
  ASSUME NEW j, JobShape(j), CallsShape(j), j.calls # <<>>
  PROVE  /\ j.at \in {"claiming", "preflight", "releasing", "routing", "settling"}
         /\ j.at # "settling" => j.role \in Roles /\ RoleState(j) \in States
         /\ j.at = "claiming" => j.home \in States
         /\ j.calls \in Seq(Call)
  BY DEF JobShape, CallsShape, InRole, Job, At

LEMMA SeqOpsMono ==
  ASSUME NEW c, NEW s \in Seq(Ops(c)) PROVE s \in Seq(Op)
<1>1. Ops(c) \subseteq Op
  BY DEF Ops
<1> QED
  BY <1>1

LEMMA TailOps ==
  ASSUME NEW S, NEW s \in Seq(S), Len(s) > 1
  PROVE  s[2] \in S /\ Tail(s) \in Seq(S) /\ Tail(s) # <<>>
<1>1. s[2] \in S /\ s # <<>>
  BY EmptySeq
<1>2. Tail(s) \in Seq(S) /\ Len(Tail(s)) = Len(s) - 1
  BY <1>1
<1>3. Len(s) \in Nat /\ Len(s) - 1 # 0
  OBVIOUS
<1>4. Len(<<>>) = 0
  BY EmptySeq
<1>5. Tail(s) # <<>>
  BY <1>2, <1>3, <1>4, Zenon
<1> QED
  BY <1>1, <1>2, <1>5

\* What an operation that raised leads to.
LEMMA FailedShape ==
  ASSUME NEW j, JobShape(j), CallsShape(j), j.calls # <<>>
  PROVE  /\ JobShape(Failed(j)) /\ CallsShape(Failed(j))
         /\ \/ Failed(j) = Left(j)
            \/ /\ Failed(j).left = j.left /\ RoleState(Failed(j)) = RoleState(j)
               /\ j.at \in {"preflight", "routing"} /\ Failed(j).at \in {"starting", "routing"}
<1>1. j \in Job /\ j.left \in 0..MaxRecords
  BY JobFields DEF JobShape
<1>2. CASE j.at = "preflight"
  <2> DEFINE k == [j EXCEPT !.at = "starting", !.calls = <<>>, !.earned = {}]
  <2>1. Failed(j) = k
    BY <1>2 DEF Failed
  <2>2. k \in Job
    BY <1>1, JobUpdates, EmptySeq DEF At
  <2>3. /\ k.at = "starting" /\ k.calls = <<>> /\ k.left = j.left /\ k.role = j.role
        /\ k.home = j.home /\ k.tries = j.tries
    BY <1>1 DEF Job
  <2> HIDE DEF k
  <2>4. JobShape(k)
    BY <1>2, <2>2, <2>3 DEF JobShape, InRole, Recovering, RoleState
  <2>5. CallsShape(k)
    BY <2>3 DEF CallsShape
  <2> QED
    BY <1>2, <2>1, <2>3, <2>4, <2>5 DEF RoleState
<1>3. CASE j.at = "routing" /\ Len(j.tries) > 1
  <2> DEFINE op == j.tries[2]
             k == [j EXCEPT !.tries = Tail(j.tries), !.calls = CallsOf(j, j.tries[2])]
  <2>1. Failed(j) = k
    BY <1>3, <1>1 DEF Failed, Job
  <2>2. j.tries \in Seq(Ops(j.home \in States)) /\ j.role \in Roles /\ RoleState(j) \in States
    BY <1>3 DEF JobShape, InRole
  <2>3. /\ op \in Ops(j.home \in States)
        /\ Tail(j.tries) \in Seq(Ops(j.home \in States)) /\ Tail(j.tries) # <<>>
    BY <1>3, <2>2, TailOps
  <2>4. CallsOf(j, op) \in Leaving(j) \cup {MarkBlocked}
    BY <1>1, <2>2, <2>3, CallsOfType
  <2>5. CallsOf(j, op) \in Seq(Call)
    BY <2>2, <2>4, LeavingType, BlockCallFacts DEF Blocking
  <2>6. k \in Job
    <3>1. Tail(j.tries) \in Seq(Op)
      BY <2>3, SeqOpsMono
    <3> QED
      BY <1>1, <2>5, <3>1, JobUpdates
  <2>7. /\ k.at = "routing" /\ k.calls = CallsOf(j, op) /\ k.left = j.left /\ k.role = j.role
        /\ k.home = j.home /\ k.tries = Tail(j.tries)
    BY <1>1, <1>3 DEF Job
  <2> HIDE DEF k, op
  <2>8. JobShape(k)
    BY <1>3, <2>2, <2>3, <2>6, <2>7 DEF JobShape, InRole, Recovering, RoleState
  <2>9. CallsShape(k)
    BY <2>4, <2>7 DEF CallsShape, Leaving, RoleState, Blocking
  <2> QED
    BY <1>3, <2>1, <2>7, <2>8, <2>9 DEF RoleState
<1>4. CASE j.at # "preflight" /\ ~(j.at = "routing" /\ Len(j.tries) > 1)
  <2>1. Failed(j) = Left(j)
    BY <1>4 DEF Failed
  <2> QED
    BY <1>1, <2>1, LeftShape
<1> QED
  BY <1>2, <1>3, <1>4

\* What an operation that was applied leads to.
LEMMA AppliedShape ==
  ASSUME NEW j, JobShape(j), CallsShape(j), j.calls # <<>>
  PROVE  /\ JobShape(Applied(j)) /\ CallsShape(Applied(j))
         /\ j.at # "claiming" => Applied(j) = Left(j)
         /\ j.at = "claiming" => /\ Applied(j).left = j.left /\ Applied(j).at = "claimed"
                                 /\ RoleState(Applied(j)) = RoleState(j)
<1>1. j \in Job
  BY DEF JobShape
<1>2. CASE j.at = "claiming"
  <2> DEFINE k == [j EXCEPT !.at = "claimed", !.calls = <<>>]
  <2>1. Applied(j) = k
    BY <1>2 DEF Applied
  <2>2. k \in Job
    BY <1>1, JobUpdates, EmptySeq DEF At
  <2>3. /\ k.at = "claimed" /\ k.calls = <<>> /\ k.left = j.left /\ k.role = j.role
        /\ k.home = j.home /\ k.tries = j.tries
    BY <1>1 DEF Job
  <2> HIDE DEF k
  <2>4. JobShape(k)
    BY <1>2, <2>2, <2>3 DEF JobShape, InRole, Recovering, RoleState
  <2>5. CallsShape(k)
    BY <2>3 DEF CallsShape
  <2> QED
    BY <1>2, <2>1, <2>3, <2>4, <2>5 DEF RoleState
<1>3. CASE j.at # "claiming"
  <2>1. Applied(j) = Left(j)
    BY <1>3 DEF Applied
  <2> QED
    BY <1>1, <1>3, <2>1, LeftShape
<1> QED
  BY <1>2, <1>3

\* The next call of an operation that has one.
LEMMA TailShape ==
  ASSUME NEW j, JobShape(j), CallsShape(j), j.calls # <<>>, Len(j.calls) # 1
  PROVE  LET k == [j EXCEPT !.calls = Tail(@)]
         IN  /\ JobShape(k) /\ CallsShape(k)
             /\ k.left = j.left /\ k.at = j.at /\ RoleState(k) = RoleState(j)
             /\ k.home = j.home /\ k.role = j.role /\ k.calls = Tail(j.calls)
<1> DEFINE k == [j EXCEPT !.calls = Tail(@)]
<1>1. j \in Job /\ j.calls \in Seq(Call)
  BY JobFields DEF JobShape
<1>2. Tail(j.calls) \in Seq(Call)
  BY <1>1
<1>3. k \in Job
  BY <1>1, <1>2, JobUpdates DEF Job
<1>4. /\ k.at = j.at /\ k.left = j.left /\ k.role = j.role /\ k.home = j.home
      /\ k.tries = j.tries /\ k.calls = Tail(j.calls)
  BY <1>1 DEF Job
<1> HIDE DEF k
<1>5. RoleState(k) = RoleState(j)
  BY <1>4 DEF RoleState
<1>6. JobShape(k)
  BY <1>3, <1>4, <1>5 DEF JobShape
<1>7. CASE j.at = "claiming"
  <2>1. RoleState(j) \in States /\ j.home \in States
    BY <1>7 DEF JobShape, InRole
  <2>2. j.calls = Move(j.home, RoleState(j)) /\ Tail(j.calls) = Delete(j.home)
    BY <1>7, <2>1, CallFacts DEF CallsShape
  <2> QED
    BY <1>4, <1>5, <1>6, <1>7, <2>2 DEF CallsShape, k
<1>8. CASE j.at \in {"preflight", "releasing", "routing"} /\ j.calls \in Leaving(j)
  <2>1. RoleState(j) \in States
    BY <1>8 DEF JobShape, InRole
  <2>2. PICK l \in States : j.calls = Move(RoleState(j), l)
    BY <1>8, <2>1, CallFacts DEF Leaving
  <2>3. Tail(j.calls) = Delete(RoleState(j))
    BY <2>1, <2>2, CallFacts
  <2>4. k.calls \in Leaving(k)
    BY <1>4, <1>5, <2>3 DEF Leaving
  <2> QED
    BY <1>4, <1>5, <1>6, <1>8, <2>4 DEF CallsShape, k
<1>9. CASE j.at \in {"routing", "settling"} /\ j.calls \in Blocking \cup {ReleaseClaim}
  <2>1. Tail(j.calls) \in Blocking
    BY <1>9, BlockCallFacts DEF Blocking
  <2> QED
    BY <1>4, <1>5, <1>6, <1>9, <2>1 DEF CallsShape, k
<1> QED
  BY CallsLeft, <1>7, <1>8, <1>9 DEF CallsShape

----------------------------------------------------------------------------
(* A step of one daemon.                                                   *)

LEMMA JobStep ==
  ASSUME TypeParts, NEW d \in Daemons, NEW k, Become(d, k),
         JobShape(k), CallsShape(k), EnvType',
         records' \in [Daemons -> 0..MaxRecords],
         \A e \in Daemons \ {d} : records'[e] = records[e],
         k.left <= records'[d]
  PROVE  /\ TypeParts'
         /\ job'[d] = k /\ \A e \in Daemons \ {d} : job'[e] = job[e]
<1>1. k \in Job /\ job \in [Daemons -> Job] /\ job' = [job EXCEPT ![d] = k]
  BY DEF JobShape, TypeParts, Become
<1>2. job' \in [Daemons -> Job] /\ job'[d] = k /\ \A e \in Daemons \ {d} : job'[e] = job[e]
  BY <1>1
<1>3. ASSUME NEW e \in Daemons
      PROVE  JobShape(job'[e]) /\ CallsShape(job'[e]) /\ job'[e].left <= records'[e]
  <2>1. CASE e = d
    BY <2>1, <1>2
  <2>2. CASE e # d
    <3>1. JobShape(job[e]) /\ CallsShape(job[e]) /\ job[e].left <= records[e]
      BY DEF TypeParts
    <3> QED
      BY <2>2, <3>1, <1>2
  <2> QED
    BY <2>1, <2>2
<1> QED
  BY <1>2, <1>3 DEF TypeParts

\* A daemon takes a step while it has the issue or nobody else has it, or it
\* neither has nor gets it and drops the ready label at most.
LEMMA OwnStep ==
  ASSUME TypeParts, Exclusive, ClaimsAreExclusive, NEW d \in Daemons, NEW k,
         job'[d] = k, \A e \in Daemons \ {d} : job'[e] = job[e],
         Owned(d, k, labels'),
         \/ Owner(d)
         \/ \A e \in Daemons \ {d} : ~Owner(e)
         \/ /\ ~Pending(d, k) /\ ~Holding(d, k)
            /\ labels' \in {labels, labels \ {ReadyLabel}}
  PROVE  Exclusive'
<1>1. \A e \in Daemons \ {d} : Owner(e)' <=> Owner(e)
  BY DEF Owner
<1>2. Owner(d)' <=> Pending(d, k) \/ Holding(d, k)
  BY DEF Owner
<1>3. \A e \in Daemons : Owned(e, job[e], labels)
  BY DEF Exclusive
<1>4. CASE Owner(d) \/ \A e \in Daemons \ {d} : ~Owner(e)
  <2>1. \A e \in Daemons \ {d} : ~Owner(e)
    BY <1>4 DEF Exclusive
  <2>2. \A e \in Daemons \ {d} : Owned(e, job[e], labels')
    BY <2>1, <1>3 DEF Owned, Owner
  <2>3. \A e \in Daemons : Owned(e, job'[e], labels')
    BY <2>2
  <2> QED
    BY <1>1, <2>1, <2>3 DEF Exclusive
<1>5. CASE /\ ~Pending(d, k) /\ ~Holding(d, k)
           /\ labels' \in {labels, labels \ {ReadyLabel}}
  <2>1. ASSUME NEW e \in Daemons \ {d} PROVE Owned(e, job[e], labels')
    <3>1. Holding(e, job[e]) => RoleState(job[e]) # ReadyLabel
      <4>1. Holding(e, job[e]) => job[e].role \in Roles
        BY DEF TypeParts, JobShape, Holding
      <4> QED
        BY <4>1 DEF ClaimsAreExclusive, RoleState
    <3>2. labels' \subseteq labels /\ labels \subseteq labels' \cup {ReadyLabel}
      BY <1>5
    <3>3. Owned(e, job[e], labels)
      BY <1>3
    <3> QED
      BY <3>1, <3>2, <3>3 DEF Owned
  <2>2. \A e \in Daemons : Owned(e, job'[e], labels')
    BY <2>1
  <2> QED
    BY <1>1, <1>2, <1>5, <2>2 DEF Exclusive
<1> QED
  BY <1>4, <1>5

\* A daemon at rest owns nothing.
LEMMA RestOwned ==
  ASSUME NEW d, NEW k, NEW ls, k.at = "idle", k.left = 0
  PROVE  Owned(d, k, ls) /\ ~Pending(d, k) /\ ~Holding(d, k)
  BY DEF Owned, Pending, Holding, InRole

\* In the middle of its work it owns the issue by the label of its state.
LEMMA WorkOwned ==
  ASSUME NEW d, NEW k, NEW ls,
         k.at \in InRole \ {"claiming"}, k.left = 0, RoleState(k) \in ls
  PROVE  Owned(d, k, ls)
  BY DEF Owned, Pending, InRole

\* All of it, for a daemon's step to keep the invariant.
LEMMA StepKeeps ==
  ASSUME Inductive, NEW d \in Daemons, NEW k, Become(d, k),
         JobShape(k), CallsShape(k), EnvType',
         records' \in [Daemons -> 0..MaxRecords],
         \A e \in Daemons \ {d} : records'[e] = records[e],
         k.left <= records'[d],
         UNCHANGED <<faults, crashes>>,
         RolesAreShared /\ ClaimsAreExclusive /\ Calm /\ Exclusive =>
           /\ Owned(d, k, labels')
           /\ \/ Owner(d)
              \/ \A e \in Daemons \ {d} : ~Owner(e)
              \/ /\ ~Pending(d, k) /\ ~Holding(d, k)
                 /\ labels' \in {labels, labels \ {ReadyLabel}}
  PROVE  Inductive'
<1>1. TypeParts' /\ job'[d] = k /\ \A e \in Daemons \ {d} : job'[e] = job[e]
  BY JobStep DEF Inductive
<1>2. ASSUME RolesAreShared, ClaimsAreExclusive, Calm' PROVE Exclusive'
  <2>1. Calm /\ Exclusive
    BY <1>2 DEF Calm, Inductive, OwnedOnce
  <2> QED
    BY <1>1, <1>2, <2>1, OwnStep DEF Inductive
<1>3. (RolesAreShared' <=> RolesAreShared) /\ (ClaimsAreExclusive' <=> ClaimsAreExclusive)
  BY DEF RolesAreShared, ClaimsAreExclusive
<1> QED
  BY <1>1, <1>2, <1>3 DEF Inductive, OwnedOnce

----------------------------------------------------------------------------
(* A tick.                                                                 *)

LEMMA JobOf ==
  ASSUME TypeParts, NEW d \in Daemons
  PROVE  /\ JobShape(job[d]) /\ CallsShape(job[d]) /\ job[d] \in Job
         /\ job[d].left \in 0..MaxRecords /\ records[d] \in 0..MaxRecords
         /\ job[d].left <= records[d]
         /\ MaxRecords \in Nat /\ 0 <= records[d]
<1>1. JobShape(job[d]) /\ CallsShape(job[d]) /\ job[d] \in Job /\ job[d].left <= records[d]
      /\ records[d] \in 0..MaxRecords
  BY DEF TypeParts
<1>2. MaxRecords \in Nat
  BY RoleHandoffAssumption
<1>3. job[d].left \in 0..MaxRecords
  BY <1>1, JobFields
<1> QED
  BY <1>1, <1>2, <1>3

LEMMA SameRecords ==
  ASSUME TypeParts, NEW d \in Daemons, UNCHANGED records
  PROVE  /\ records' \in [Daemons -> 0..MaxRecords]
         /\ \A e \in Daemons \ {d} : records'[e] = records[e]
         /\ \A n : n <= records[d] => n <= records'[d]
  BY DEF TypeParts

LEMMA FetchKeepsInductive ==
  ASSUME Inductive, NEW d \in Daemons, Fetch(d) PROVE Inductive'
<1> DEFINE k == [NoJob EXCEPT !.at = "fetched", !.seen = labels]
<1>1. Become(d, k) /\ UNCHANGED <<labels, policy, faults, records, crashes, moves>>
  BY DEF Fetch
<1>2. TypeParts /\ labels \in SUBSET States /\ EnvType /\ EnvType'
  BY <1>1 DEF Inductive, TypeParts, EnvType
<1>3. k.at = "fetched" /\ k.seen = labels /\ k.left = 0 /\ k.calls = <<>> /\ k.tries = <<>>
  BY DEF NoJob
<1>4. k \in Job
  BY <1>2, NoJobType DEF At
<1> HIDE DEF k
<1>5. JobShape(k) /\ CallsShape(k)
  BY <1>3, <1>4, RestShape
<1>6. ASSUME RolesAreShared, ClaimsAreExclusive, Exclusive
      PROVE  /\ Owned(d, k, labels')
             /\ \/ \A e \in Daemons \ {d} : ~Owner(e)
                \/ ~Pending(d, k) /\ ~Holding(d, k) /\ labels' = labels
  <2>1. ~Holding(d, k)
    BY <1>3 DEF Holding, InRole
  <2>2. CASE ~Dispatchable(labels, Enabled[d])
    <3>1. ~Pending(d, k)
      BY <2>2, <1>3 DEF Pending
    <3> QED
      BY <1>1, <1>3, <2>1, <3>1 DEF Owned
  <2>3. CASE Dispatchable(labels, Enabled[d])
    <3> DEFINE s == StateIn(labels)
    <3>1. labels = {s} /\ OwnState(d, s)
      BY <1>2, <2>3, DispatchableOwn
    <3>2. Target(k) = s
      BY <1>3 DEF Target
    <3>3. Owned(d, k, labels')
      BY <1>1, <1>3, <2>1, <3>1, <3>2 DEF Owned
    <3>4. ASSUME NEW e \in Daemons \ {d}, Owner(e) PROVE FALSE
      <4>1. Owned(e, job[e], labels)
        BY <1>6 DEF Exclusive
      <4>2. CASE Pending(e, job[e])
        <5>1. OwnState(e, s)
          BY <4>1, <4>2, <3>1 DEF Owned
        <5> QED
          BY <5>1, <3>1, <1>6 DEF OwnState, RolesAreShared
      <4>3. CASE Holding(e, job[e])
        <5>1. RoleState(job[e]) = s
          BY <4>1, <4>3, <3>1 DEF Owned
        <5>2. job[e].role \in Roles
          BY <4>3, <1>2 DEF TypeParts, JobShape, Holding
        <5> QED
          BY <5>1, <5>2, <3>1, <1>6 DEF OwnState, ClaimsAreExclusive, RoleState
      <4> QED
        BY <3>4, <4>2, <4>3 DEF Owner
    <3> QED
      BY <3>3, <3>4
  <2> QED
    BY <2>2, <2>3
<1>7. k.left <= records'[d]
  BY <1>1, <1>2, <1>3, JobOf
<1> QED
  BY <1>1, <1>2, <1>5, <1>6, <1>7, SameRecords, StepKeeps

LEMMA PassOverKeepsInductive ==
  ASSUME Inductive, NEW d \in Daemons, PassOver(d) PROVE Inductive'
<1>1. Become(d, NoJob) /\ UNCHANGED <<labels, policy, faults, records, crashes, moves>>
  BY DEF PassOver
<1>2. TypeParts /\ EnvType'
  BY <1>1 DEF Inductive, TypeParts, EnvType
<1>3. JobShape(NoJob) /\ CallsShape(NoJob) /\ NoJob.left <= records'[d]
  BY <1>1, <1>2, RestShape, NoJobType, JobOf DEF NoJob
<1>4. Owned(d, NoJob, labels') /\ ~Pending(d, NoJob) /\ ~Holding(d, NoJob)
  BY NoJobType, RestOwned
<1> QED
  BY <1>1, <1>2, <1>3, <1>4, SameRecords, StepKeeps

LEMMA ClaimKeepsInductive ==
  ASSUME Inductive, NEW d \in Daemons, Claim(d) PROVE Inductive'
<1> DEFINE j == job[d]
           s == StateIn(j.seen)
           r == DispatchRole(s)
           k == [j EXCEPT !.at = "claiming", !.role = r, !.home = s, !.seen = {},
                          !.calls = Move(s, ClaimState[r])]
<1>1. /\ j.at = "fetched" /\ Dispatchable(j.seen, Enabled[d])
      /\ Become(d, k) /\ UNCHANGED <<labels, policy, faults, records, crashes, moves>>
  BY DEF Claim
<1>2. TypeParts /\ EnvType' /\ JobShape(j) /\ j \in Job /\ j.seen \in SUBSET States
  BY <1>1, JobOf, JobFields DEF Inductive, TypeParts, EnvType
<1>3. OwnState(d, s) /\ ClaimState[r] \in States
  BY <1>1, <1>2, DispatchableOwn
<1>4. s \in States /\ r \in Roles /\ s \in CanClaim[r]
  BY <1>3 DEF OwnState
<1>5. Move(s, ClaimState[r]) \in Seq(Call)
  BY <1>3, <1>4, CallFacts
<1>6. k \in Job
  BY <1>2, <1>4, <1>5, JobUpdates DEF At
<1>7. /\ k.at = "claiming" /\ k.role = r /\ k.home = s /\ k.left = j.left
      /\ k.calls = Move(s, ClaimState[r]) /\ k.tries = j.tries
  BY <1>2 DEF Job
<1>8. RoleState(k) = ClaimState[r] /\ Target(k) = s
  BY <1>7 DEF RoleState, Target
<1>9. Target(j) = s /\ Pending(d, j)
  BY <1>1 DEF Target, Pending
<1> HIDE DEF k, s, r
<1>10. JobShape(k) /\ CallsShape(k)
  <2>1. k.tries \in Seq(Ops(k.home \in States))
    <3>1. k.tries \in Seq(Op)
      BY <1>2, <1>7, SeqOpsMono DEF JobShape
    <3>2. Ops(k.home \in States) = Op
      BY <1>4, <1>7 DEF Ops
    <3> QED
      BY <3>1, <3>2, Zenon
  <2>2. JobShape(k)
    BY <1>3, <1>4, <1>6, <1>7, <1>8, <2>1 DEF JobShape, Recovering, InRole
  <2>3. CallsShape(k)
    BY <1>7, <1>8 DEF CallsShape
  <2> QED
    BY <2>2, <2>3
<1>11. ASSUME Exclusive PROVE Owned(d, k, labels') /\ Owner(d)
  <2>1. Owned(d, j, labels)
    BY <1>11 DEF Exclusive
  <2>2. Pending(d, k) /\ ~Holding(d, k)
    BY <1>7, <1>8 DEF Pending, Holding
  <2> QED
    BY <1>1, <1>3, <1>4, <1>7, <1>8, <1>9, <2>1, <2>2 DEF Owned, Owner
<1>12. k.left <= records'[d]
  BY <1>1, <1>2, <1>7, JobOf
<1> QED
  BY <1>1, <1>2, <1>10, <1>11, <1>12, SameRecords, StepKeeps

----------------------------------------------------------------------------
(* The work on an issue.                                                   *)

\* A daemon that has claimed an issue and calls nobody.
LEMMA WorkerOwns ==
  ASSUME TypeParts, Exclusive, NEW d \in Daemons,
         job[d].at \in {"claimed", "starting", "running"}
  PROVE  /\ Owner(d) /\ RoleState(job[d]) \in labels /\ job[d].left = 0
<1>1. Holding(d, job[d])
  BY DEF Holding, Pending, InRole
<1> QED
  BY <1>1 DEF Exclusive, Owned, Owner

\* It goes on to another place of its work, under the same role.
LEMMA WorkStepKeeps ==
  ASSUME Inductive, NEW d \in Daemons, NEW k,
         job[d].at \in {"claimed", "starting", "running"},
         Become(d, k), JobShape(k), CallsShape(k),
         k.at \in InRole \ {"claiming"}, RoleState(k) = RoleState(job[d]), k.left = job[d].left,
         records' \in [Daemons -> 0..MaxRecords],
         \A e \in Daemons \ {d} : records'[e] = records[e],
         k.left <= records'[d],
         UNCHANGED <<labels, policy, faults, crashes, moves>>
  PROVE  Inductive'
<1>1. TypeParts /\ EnvType'
  BY DEF Inductive, TypeParts, EnvType
<1>2. ASSUME Exclusive PROVE Owned(d, k, labels') /\ Owner(d)
  BY <1>1, <1>2, WorkerOwns, WorkOwned
<1> QED
  BY <1>1, <1>2, StepKeeps

LEMMA PreflightKeepsInductive ==
  ASSUME Inductive, NEW d \in Daemons, Preflight(d) PROVE Inductive'
<1> DEFINE j == job[d]
           e == {"pr_link", "pr_approval", "pr_merged"}
           c == CallsOf(j, "approved")
           k == [j EXCEPT !.at = "preflight", !.calls = c, !.earned = e]
<1>1. /\ j.at = "claimed" /\ Become(d, k)
      /\ PlanTransition(j.role, "approved", RoleState(j), Evidence("approved", Verified)) = "ok"
      /\ UNCHANGED <<labels, policy, faults, records, crashes, moves>>
  BY DEF Preflight
<1>2. TypeParts /\ JobShape(j) /\ j \in Job
  BY JobOf DEF Inductive
<1>3. j.role \in Roles /\ RoleState(j) \in States /\ j.home \in States
  BY <1>1, <1>2 DEF JobShape, InRole
<1>4. "approved" \in Ops(j.home \in States) /\ "approved" # Block
  BY <1>1, PlannedIsTransition, BlockIsOp DEF Block
<1>5. c \in Leaving(j) /\ c \in Seq(Call)
  BY <1>2, <1>3, <1>4, CallsOfType, LeavingType
<1>6. e \in SUBSET Verifiable
  BY DEF Verifiable
<1> HIDE DEF c, e
<1>7. k \in Job
  BY <1>2, <1>5, <1>6, JobUpdates DEF At
<1>8. /\ k.at = "preflight" /\ k.role = j.role /\ k.home = j.home /\ k.left = j.left
      /\ k.calls = c /\ k.tries = j.tries
  BY <1>2 DEF Job
<1> HIDE DEF k
<1>9. RoleState(k) = RoleState(j) /\ k.at \in InRole \ {"claiming"}
  BY <1>8 DEF RoleState, InRole
<1>10. JobShape(k)
  BY <1>2, <1>3, <1>7, <1>8, <1>9 DEF JobShape, Recovering
<1>11. CallsShape(k)
  BY <1>5, <1>8, <1>9 DEF CallsShape, Leaving
<1>12. k.left <= records'[d]
  BY <1>1, <1>2, <1>8, JobOf
<1> QED
  BY <1>1, <1>2, <1>8, <1>9, <1>10, <1>11, <1>12, SameRecords, WorkStepKeeps

LEMMA MoreRecordsType ==
  ASSUME TypeParts, NEW d \in Daemons, records' = MoreRecords(d)
  PROVE  /\ records' \in [Daemons -> 0..MaxRecords]
         /\ \A e \in Daemons \ {d} : records'[e] = records[e]
         /\ records[d] <= records'[d]
<1>1. records \in [Daemons -> 0..MaxRecords] /\ MaxRecords \in Nat
  BY RoleHandoffAssumption DEF TypeParts
<1>2. (IF records[d] < MaxRecords THEN records[d] + 1 ELSE records[d]) \in 0..MaxRecords
  BY <1>1
<1> QED
  BY <1>1, <1>2 DEF MoreRecords

LEMMA StartKeepsInductive ==
  ASSUME Inductive, NEW d \in Daemons, Start(d) PROVE Inductive'
<1> DEFINE j == job[d]
           k == [j EXCEPT !.at = "running"]
<1>1. /\ j.at \in {"claimed", "starting"} /\ Become(d, k) /\ records' = MoreRecords(d)
      /\ UNCHANGED <<labels, policy, faults, crashes, moves>>
  BY DEF Start
<1>2. TypeParts /\ JobShape(j) /\ CallsShape(j) /\ j \in Job
  BY JobOf DEF Inductive
<1>3. k \in Job
  BY <1>2, JobUpdates DEF At
<1>4. /\ k.at = "running" /\ k.role = j.role /\ k.home = j.home /\ k.left = j.left
      /\ k.calls = j.calls /\ k.tries = j.tries
  BY <1>2 DEF Job
<1> HIDE DEF k
<1>5. RoleState(k) = RoleState(j) /\ k.at \in InRole \ {"claiming"}
  BY <1>4 DEF RoleState, InRole
<1>6. JobShape(k)
  BY <1>1, <1>2, <1>3, <1>4, <1>5 DEF JobShape, Recovering, InRole
<1>7. CallsShape(k)
  BY <1>1, <1>2, <1>4 DEF CallsShape
<1>8. /\ records' \in [Daemons -> 0..MaxRecords]
      /\ \A e \in Daemons \ {d} : records'[e] = records[e]
      /\ records[d] <= records'[d]
  BY <1>1, <1>2, MoreRecordsType
<1>9. k.left <= records'[d]
  <2>1. j.left \in Nat /\ records[d] \in Nat /\ records'[d] \in Nat /\ j.left <= records[d]
    BY <1>2, <1>8, JobOf
  <2> QED
    BY <1>4, <1>8, <2>1
<1> QED
  BY <1>1, <1>4, <1>5, <1>6, <1>7, <1>8, <1>9, WorkStepKeeps

LEMMA StartFailsKeepsInductive ==
  ASSUME Inductive, NEW d \in Daemons, StartFails(d) PROVE Inductive'
<1> DEFINE j == job[d]
           c == CallsOf(j, Release)
           k == [j EXCEPT !.at = "releasing", !.calls = c]
<1>1. /\ j.at \in {"claimed", "starting"} /\ Become(d, k)
      /\ UNCHANGED <<labels, policy, faults, records, crashes, moves>>
  BY DEF StartFails
<1>2. TypeParts /\ JobShape(j) /\ j \in Job
  BY JobOf DEF Inductive
<1>3. j.role \in Roles /\ RoleState(j) \in States /\ j.home \in States
  BY <1>1, <1>2 DEF JobShape, InRole
<1>4. Release \in Ops(j.home \in States) /\ Release # Block
  BY <1>3 DEF Ops, Op, Release, Block
<1>5. c \in Leaving(j) /\ c \in Seq(Call)
  BY <1>2, <1>3, <1>4, CallsOfType, LeavingType
<1> HIDE DEF c
<1>6. k \in Job
  BY <1>2, <1>5, JobUpdates DEF At
<1>7. /\ k.at = "releasing" /\ k.role = j.role /\ k.home = j.home /\ k.left = j.left
      /\ k.calls = c /\ k.tries = j.tries
  BY <1>2 DEF Job
<1> HIDE DEF k
<1>8. RoleState(k) = RoleState(j) /\ k.at \in InRole \ {"claiming"}
  BY <1>7 DEF RoleState, InRole
<1>9. JobShape(k)
  BY <1>2, <1>3, <1>6, <1>7, <1>8 DEF JobShape, Recovering
<1>10. CallsShape(k)
  BY <1>5, <1>7, <1>8 DEF CallsShape, Leaving
<1>11. k.left <= records'[d]
  BY <1>1, <1>2, <1>7, JobOf
<1> QED
  BY <1>1, <1>2, <1>7, <1>8, <1>9, <1>10, <1>11, SameRecords, WorkStepKeeps

\* What a run leads to it leads to by one of the outcomes.
LEMMA FinishEnds ==
  ASSUME NEW d \in Daemons, Finish(d), job[d].role \in Roles, job[d].home \in States \cup {None}
  PROVE  \E o \in Outcomes :
           LET ops == Routing(job[d].role, RoleState(job[d]), job[d].home # None, o)
           IN  Become(d, [job[d] EXCEPT !.at = "routing", !.tries = ops,
                                        !.calls = CallsOf(job[d], Head(ops)),
                                        !.earned = Proved(o)])
<1> DEFINE j == job[d]
<1>1. PICK e \in Endings[j.role][j.home] :
        Become(d, [j EXCEPT !.at = "routing", !.tries = e.tries,
                            !.calls = CallsOf(j, Head(e.tries)), !.earned = e.earned])
  BY DEF Finish
<1>2. Endings[j.role][j.home] =
        {[tries |-> Routing(j.role, ClaimState[j.role], j.home # None, o), earned |-> Proved(o)] :
           o \in Outcomes}
  BY DEF Endings
<1>3. PICK o \in Outcomes :
        e = [tries |-> Routing(j.role, RoleState(j), j.home # None, o), earned |-> Proved(o)]
  BY <1>1, <1>2 DEF RoleState
<1>4. e.tries = Routing(j.role, RoleState(j), j.home # None, o) /\ e.earned = Proved(o)
  BY <1>3
<1> QED
  BY <1>1, <1>4

LEMMA FinishKeepsInductive ==
  ASSUME Inductive, NEW d \in Daemons, Finish(d) PROVE Inductive'
<1> DEFINE j == job[d]
<1>1. j.at = "running" /\ UNCHANGED <<labels, policy, faults, records, crashes, moves>>
  BY DEF Finish
<1>2. TypeParts /\ JobShape(j) /\ j \in Job
  BY JobOf DEF Inductive
<1>3. j.role \in Roles /\ RoleState(j) \in States
  BY <1>1, <1>2 DEF JobShape, InRole
<1>4. (j.home # None) = (j.home \in States)
  BY <1>2, JobFields, RoleGraphAssumption
<1>5. PICK o \in Outcomes :
        LET ops == Routing(j.role, RoleState(j), j.home # None, o)
        IN  Become(d, [j EXCEPT !.at = "routing", !.tries = ops,
                                !.calls = CallsOf(j, Head(ops)), !.earned = Proved(o)])
  BY <1>2, <1>3, JobFields, FinishEnds
<1> DEFINE ops == Routing(j.role, RoleState(j), j.home # None, o)
           c == CallsOf(j, Head(ops))
           k == [j EXCEPT !.at = "routing", !.tries = ops, !.calls = c, !.earned = Proved(o)]
<1>6. ops \in Seq(Ops(j.home \in States)) /\ ops # <<>>
  <2> DEFINE S == Earned(j.role, RoleState(j), j.home \in States, o)
  <2>1. ops \in Seq(S) /\ ops # <<>>
    BY <1>4, RoutingType DEF Outcomes
  <2>2. S \subseteq Ops(j.home \in States)
    BY DEF Earned
  <2> HIDE DEF S, ops
  <2> QED
    BY <2>1, <2>2
<1>7. Become(d, k)
  BY <1>5
<1>8. Proved(o) \in SUBSET Verifiable
  BY DEF Proved
<1> HIDE DEF ops
<1>9. Head(ops) \in Ops(j.home \in States)
  BY <1>6
<1>10. c \in Leaving(j) \cup {MarkBlocked}
  BY <1>2, <1>3, <1>9, CallsOfType
<1>11. c \in Seq(Call)
  BY <1>3, <1>10, LeavingType, BlockCallFacts DEF Blocking
<1> HIDE DEF c
<1>12. k \in Job
  <2>1. ops \in Seq(Op)
    BY <1>6, SeqOpsMono
  <2> QED
    BY <1>2, <1>8, <1>11, <2>1, JobUpdates DEF At
<1>13. /\ k.at = "routing" /\ k.role = j.role /\ k.home = j.home /\ k.left = j.left
       /\ k.calls = c /\ k.tries = ops
  BY <1>2 DEF Job
<1> HIDE DEF k
<1>14. RoleState(k) = RoleState(j) /\ k.at \in InRole \ {"claiming"}
  BY <1>13 DEF RoleState, InRole
<1>15. JobShape(k)
  BY <1>3, <1>6, <1>12, <1>13, <1>14 DEF JobShape, Recovering
<1>16. CallsShape(k)
  BY <1>10, <1>13, <1>14 DEF CallsShape, Leaving, Blocking
<1>17. k.left <= records'[d]
  BY <1>1, <1>2, <1>13, JobOf
<1> QED
  BY <1>1, <1>2, <1>7, <1>13, <1>14, <1>15, <1>16, <1>17, SameRecords, WorkStepKeeps

----------------------------------------------------------------------------
(* A call to GitHub.                                                       *)

\* Who has the issue by its calls, and who only drops the ready label.
LEMMA CallerOwns ==
  ASSUME TypeParts, Exclusive, NEW d \in Daemons, job[d].calls # <<>>
  PROVE  /\ job[d].left = 0
         /\ job[d].at \in {"claiming", "preflight", "releasing", "routing"}
         /\ job[d].at = "claiming" => job[d].home \in CanClaim[job[d].role]
         /\ \/ /\ job[d].at = "claiming" /\ Owner(d)
               /\ job[d].calls = Move(job[d].home, RoleState(job[d]))
            \/ /\ Owner(d) /\ RoleState(job[d]) \in labels
               /\ \/ job[d].at = "claiming" /\ job[d].calls = Delete(job[d].home)
                  \/ job[d].at # "claiming" /\ job[d].calls \in Leaving(job[d]) \cup {MarkBlocked, BlockTail}
            \/ job[d].at = "routing" /\ job[d].calls = LastDrop
<1> DEFINE j == job[d]
<1>1. JobShape(j) /\ CallsShape(j) /\ Owned(d, j, labels)
  BY JobOf DEF Exclusive
<1>2. j.at \in {"claiming", "preflight", "releasing", "routing"} /\ j.left = 0
  BY <1>1, CallsLeft DEF Owned
<1>3. j.at = "claiming" => j.home \in CanClaim[j.role]
  BY <1>1 DEF Owned
<1>4. CASE j.at = "claiming"
  <2>1. j.calls \in {Move(j.home, RoleState(j)), Delete(j.home)}
    BY <1>1, <1>4 DEF CallsShape
  <2>2. CASE j.calls = Move(j.home, RoleState(j))
    BY <1>2, <1>3, <1>4, <2>2 DEF Pending, Owner
  <2>3. CASE j.calls # Move(j.home, RoleState(j))
    <3>1. Holding(d, j)
      BY <1>4, <2>3 DEF Holding, Pending, InRole
    <3> QED
      BY <1>1, <1>2, <1>3, <1>4, <2>1, <2>3, <3>1 DEF Owned, Owner
  <2> QED
    BY <2>2, <2>3
<1>5. CASE j.at # "claiming" /\ ~(j.at = "routing" /\ j.calls = LastDrop)
  <2>1. j.calls \in Leaving(j) \cup {MarkBlocked, BlockTail}
    BY <1>1, <1>2, <1>5 DEF CallsShape, Blocking
  <2>2. Holding(d, j)
    BY <1>2, <1>5 DEF Holding, Pending, InRole
  <2> QED
    BY <1>1, <1>2, <1>5, <2>1, <2>2 DEF Owned, Owner
<1>6. CASE j.at = "routing" /\ j.calls = LastDrop
  BY <1>2, <1>6
<1> QED
  BY <1>4, <1>5, <1>6

\* An operation that raised leaves the issue with its owner, or to nobody.
LEMMA FailedOwned ==
  ASSUME NEW d, NEW j, JobShape(j), CallsShape(j), j.calls # <<>>, j.left = 0, NEW ls,
         j.at \in {"preflight", "routing"} => RoleState(j) \in ls
  PROVE  Owned(d, Failed(j), ls)
<1>1. CASE Failed(j) = Left(j)
  <2>1. Left(j) = NoJob
    BY LeftShape DEF JobShape
  <2> QED
    BY <1>1, <2>1, RestOwned, NoJobType
<1>2. CASE /\ Failed(j).left = j.left /\ RoleState(Failed(j)) = RoleState(j)
           /\ j.at \in {"preflight", "routing"} /\ Failed(j).at \in {"starting", "routing"}
  BY <1>2, WorkOwned DEF InRole
<1> QED
  BY <1>1, <1>2, FailedShape

\* What an answer of GitHub leaves, to a daemon that works on an issue in the
\* calm, and what it leaves of the operation.
Called(j, answer) ==
  IF answer # "ok" /\ Head(j.calls).do # "try_delete" THEN Failed(j)
  ELSE IF Len(j.calls) = 1 THEN Applied(j)
  ELSE [j EXCEPT !.calls = Tail(@)]

LabelsCalled(j, answer) ==
  IF answer = "rejected" THEN labels
  ELSE IF Head(j.calls).do = "add" THEN labels \cup {Head(j.calls).label}
  ELSE labels \ {Head(j.calls).label}

LEMMA CalledOwned ==
  ASSUME TypeParts, Exclusive, ClaimsAreExclusive, NEW d \in Daemons, job[d].calls # <<>>,
         NEW answer \in {"ok", "rejected"}
  PROVE  /\ Owned(d, Called(job[d], answer), LabelsCalled(job[d], answer))
         /\ \/ Owner(d)
            \/ /\ ~Pending(d, Called(job[d], answer)) /\ ~Holding(d, Called(job[d], answer))
               /\ LabelsCalled(job[d], answer) \in {labels, labels \ {ReadyLabel}}
<1> DEFINE j == job[d]
           c == Head(j.calls)
           k == Called(j, answer)
           ls == LabelsCalled(j, answer)
           tail == [j EXCEPT !.calls = Tail(@)]
<1>1. JobShape(j) /\ CallsShape(j) /\ j \in Job
  BY JobOf
<1>2. /\ j.left = 0 /\ j.at \in {"claiming", "preflight", "releasing", "routing"}
      /\ j.role \in Roles /\ RoleState(j) \in States
      /\ j.at = "claiming" => j.home \in States /\ j.home \in CanClaim[j.role]
  BY <1>1, CallerOwns, CallsLeft
<1>3. ASSUME NEW n \in Nat, Len(j.calls) = n, n # 1
      PROVE  /\ tail.left = 0 /\ tail.at = j.at /\ RoleState(tail) = RoleState(j)
             /\ tail.home = j.home /\ tail.role = j.role /\ tail.calls = Tail(j.calls)
  BY <1>1, <1>2, <1>3, TailShape
<1>4. Left(j) = NoJob
  BY <1>1, <1>2, LeftShape
<1>5. CASE /\ j.at = "claiming" /\ Owner(d) /\ j.calls = Move(j.home, RoleState(j))
  <2>1. c = Do("add", RoleState(j)) /\ Len(j.calls) = 2 /\ Tail(j.calls) = Delete(j.home)
    BY <1>2, <1>5, CallFacts
  <2>2. c.do = "add" /\ c.label = RoleState(j)
    BY <2>1 DEF Do
  <2>3. CASE answer = "ok"
    <3>1. k = tail /\ RoleState(j) \in ls
      BY <2>1, <2>2, <2>3 DEF Called, LabelsCalled
    <3>2. /\ tail.at = "claiming" /\ tail.left = 0 /\ RoleState(tail) = RoleState(j)
          /\ tail.home = j.home /\ tail.role = j.role /\ tail.calls = Delete(j.home)
      BY <1>3, <1>5, <2>1
    <3> HIDE DEF tail, k, ls
    <3>3. ~Pending(d, k)
      BY <1>2, <1>5, <3>1, <3>2, CallFacts DEF Pending
    <3> QED
      BY <1>2, <1>5, <3>1, <3>2, <3>3 DEF Owned, k, ls
  <2>4. CASE answer = "rejected"
    <3>1. k = Failed(j)
      BY <2>2, <2>4 DEF Called
    <3> QED
      BY <1>1, <1>2, <1>5, <3>1, FailedOwned
  <2> QED
    BY <2>3, <2>4
<1>6. CASE /\ j.at = "claiming" /\ Owner(d) /\ RoleState(j) \in labels
           /\ j.calls = Delete(j.home)
  <2>1. c = Do("delete", j.home) /\ Len(j.calls) = 1
    BY <1>2, <1>6, CallFacts
  <2>2. c.do = "delete" /\ c.label = j.home
    BY <2>1 DEF Do
  <2>3. CASE answer = "ok"
    <3>1. k = Applied(j) /\ ls = labels \ {j.home}
      BY <2>1, <2>2, <2>3 DEF Called, LabelsCalled
    <3>2. RoleState(j) # j.home
      BY <1>2, <1>6 DEF ClaimsAreExclusive, RoleState
    <3>3. k.at = "claimed" /\ k.left = 0 /\ RoleState(k) = RoleState(j)
      BY <1>1, <1>2, <1>6, <3>1, AppliedShape
    <3> QED
      BY <1>6, <3>1, <3>2, <3>3, WorkOwned DEF InRole
  <2>4. CASE answer = "rejected"
    <3>1. k = Failed(j)
      BY <2>2, <2>4 DEF Called
    <3> QED
      BY <1>1, <1>2, <1>6, <3>1, FailedOwned
  <2> QED
    BY <2>3, <2>4
<1>7. CASE /\ j.at # "claiming" /\ Owner(d) /\ RoleState(j) \in labels
           /\ j.calls \in Leaving(j)
  <2>1. CASE j.calls = Delete(RoleState(j))
    <3>1. c = Do("delete", RoleState(j)) /\ Len(j.calls) = 1
      BY <1>2, <2>1, CallFacts
    <3>2. c.do = "delete"
      BY <3>1 DEF Do
    <3>3. CASE answer = "ok"
      <4>1. k = Applied(j)
        BY <3>1, <3>3 DEF Called
      <4>2. k = NoJob
        BY <1>1, <1>4, <1>7, <4>1, AppliedShape
      <4> QED
        BY <1>7, <4>2, RestOwned, NoJobType
    <3>4. CASE answer = "rejected"
      <4>1. k = Failed(j) /\ ls = labels
        BY <3>2, <3>4 DEF Called, LabelsCalled
      <4> QED
        BY <1>1, <1>2, <1>7, <4>1, FailedOwned
    <3> QED
      BY <3>3, <3>4
  <2>2. CASE \E l \in States : j.calls = Move(RoleState(j), l)
    <3>1. PICK l \in States : j.calls = Move(RoleState(j), l)
      BY <2>2
    <3>2. c = Do("add", l) /\ Len(j.calls) = 2
      BY <1>2, <3>1, CallFacts
    <3>3. c.do = "add" /\ c.label = l
      BY <3>2 DEF Do
    <3>4. RoleState(j) \in ls
      BY <1>7, <3>3 DEF LabelsCalled
    <3>5. CASE answer = "ok"
      <4>1. k = tail
        BY <3>2, <3>5 DEF Called
      <4>2. tail.left = 0 /\ tail.at = j.at /\ RoleState(tail) = RoleState(j)
        BY <1>3, <3>2
      <4> HIDE DEF tail, ls
      <4> QED
        BY <1>2, <1>7, <3>4, <4>1, <4>2, WorkOwned DEF InRole, ls
    <3>6. CASE answer = "rejected"
      <4>1. k = Failed(j)
        BY <3>3, <3>6 DEF Called
      <4> QED
        BY <1>1, <1>2, <1>7, <3>4, <4>1, FailedOwned
    <3> QED
      BY <3>5, <3>6
  <2> QED
    BY <1>7, <2>1, <2>2 DEF Leaving
<1>8. CASE /\ j.at # "claiming" /\ Owner(d) /\ RoleState(j) \in labels
           /\ j.calls = MarkBlocked
  <2>1. c.do = "add" /\ Len(j.calls) = 3
    BY <1>8, BlockCallFacts DEF Do
  <2>2. RoleState(j) \in ls
    BY <1>8, <2>1 DEF LabelsCalled
  <2>3. CASE answer = "ok"
    <3>1. k = tail
      BY <2>1, <2>3 DEF Called
    <3>2. tail.left = 0 /\ tail.at = j.at /\ RoleState(tail) = RoleState(j)
      BY <1>3, <2>1
    <3> HIDE DEF tail, ls
    <3> QED
      BY <1>2, <1>8, <2>2, <3>1, <3>2, WorkOwned DEF InRole, ls
  <2>4. CASE answer = "rejected"
    <3>1. k = Failed(j)
      BY <2>1, <2>4 DEF Called
    <3> QED
      BY <1>1, <1>2, <1>8, <2>2, <3>1, FailedOwned
  <2> QED
    BY <2>3, <2>4
<1>9. CASE j.at # "claiming" /\ Owner(d) /\ j.calls = BlockTail
  <2>1. c.do = "try_delete" /\ Len(j.calls) = 2 /\ Tail(j.calls) = LastDrop
    BY <1>9, BlockCallFacts DEF Do
  <2>2. k = tail
    BY <2>1 DEF Called
  <2>3. tail.left = 0 /\ tail.at = j.at /\ tail.calls = LastDrop
    BY <1>3, <2>1
  <2>4. j.at = "routing"
    <3>1. j.at \in {"preflight", "releasing"} => j.calls \in Leaving(j)
      BY <1>1 DEF CallsShape
    <3>2. BlockTail \notin Leaving(j)
      <4>1. \A l \in States : Head(Move(RoleState(j), l)).do = "add"
        BY <1>2, CallFacts DEF Do
      <4>2. Len(Delete(RoleState(j))) = 1 /\ Len(BlockTail) = 2 /\ Head(BlockTail).do = "try_delete"
        BY <1>2, CallFacts, BlockCallFacts DEF Do
      <4>3. BlockTail # Delete(RoleState(j))
        BY <4>2
      <4>4. \A l \in States : BlockTail # Move(RoleState(j), l)
        BY <4>1, <4>2
      <4> QED
        BY <4>3, <4>4 DEF Leaving
    <3> QED
      BY <1>2, <1>9, <3>1, <3>2
  <2> HIDE DEF tail, ls
  <2> QED
    BY <1>9, <2>2, <2>3, <2>4 DEF Owned, Pending, Holding, ls
<1>10. CASE j.at = "routing" /\ j.calls = LastDrop
  <2>1. c = Do("try_delete", ReadyLabel) /\ Len(j.calls) = 1
    BY <1>10, BlockCallFacts
  <2>2. c.do = "try_delete" /\ c.label = ReadyLabel
    BY <2>1 DEF Do
  <2>3. k = Applied(j) /\ ls \in {labels, labels \ {ReadyLabel}}
    BY <2>1, <2>2 DEF Called, LabelsCalled
  <2>4. k = NoJob
    BY <1>1, <1>4, <1>10, <2>3, AppliedShape
  <2> QED
    BY <2>3, <2>4, RestOwned, NoJobType
<1> HIDE DEF k, ls, tail, c
<1> QED
  BY <1>5, <1>6, <1>7, <1>8, <1>9, <1>10, CallerOwns DEF k, ls

\* What a call leaves of a job is a job.
LEMMA CalledShape ==
  ASSUME NEW j, JobShape(j), CallsShape(j), j.calls # <<>>, NEW answer
  PROVE  /\ JobShape(Called(j, answer)) /\ CallsShape(Called(j, answer))
         /\ Called(j, answer).left = j.left \/ Called(j, answer) = Left(j)
<1> DEFINE tail == [j EXCEPT !.calls = Tail(@)]
<1>1. CASE answer # "ok" /\ Head(j.calls).do # "try_delete"
  BY <1>1, FailedShape DEF Called
<1>2. CASE ~(answer # "ok" /\ Head(j.calls).do # "try_delete") /\ Len(j.calls) = 1
  <2>1. Called(j, answer) = Applied(j)
    BY <1>2 DEF Called
  <2> QED
    BY <2>1, AppliedShape
<1>3. CASE ~(answer # "ok" /\ Head(j.calls).do # "try_delete") /\ Len(j.calls) # 1
  <2>1. Called(j, answer) = tail
    BY <1>3 DEF Called
  <2>2. JobShape(tail) /\ CallsShape(tail) /\ tail.left = j.left
    BY <1>3, TailShape
  <2> HIDE DEF tail
  <2> QED
    BY <2>1, <2>2
<1> QED
  BY <1>1, <1>2, <1>3

LEMMA CallGitHubKeepsInductive ==
  ASSUME Inductive, NEW d \in Daemons, CallGitHub(d) PROVE Inductive'
<1> DEFINE j == job[d]
<1>1. PICK answer \in {"ok"} \cup faults :
        /\ labels' = LabelsCalled(j, answer)
        /\ Become(d, Called(j, answer))
        /\ records' = [records EXCEPT ![d] = IF job'[d].left < j.left THEN @ - 1 ELSE @]
  BY DEF CallGitHub, Called, LabelsCalled
<1> DEFINE k == Called(j, answer)
<1>2. j.calls # <<>> /\ UNCHANGED <<policy, faults, crashes, moves>>
  BY DEF CallGitHub
<1>3. TypeParts /\ JobShape(j) /\ CallsShape(j) /\ j \in Job
  BY JobOf DEF Inductive
<1>4. JobShape(k) /\ CallsShape(k) /\ (k.left = j.left \/ k = Left(j))
  BY <1>2, <1>3, CalledShape
<1>5. job'[d] = k
  BY <1>1, <1>3 DEF Become, TypeParts
<1>6. EnvType'
  <2>1. Head(j.calls).label \in States
    <3>1. j.calls \in Seq(Call)
      BY <1>3, JobFields
    <3>2. Head(j.calls) \in Call
      BY <1>2, <3>1
    <3> QED
      BY <3>2 DEF Call
  <2>2. labels' \subseteq States
    BY <1>1, <1>3, <2>1 DEF LabelsCalled, TypeParts, EnvType
  <2> QED
    BY <1>2, <1>3, <2>2 DEF TypeParts, EnvType
<1> HIDE DEF k
<1>7. /\ j.left \in Nat /\ k.left \in Nat /\ records[d] \in 0..MaxRecords
      /\ j.left <= records[d] /\ MaxRecords \in Nat
  <2>1. k \in Job
    BY <1>4 DEF JobShape
  <2>2. k.left \in 0..MaxRecords
    BY <2>1, JobFields
  <2> QED
    BY <1>3, <2>2, JobOf
<1>8. k.left = j.left \/ (j.left > 1 /\ k.left = j.left - 1) \/ (j.left <= 1 /\ k.left = 0)
  <2>1. j.left > 1 \/ j.left <= 1
    BY <1>7
  <2> QED
    BY <1>3, <1>4, <2>1, LeftShape
<1>9. /\ records' \in [Daemons -> 0..MaxRecords]
      /\ \A e \in Daemons \ {d} : records'[e] = records[e]
      /\ k.left <= records'[d]
  <2> DEFINE n == IF k.left < j.left THEN records[d] - 1 ELSE records[d]
  <2>1. records \in [Daemons -> 0..MaxRecords] /\ records' = [records EXCEPT ![d] = n]
    BY <1>1, <1>3, <1>5 DEF TypeParts
  <2>2. n \in 0..MaxRecords /\ k.left <= n
    BY <1>7, <1>8
  <2> HIDE DEF n
  <2> QED
    BY <2>1, <2>2
<1>10. ASSUME RolesAreShared, ClaimsAreExclusive, Calm, Exclusive
       PROVE  /\ Owned(d, k, labels')
              /\ \/ Owner(d)
                 \/ /\ ~Pending(d, k) /\ ~Holding(d, k)
                    /\ labels' \in {labels, labels \ {ReadyLabel}}
  <2>1. faults \in SUBSET {"rejected", "lost"}
    BY <1>3, RoleHandoffAssumption DEF TypeParts, EnvType
  <2>2. answer \in {"ok", "rejected"}
    BY <1>10, <2>1 DEF Calm
  <2> QED
    BY <1>1, <1>2, <1>3, <1>10, <2>2, CalledOwned DEF k
<1>11. Become(d, k)
  BY <1>1 DEF k
<1> QED
  BY <1>2, <1>4, <1>6, <1>9, <1>10, <1>11, StepKeeps

----------------------------------------------------------------------------
(* Crash and recovery: after the first crash only the types are left to    *)
(* keep, and nobody who is still calm recovers.                            *)

LEMMA CrashKeepsInductive ==
  ASSUME Inductive, NEW d \in Daemons, Crash(d) PROVE Inductive'
<1> DEFINE k == [NoJob EXCEPT !.at = "down"]
<1>1. /\ crashes < MaxCrashes /\ crashes' = crashes + 1 /\ Become(d, k)
      /\ UNCHANGED <<labels, policy, faults, records, moves>>
  BY DEF Crash
<1>2. TypeParts
  BY DEF Inductive
<1>3. crashes \in Nat /\ crashes' \in 0..MaxCrashes /\ MaxCrashes \in Nat /\ crashes' # 0
  BY <1>1, <1>2, RoleHandoffAssumption DEF TypeParts, EnvType
<1>4. EnvType'
  BY <1>1, <1>2, <1>3 DEF TypeParts, EnvType
<1>5. k \in Job /\ k.at = "down" /\ k.left = 0 /\ k.calls = <<>> /\ k.tries = <<>>
  BY NoJobType DEF At, NoJob
<1> HIDE DEF k
<1>6. JobShape(k) /\ CallsShape(k) /\ k.left <= records'[d]
  BY <1>1, <1>2, <1>5, RestShape, JobOf
<1>7. TypeParts'
  BY <1>1, <1>2, <1>4, <1>6, SameRecords, JobStep
<1> QED
  BY <1>3, <1>7 DEF Inductive, OwnedOnce, Calm

\* What a daemon that is down or recovers does is of no interest to the others.
LEMMA RecoveryStepKeeps ==
  ASSUME Inductive, NEW d \in Daemons, NEW k,
         job[d].at \in {"down", "recovering", "settling"},
         Become(d, k), JobShape(k), CallsShape(k),
         records' \in [Daemons -> 0..MaxRecords],
         \A e \in Daemons \ {d} : records'[e] = records[e],
         k.left <= records'[d],
         UNCHANGED <<labels, policy, faults, crashes, moves>>
  PROVE  Inductive'
<1>1. EnvType'
  BY DEF Inductive, TypeParts, EnvType
<1>2. ~Exclusive
  BY DEF Exclusive, Owned
<1> QED
  BY <1>1, <1>2, StepKeeps

LEMMA RestartKeepsInductive ==
  ASSUME Inductive, NEW d \in Daemons, Restart(d) PROVE Inductive'
<1> DEFINE back == [NoJob EXCEPT !.at = "recovering", !.seen = labels, !.left = records[d]]
           k == IF records[d] = 0 THEN NoJob ELSE back
<1>1. /\ job[d].at = "down" /\ Become(d, k)
      /\ UNCHANGED <<labels, policy, faults, records, crashes, moves>>
  BY DEF Restart
<1>2. TypeParts /\ labels \in SUBSET States /\ records[d] \in 0..MaxRecords /\ 0 <= records[d]
  BY JobOf DEF Inductive, TypeParts, EnvType
<1>3. JobShape(k) /\ CallsShape(k) /\ k.left <= records'[d]
  <2>1. CASE records[d] = 0
    <3>1. JobShape(NoJob) /\ CallsShape(NoJob) /\ NoJob.left <= records'[d]
      BY <1>1, <1>2, RestShape, NoJobType, JobOf DEF NoJob
    <3> QED
      BY <2>1, <3>1
  <2>2. CASE records[d] # 0
    <3>1. back \in Job
      BY <1>2, NoJobType DEF At
    <3>2. /\ back.at = "recovering" /\ back.left = records[d] /\ back.calls = <<>>
          /\ back.tries = <<>>
      BY DEF NoJob
    <3> HIDE DEF back
    <3>3. back.tries \in Seq(Ops(back.home \in States))
      BY <3>2, EmptySeq
    <3>4. back.left > 0 /\ back.left <= records[d]
      BY <1>2, <2>2, <3>2, RoleHandoffAssumption
    <3>5. JobShape(back) /\ CallsShape(back)
      BY <3>1, <3>2, <3>3, <3>4 DEF JobShape, CallsShape, InRole, Recovering
    <3> QED
      BY <1>1, <2>2, <3>4, <3>5
  <2> QED
    BY <2>1, <2>2
<1> HIDE DEF k
<1> QED
  BY <1>1, <1>2, <1>3, SameRecords, RecoveryStepKeeps

LEMMA SettleKeepsInductive ==
  ASSUME Inductive, NEW d \in Daemons, job[d].at = "recovering",
         NEW calls \in {MarkBlocked, ReleaseClaim}, Settle(d, calls)
  PROVE  Inductive'
<1> DEFINE j == job[d]
           k == [j EXCEPT !.at = "settling", !.calls = calls]
<1>1. Become(d, k) /\ UNCHANGED <<labels, policy, faults, records, crashes, moves>>
  BY DEF Settle
<1>2. TypeParts /\ JobShape(j) /\ j \in Job
  BY JobOf DEF Inductive
<1>3. calls \in Seq(Call)
  BY BlockCallFacts DEF Blocking
<1>4. k \in Job
  BY <1>2, <1>3, JobUpdates DEF At
<1>5. /\ k.at = "settling" /\ k.role = j.role /\ k.home = j.home /\ k.left = j.left
      /\ k.calls = calls /\ k.tries = j.tries
  BY <1>2 DEF Job
<1> HIDE DEF k
<1>6. JobShape(k)
  BY <1>2, <1>4, <1>5 DEF JobShape, Recovering, InRole
<1>7. CallsShape(k)
  BY <1>5 DEF CallsShape, Blocking
<1>8. k.left <= records'[d]
  BY <1>1, <1>2, <1>5, JobOf
<1> QED
  BY <1>1, <1>2, <1>6, <1>7, <1>8, SameRecords, RecoveryStepKeeps

LEMMA SkipsKeepsInductive ==
  ASSUME Inductive, NEW d \in Daemons, RecoverSkips(d) PROVE Inductive'
<1> DEFINE j == job[d]
           k == Left(j)
<1>1. /\ j.at = "recovering" /\ Become(d, k) /\ records' = [records EXCEPT ![d] = @ - 1]
      /\ UNCHANGED <<labels, policy, faults, crashes, moves>>
  BY DEF RecoverSkips
<1>2. TypeParts /\ JobShape(j) /\ j \in Job
  BY JobOf DEF Inductive
<1>3. /\ j.left \in Nat /\ j.left > 0 /\ j.left <= records[d] /\ records[d] \in 0..MaxRecords
      /\ MaxRecords \in Nat
  BY <1>1, <1>2, JobOf DEF JobShape, Recovering
<1>4. JobShape(k) /\ CallsShape(k)
  BY <1>2, LeftShape
<1>5. k.left = j.left - 1
  <2>1. j.left > 1 \/ j.left <= 1
    BY <1>3
  <2> QED
    BY <1>2, <1>3, <2>1, LeftShape
<1> HIDE DEF k
<1>6. /\ records' \in [Daemons -> 0..MaxRecords]
      /\ \A e \in Daemons \ {d} : records'[e] = records[e]
      /\ records'[d] = records[d] - 1
  <2>1. records \in [Daemons -> 0..MaxRecords] /\ records[d] - 1 \in 0..MaxRecords
    BY <1>2, <1>3 DEF TypeParts
  <2> QED
    BY <1>1, <2>1
<1>7. k.left <= records'[d]
  BY <1>3, <1>5, <1>6
<1> QED
  BY <1>1, <1>4, <1>6, <1>7, RecoveryStepKeeps

LEMMA ResumeKeepsInductive ==
  ASSUME Inductive, NEW d \in Daemons, Resume(d) PROVE Inductive'
<1> DEFINE j == job[d]
<1>1. PICK r \in RecoveryRoles(d) : Become(d, [j EXCEPT !.at = "running", !.role = r])
  BY DEF Resume
<1>2. /\ j.at = "recovering" /\ records' \in {records, MoreRecords(d)}
      /\ UNCHANGED <<labels, policy, faults, crashes, moves>>
  BY DEF Resume, Recovers
<1> DEFINE k == [j EXCEPT !.at = "running", !.role = r]
<1>3. TypeParts /\ JobShape(j) /\ CallsShape(j) /\ j \in Job
  BY JobOf DEF Inductive
<1>4. r \in Roles /\ ClaimState[r] = StateIn(j.seen) /\ Resolves(j.seen)
  BY <1>1 DEF RecoveryRoles, Claimed
<1>5. ClaimState[r] \in States
  <2>1. j.seen \in SUBSET States
    BY <1>3, JobFields
  <2> QED
    BY <1>4, <2>1, OneLabel, StatesAreFinite
<1>6. k \in Job
  BY <1>3, <1>4, JobUpdates DEF At
<1>7. /\ k.at = "running" /\ k.role = r /\ k.home = j.home /\ k.left = j.left
      /\ k.calls = j.calls /\ k.tries = j.tries
  BY <1>3 DEF Job
<1>8. Become(d, k)
  BY <1>1
<1> HIDE DEF k
<1>9. JobShape(k)
  BY <1>3, <1>4, <1>5, <1>6, <1>7 DEF JobShape, Recovering, InRole, RoleState
<1>10. CallsShape(k)
  BY <1>2, <1>3, <1>7 DEF CallsShape
<1>11. /\ records' \in [Daemons -> 0..MaxRecords]
       /\ \A e \in Daemons \ {d} : records'[e] = records[e]
       /\ records[d] <= records'[d]
  <2>1. CASE records' = records
    <3>1. records[d] <= records[d]
      BY <1>3, JobOf
    <3> QED
      BY <1>3, <2>1, <3>1, SameRecords
  <2>2. CASE records' = MoreRecords(d)
    BY <1>3, <2>2, MoreRecordsType
  <2> QED
    BY <1>2, <2>1, <2>2
<1>12. k.left <= records'[d]
  <2>1. j.left \in Nat /\ records[d] \in Nat /\ records'[d] \in Nat /\ j.left <= records[d]
    BY <1>3, <1>11, JobOf
  <2> QED
    BY <1>7, <1>11, <2>1
<1> QED
  BY <1>2, <1>8, <1>9, <1>10, <1>11, <1>12, RecoveryStepKeeps

LEMMA RecoveryKeepsInductive ==
  ASSUME Inductive, NEW d \in Daemons, Recovery(d) PROVE Inductive'
<1>1. CASE RecoverIneligible(d)
  BY <1>1, SettleKeepsInductive DEF RecoverIneligible
<1>2. CASE RecoverSkips(d)
  BY <1>2, SkipsKeepsInductive
<1>3. CASE RecoverFailsClosed(d)
  BY <1>3, SettleKeepsInductive DEF RecoverFailsClosed, Recovers
<1>4. CASE RecoverHandsOver(d)
  BY <1>4, SettleKeepsInductive DEF RecoverHandsOver, Recovers
<1>5. CASE RestoreFails(d)
  BY <1>5, SettleKeepsInductive DEF RestoreFails, Recovers
<1>6. CASE Resume(d)
  BY <1>6, ResumeKeepsInductive
<1> QED
  BY <1>1, <1>2, <1>3, <1>4, <1>5, <1>6 DEF Recovery

----------------------------------------------------------------------------
(* The human, the beginning, and all steps together.                       *)

LEMMA HumanMovesKeepsInductive ==
  ASSUME Inductive, HumanMoves PROVE Inductive'
<1>1. PICK t \in Transitions :
        /\ Actor[RoleOf[t]] = "human" /\ Resolves(labels)
        /\ StateIn(labels) \in CanClaim[RoleOf[t]] /\ labels' = {ToState[t]}
  BY DEF HumanMoves
<1>2. /\ moves < MaxHumanMoves /\ moves' = moves + 1
      /\ UNCHANGED <<policy, faults, job, records, crashes>>
  BY DEF HumanMoves
<1>3. TypeParts /\ labels \in SUBSET States
  BY DEF Inductive, TypeParts, EnvType
<1>4. RoleOf[t] \in Roles /\ ToState[t] \in States
  BY RoleGraphAssumption
<1>5. TypeParts'
  <2>1. moves' \in 0..MaxHumanMoves
    BY <1>2, <1>3, RoleHandoffAssumption DEF TypeParts, EnvType
  <2>2. EnvType'
    BY <1>1, <1>2, <1>3, <1>4, <2>1 DEF TypeParts, EnvType
  <2> QED
    BY <1>2, <1>3, <2>2 DEF TypeParts
<1>6. ASSUME RolesAreShared, ClaimsAreExclusive, Exclusive PROVE Exclusive'
  <2> DEFINE s == StateIn(labels)
  <2>1. labels = {s}
    BY <1>1, <1>3, OneLabel, StatesAreFinite
  <2>2. ASSUME NEW e \in Daemons, Owner(e) PROVE FALSE
    <3>1. Owned(e, job[e], labels)
      BY <1>6 DEF Exclusive
    <3>2. CASE Pending(e, job[e]) /\ Target(job[e]) = s
      <4>1. OwnState(e, s)
        BY <3>1, <3>2 DEF Owned
      <4> QED
        BY <1>1, <1>4, <1>6, <4>1 DEF OwnState, ClaimsAreExclusive
    <3>3. CASE Holding(e, job[e])
      <4>1. RoleState(job[e]) = s /\ job[e].role \in Roles
        BY <1>3, <2>1, <3>1, <3>3 DEF Owned, Holding, TypeParts, JobShape
      <4> QED
        BY <1>1, <1>4, <1>6, <4>1 DEF ClaimsAreExclusive, RoleState
    <3>4. Pending(e, job[e]) => Target(job[e]) = s
      BY <2>1, <3>1 DEF Owned
    <3> QED
      BY <2>2, <3>2, <3>3, <3>4 DEF Owner
  <2>3. \A e \in Daemons : ~Pending(e, job[e]) /\ ~Holding(e, job[e])
    BY <2>2 DEF Owner
  <2>4. \A e \in Daemons : Owned(e, job[e], labels')
    BY <1>6, <2>3 DEF Exclusive, Owned
  <2>5. \A e \in Daemons : ~Owner(e)'
    BY <1>2, <2>3 DEF Owner
  <2> QED
    BY <1>2, <2>4, <2>5 DEF Exclusive
<1>7. Calm' => Calm
  BY <1>2 DEF Calm
<1>8. (RolesAreShared' <=> RolesAreShared) /\ (ClaimsAreExclusive' <=> ClaimsAreExclusive)
  BY DEF RolesAreShared, ClaimsAreExclusive
<1> QED
  BY <1>5, <1>6, <1>7, <1>8 DEF Inductive, OwnedOnce

LEMMA InitInductive == Init => Inductive
<1> SUFFICES ASSUME Init PROVE Inductive
  OBVIOUS
<1>1. EnvType
  BY RoleHandoffAssumption DEF Init, EnvType
<1>2. \A d \in Daemons : job[d] = NoJob /\ records[d] = 0
  BY DEF Init
<1>3. JobShape(NoJob) /\ CallsShape(NoJob) /\ NoJob.left <= 0 /\ NoJob \in Job
  <2>1. JobShape(NoJob) /\ CallsShape(NoJob)
    BY RestShape, NoJobType DEF NoJob
  <2>2. NoJob.left = 0 /\ NoJob \in Job
    BY NoJobType
  <2>3. NoJob.left <= 0
    BY <2>2
  <2> QED
    BY <2>1, <2>2, <2>3
<1>4. records \in [Daemons -> 0..MaxRecords] /\ job \in [Daemons -> Job]
  BY <1>3, RoleHandoffAssumption DEF Init
<1>5. TypeParts
  BY <1>1, <1>2, <1>3, <1>4 DEF TypeParts
<1>6. Exclusive
  <2>1. \A d \in Daemons : /\ Owned(d, NoJob, labels)
                           /\ ~Pending(d, NoJob) /\ ~Holding(d, NoJob)
    BY NoJobType, RestOwned
  <2> QED
    BY <1>2, <2>1 DEF Exclusive, Owner
<1> QED
  BY <1>5, <1>6 DEF Inductive, OwnedOnce

LEMMA StutterKeepsInductive ==
  ASSUME Inductive, UNCHANGED vars PROVE Inductive'
<1>1. UNCHANGED <<labels, policy, faults, job, records, crashes, moves>>
  BY DEF vars
<1>2. TypeParts'
  BY <1>1 DEF Inductive, TypeParts, EnvType
<1>3. Exclusive => Exclusive'
  BY <1>1 DEF Exclusive, Owner
<1> QED
  BY <1>1, <1>2, <1>3 DEF Inductive, OwnedOnce, RolesAreShared, ClaimsAreExclusive, Calm

LEMMA NextKeepsInductive ==
  ASSUME Inductive, [Next]_vars PROVE Inductive'
<1>1. CASE HumanMoves
  BY <1>1, HumanMovesKeepsInductive
<1>2. ASSUME NEW d \in Daemons, Daemon(d) PROVE Inductive'
  <2>1. CASE Fetch(d)
    BY <2>1, FetchKeepsInductive
  <2>2. CASE PassOver(d)
    BY <2>2, PassOverKeepsInductive
  <2>3. CASE Claim(d)
    BY <2>3, ClaimKeepsInductive
  <2>4. CASE Preflight(d)
    BY <2>4, PreflightKeepsInductive
  <2>5. CASE Start(d)
    BY <2>5, StartKeepsInductive
  <2>6. CASE StartFails(d)
    BY <2>6, StartFailsKeepsInductive
  <2>7. CASE Finish(d)
    BY <2>7, FinishKeepsInductive
  <2>8. CASE CallGitHub(d)
    BY <2>8, CallGitHubKeepsInductive
  <2>9. CASE Restart(d)
    BY <2>9, RestartKeepsInductive
  <2>10. CASE Recovery(d)
    BY <2>10, RecoveryKeepsInductive
  <2> QED
    BY <1>2, <2>1, <2>2, <2>3, <2>4, <2>5, <2>6, <2>7, <2>8, <2>9, <2>10 DEF Daemon
<1>3. ASSUME NEW d \in Daemons, Crash(d) PROVE Inductive'
  BY <1>3, CrashKeepsInductive
<1>4. CASE UNCHANGED vars
  BY <1>4, StutterKeepsInductive
<1> QED
  BY <1>1, <1>2, <1>3, <1>4 DEF Next

----------------------------------------------------------------------------
(* The gates.                                                              *)

\* What the end of a run may add to the labels.
Justified(j, l) ==
  \/ l \in {j.home, BlockedLabel}
  \/ \E t \in Transitions :
       /\ RoleOf[t] = j.role /\ ToState[t] = l
       /\ RoleState(j) \in FromStates[t]
       /\ Requires[t] \cap Verifiable \subseteq j.earned

\* The label the next call adds and those of the operations still to be tried
\* are justified.
Proven(j) ==
  /\ j.at \in {"routing", "preflight"} /\ j.calls # <<>> /\ Head(j.calls).do = "add" =>
       Justified(j, Head(j.calls).label)
  /\ j.at = "routing" =>
       \A n \in DOMAIN j.tries : Fitting(j.tries[n], j.role, RoleState(j), j.earned)

AllProven == \A d \in Daemons : Proven(job[d])

\* The first call of a fitting operation adds a justified label.
LEMMA FittingIsJustified ==
  ASSUME NEW j \in Job, j.role \in Roles, RoleState(j) \in States,
         NEW op \in Ops(j.home \in States), Fitting(op, j.role, RoleState(j), j.earned)
  PROVE  Justified(j, Head(CallsOf(j, op)).label)
<1>1. CASE op = Release
  <2>1. j.home \in States /\ CallsOf(j, op) = Move(RoleState(j), j.home)
    BY <1>1 DEF Ops, CallsOf, Release, Block
  <2> QED
    BY <2>1, CallFacts DEF Do, Justified
<1>2. CASE op = Block
  <2>1. CallsOf(j, op) = MarkBlocked
    BY <1>2 DEF CallsOf, Release, Block
  <2> QED
    BY <2>1, BlockCallFacts DEF Do, Justified
<1>3. CASE op \in Transitions /\ op # Release /\ op # Block
  <2>1. CallsOf(j, op) = Move(RoleState(j), ToState[op]) /\ ToState[op] \in States
    BY <1>3, RoleGraphAssumption DEF CallsOf
  <2>2. Head(CallsOf(j, op)).label = ToState[op]
    BY <2>1, CallFacts DEF Do
  <2> QED
    BY <1>3, <2>2 DEF Fitting, Justified
<1> QED
  BY <1>1, <1>2, <1>3 DEF Ops, Op

\* An operation that raised leads on to one that fits as well.
LEMMA FailedProven ==
  ASSUME NEW j, JobShape(j), CallsShape(j), Proven(j)
  PROVE  Proven(Failed(j))
<1>1. j \in Job
  BY DEF JobShape
<1>2. CASE j.at = "preflight"
  <2>1. Failed(j).at = "starting"
    BY <1>1, <1>2 DEF Failed, Job
  <2> QED
    BY <2>1 DEF Proven
<1>3. CASE j.at = "routing" /\ Len(j.tries) > 1
  <2> DEFINE op == j.tries[2]
             k == [j EXCEPT !.tries = Tail(j.tries), !.calls = CallsOf(j, j.tries[2])]
  <2>1. Failed(j) = k
    BY <1>1, <1>3 DEF Failed, Job
  <2>2. j.tries \in Seq(Ops(j.home \in States)) /\ j.role \in Roles /\ RoleState(j) \in States
    BY <1>3 DEF JobShape, InRole
  <2>3. op \in Ops(j.home \in States) /\ 2 \in DOMAIN j.tries
    BY <1>3, <2>2, TailOps
  <2>4. /\ k.at = "routing" /\ k.calls = CallsOf(j, op) /\ k.earned = j.earned
        /\ k.role = j.role /\ k.home = j.home /\ k.tries = Tail(j.tries)
    BY <1>1, <1>3 DEF Job
  <2>5. Fitting(op, j.role, RoleState(j), j.earned)
    BY <1>3, <2>3 DEF Proven
  <2>6. \A n \in DOMAIN Tail(j.tries) : n + 1 \in DOMAIN j.tries /\ Tail(j.tries)[n] = j.tries[n + 1]
    BY <1>3, <2>2
  <2> HIDE DEF k, op
  <2>7. Justified(j, Head(k.calls).label)
    BY <1>1, <2>2, <2>3, <2>4, <2>5, FittingIsJustified
  <2>8. Justified(k, Head(k.calls).label)
    BY <2>4, <2>7 DEF Justified, RoleState
  <2>9. \A n \in DOMAIN k.tries : Fitting(k.tries[n], k.role, RoleState(k), k.earned)
    BY <1>3, <2>4, <2>6 DEF Proven, RoleState
  <2> QED
    BY <2>1, <2>8, <2>9 DEF Proven
<1>4. CASE j.at # "preflight" /\ ~(j.at = "routing" /\ Len(j.tries) > 1)
  <2>1. Failed(j) = Left(j)
    BY <1>4 DEF Failed
  <2>2. Failed(j).at \in {"idle", "recovering"}
    BY <1>1, <2>1, LeftShape
  <2> QED
    BY <2>2 DEF Proven
<1> QED
  BY <1>2, <1>3, <1>4

\* What follows the first call of an operation adds no label.
LEMMA OnlyTheFirstAdds ==
  ASSUME NEW j, JobShape(j), CallsShape(j), j.calls # <<>>, Len(j.calls) # 1,
         j.at \in {"routing", "preflight"}
  PROVE  Head(Tail(j.calls)).do # "add"
<1>1. RoleState(j) \in States
  BY DEF JobShape, InRole
<1>2. CASE j.calls \in Leaving(j)
  <2>1. PICK l \in States : j.calls = Move(RoleState(j), l)
    BY <1>1, <1>2, CallFacts DEF Leaving
  <2>2. Tail(j.calls) = Delete(RoleState(j))
    BY <1>1, <2>1, CallFacts
  <2>3. Head(Tail(j.calls)) = Do("delete", RoleState(j))
    BY <1>1, <2>2, CallFacts
  <2>4. Do("delete", RoleState(j)).do = "delete"
    BY DEF Do
  <2> QED
    BY <2>3, <2>4
<1>3. CASE j.calls \in Blocking
  <2>1. Tail(j.calls) \in {BlockTail, LastDrop}
    BY <1>3, BlockCallFacts DEF Blocking
  <2>2. Head(BlockTail).do # "add" /\ Head(LastDrop).do # "add"
    BY BlockCallFacts DEF Do
  <2> QED
    BY <2>1, <2>2
<1> QED
  BY <1>2, <1>3 DEF CallsShape

LEMMA CalledProven ==
  ASSUME NEW j, JobShape(j), CallsShape(j), j.calls # <<>>, Proven(j), NEW answer
  PROVE  Proven(Called(j, answer))
<1> DEFINE tail == [j EXCEPT !.calls = Tail(@)]
<1>1. CASE answer # "ok" /\ Head(j.calls).do # "try_delete"
  BY <1>1, FailedProven DEF Called
<1>2. CASE ~(answer # "ok" /\ Head(j.calls).do # "try_delete") /\ Len(j.calls) = 1
  <2>1. Called(j, answer) = Applied(j) /\ j \in Job
    BY <1>2 DEF Called, JobShape
  <2>2. Applied(j).at \in {"claimed", "idle", "recovering"}
    BY <2>1, AppliedShape, LeftShape
  <2> QED
    BY <2>1, <2>2 DEF Proven
<1>3. CASE ~(answer # "ok" /\ Head(j.calls).do # "try_delete") /\ Len(j.calls) # 1
  <2>1. Called(j, answer) = tail
    BY <1>3 DEF Called
  <2>2. /\ tail.at = j.at /\ tail.calls = Tail(j.calls) /\ tail.tries = j.tries
        /\ tail.role = j.role /\ tail.earned = j.earned
    BY DEF JobShape, Job
  <2>3. j.at \in {"routing", "preflight"} => Head(Tail(j.calls)).do # "add"
    BY <1>3, OnlyTheFirstAdds
  <2> HIDE DEF tail
  <2>4. /\ j.at \in {"routing", "preflight"} => Head(tail.calls).do # "add"
        /\ RoleState(tail) = RoleState(j)
    BY <2>2, <2>3 DEF RoleState
  <2>5. Proven(tail)
    BY <2>2, <2>4 DEF Proven
  <2> QED
    BY <2>1, <2>5
<1> QED
  BY <1>1, <1>2, <1>3

LEMMA PreflightProven ==
  ASSUME TypeParts, NEW d \in Daemons, Preflight(d)
  PROVE  Proven(job'[d])
<1> DEFINE j == job[d]
           e == {"pr_link", "pr_approval", "pr_merged"}
           k == [j EXCEPT !.at = "preflight", !.calls = CallsOf(j, "approved"), !.earned = e]
<1>1. /\ j.at = "claimed" /\ Become(d, k)
      /\ PlanTransition(j.role, "approved", RoleState(j), Evidence("approved", Verified)) = "ok"
  BY DEF Preflight
<1>2. JobShape(j) /\ j \in Job /\ job \in [Daemons -> Job]
  BY JobOf DEF TypeParts
<1>3. j.role \in Roles /\ RoleState(j) \in States
  BY <1>1, <1>2 DEF JobShape, InRole
<1>4. Evidence("approved", Verified) \cap Verifiable \subseteq e
  <2>1. Attested("approved", Verified) \cap Verifiable \subseteq e
    BY DEF Attested, Verifiable
  <2> QED
    BY <2>1 DEF Evidence, Verified, Verifiable
<1>5. Fitting("approved", j.role, RoleState(j), e) /\ "approved" \in Transitions
  BY <1>1, <1>4, PlannedIsTransition DEF Fitting
<1>6. CallsOf(j, "approved") = Move(RoleState(j), ToState["approved"])
      /\ ToState["approved"] \in States
  BY <1>5, RoleGraphAssumption DEF CallsOf, Release, Block
<1>7. job'[d] = k
  BY <1>1, <1>2 DEF Become
<1>8. /\ k.at = "preflight" /\ k.calls = Move(RoleState(j), ToState["approved"])
      /\ k.earned = e /\ k.role = j.role
  BY <1>2, <1>6 DEF Job
<1> HIDE DEF k, e
<1>9. Head(k.calls).label = ToState["approved"]
  BY <1>3, <1>6, <1>8, CallFacts DEF Do
<1>10. Justified(k, ToState["approved"])
  BY <1>5, <1>8 DEF Justified, Fitting, RoleState
<1> QED
  BY <1>7, <1>8, <1>9, <1>10 DEF Proven

LEMMA FinishProven ==
  ASSUME TypeParts, NEW d \in Daemons, Finish(d)
  PROVE  Proven(job'[d])
<1> DEFINE j == job[d]
<1>1. j.at = "running"
  BY DEF Finish
<1>2. JobShape(j) /\ j \in Job /\ job \in [Daemons -> Job]
  BY JobOf DEF TypeParts
<1>3. j.role \in Roles /\ RoleState(j) \in States
  BY <1>1, <1>2 DEF JobShape, InRole
<1>4. (j.home # None) = (j.home \in States)
  BY <1>2, JobFields, RoleGraphAssumption
<1>5. PICK o \in Outcomes :
        LET ops == Routing(j.role, RoleState(j), j.home # None, o)
        IN  Become(d, [j EXCEPT !.at = "routing", !.tries = ops,
                                !.calls = CallsOf(j, Head(ops)), !.earned = Proved(o)])
  BY <1>2, <1>3, JobFields, FinishEnds
<1> DEFINE ops == Routing(j.role, RoleState(j), j.home # None, o)
           S == Earned(j.role, RoleState(j), j.home \in States, o)
           k == [j EXCEPT !.at = "routing", !.tries = ops, !.calls = CallsOf(j, Head(ops)),
                          !.earned = Proved(o)]
<1>6. ops \in Seq(S) /\ ops # <<>>
  BY <1>4, RoutingType DEF Outcomes
<1>7. job'[d] = k
  BY <1>2, <1>5 DEF Become
<1>8. /\ k.at = "routing" /\ k.calls = CallsOf(j, Head(ops)) /\ k.tries = ops
      /\ k.earned = Proved(o) /\ k.role = j.role /\ k.home = j.home
  BY <1>2 DEF Job
<1> HIDE DEF k, ops
<1>9. /\ \A n \in DOMAIN ops : ops[n] \in S
      /\ Head(ops) \in S
  <2> HIDE DEF S
  <2> QED
    BY <1>6
<1>10. \A op \in S : op \in Ops(j.home \in States) /\ Fitting(op, j.role, RoleState(j), Proved(o))
  BY DEF Earned
<1> HIDE DEF S
<1>11. \A n \in DOMAIN k.tries : Fitting(k.tries[n], k.role, RoleState(k), k.earned)
  BY <1>8, <1>9, <1>10 DEF RoleState
<1>12. Justified(k, Head(k.calls).label)
  <2> DEFINE i == [j EXCEPT !.earned = Proved(o)]
  <2>1. i \in Job /\ i.role = j.role /\ i.home = j.home /\ i.earned = Proved(o)
    BY <1>2 DEF Job, Proved
  <2> HIDE DEF i
  <2>2. RoleState(i) = RoleState(j) /\ CallsOf(i, Head(ops)) = CallsOf(j, Head(ops))
    BY <2>1 DEF CallsOf, RoleState
  <2>3. Head(ops) \in Ops(i.home \in States) /\ Fitting(Head(ops), i.role, RoleState(i), i.earned)
    BY <1>9, <1>10, <2>1, <2>2
  <2>4. Justified(i, Head(CallsOf(i, Head(ops))).label)
    BY <1>3, <2>1, <2>2, <2>3, FittingIsJustified
  <2> QED
    BY <1>8, <2>1, <2>2, <2>4 DEF Justified, RoleState
<1> QED
  BY <1>7, <1>8, <1>11, <1>12 DEF Proven

\* Nobody else has anything to justify.
LEMMA OthersProven ==
  ASSUME NEW k, k.at \notin {"routing", "preflight"} PROVE Proven(k)
  BY DEF Proven

\* Whatever else a daemon does, it is not routing afterwards.
LEMMA OtherSteps ==
  ASSUME TypeParts, NEW d \in Daemons,
         \/ Fetch(d) \/ PassOver(d) \/ Claim(d) \/ Start(d) \/ StartFails(d)
         \/ Restart(d) \/ Recovery(d) \/ Crash(d)
  PROVE  \E k : Become(d, k) /\ k.at \notin {"routing", "preflight"}
<1>1. job[d] \in Job
  BY JobOf
<1>2. CASE Fetch(d)
  <2> DEFINE k == [NoJob EXCEPT !.at = "fetched", !.seen = labels]
  <2>1. Become(d, k) /\ k.at = "fetched"
    BY <1>2 DEF Fetch, NoJob
  <2> HIDE DEF k
  <2> QED
    BY <2>1
<1>3. CASE PassOver(d)
  BY <1>3, NoJobType DEF PassOver
<1>4. CASE Claim(d)
  <2>1. PICK r, h, c :
          Become(d, [job[d] EXCEPT !.at = "claiming", !.role = r, !.home = h, !.seen = {}, !.calls = c])
    BY <1>4 DEF Claim
  <2> DEFINE k == [job[d] EXCEPT !.at = "claiming", !.role = r, !.home = h, !.seen = {}, !.calls = c]
  <2>2. Become(d, k) /\ k.at = "claiming"
    BY <1>1, <2>1 DEF Job
  <2> HIDE DEF k
  <2> QED
    BY <2>2
<1>5. CASE Start(d)
  BY <1>1, <1>5 DEF Start, Job
<1>6. CASE StartFails(d)
  <2> DEFINE k == [job[d] EXCEPT !.at = "releasing", !.calls = CallsOf(job[d], Release)]
  <2>1. Become(d, k) /\ k.at = "releasing"
    BY <1>1, <1>6 DEF StartFails, Job
  <2> HIDE DEF k
  <2> QED
    BY <2>1
<1>7. CASE Restart(d)
  <2> DEFINE back == [NoJob EXCEPT !.at = "recovering", !.seen = labels, !.left = records[d]]
  <2>1. Become(d, NoJob) \/ Become(d, back)
    BY <1>7 DEF Restart
  <2>2. NoJob.at = "idle" /\ back.at = "recovering"
    BY DEF NoJob
  <2> HIDE DEF back
  <2> QED
    BY <2>1, <2>2
<1>8. CASE RecoverSkips(d)
  <2>1. Become(d, Left(job[d])) /\ Left(job[d]).at \in {"idle", "recovering"}
    BY <1>1, <1>8, LeftShape DEF RecoverSkips
  <2> QED
    BY <2>1
<1>9. CASE Resume(d)
  <2>1. PICK r : Become(d, [job[d] EXCEPT !.at = "running", !.role = r])
    BY <1>9 DEF Resume
  <2> DEFINE k == [job[d] EXCEPT !.at = "running", !.role = r]
  <2>2. Become(d, k) /\ k.at = "running"
    BY <1>1, <2>1 DEF Job
  <2> HIDE DEF k
  <2> QED
    BY <2>2
<1>10. ASSUME NEW c, Settle(d, c) PROVE \E k : Become(d, k) /\ k.at \notin {"routing", "preflight"}
  <2> DEFINE k == [job[d] EXCEPT !.at = "settling", !.calls = c]
  <2>1. Become(d, k) /\ k.at = "settling"
    BY <1>1, <1>10 DEF Settle, Job
  <2> HIDE DEF k
  <2> QED
    BY <2>1
<1>11. CASE Crash(d)
  <2> DEFINE k == [NoJob EXCEPT !.at = "down"]
  <2>1. Become(d, k) /\ k.at = "down"
    BY <1>11 DEF Crash, NoJob
  <2> HIDE DEF k
  <2> QED
    BY <2>1
<1>12. CASE Recovery(d)
  <2>1. RecoverSkips(d) \/ Resume(d) \/ \E c : Settle(d, c)
    BY <1>12
       DEF Recovery, RecoverIneligible, RecoverFailsClosed, RecoverHandsOver, RestoreFails
  <2> QED
    BY <1>8, <1>9, <1>10, <2>1
<1> QED
  BY <1>2, <1>3, <1>4, <1>5, <1>6, <1>7, <1>11, <1>12

LEMMA CallGitHubProven ==
  ASSUME TypeParts, NEW d \in Daemons, CallGitHub(d), Proven(job[d])
  PROVE  /\ Proven(job'[d])
         /\ job[d].at \in {"routing", "preflight"} =>
              \A s \in labels' \ labels : Justified(job[d], s)
<1> DEFINE j == job[d]
<1>1. PICK answer : labels' = LabelsCalled(j, answer) /\ Become(d, Called(j, answer))
  BY DEF CallGitHub, Called, LabelsCalled
<1>2. j.calls # <<>> /\ JobShape(j) /\ CallsShape(j) /\ job \in [Daemons -> Job]
  BY JobOf DEF CallGitHub, TypeParts
<1>3. job'[d] = Called(j, answer)
  BY <1>1, <1>2 DEF Become
<1>4. Proven(job'[d])
  BY <1>2, <1>3, CalledProven
<1>5. ASSUME NEW s \in labels' \ labels PROVE Head(j.calls).do = "add" /\ s = Head(j.calls).label
  BY <1>1, <1>5 DEF LabelsCalled
<1> QED
  BY <1>2, <1>4, <1>5 DEF Proven

LEMMA NextProven ==
  ASSUME TypeParts, AllProven, [Next]_vars PROVE AllProven'
<1>1. ASSUME NEW d \in Daemons, Daemon(d) \/ Crash(d)
      PROVE  Proven(job'[d]) /\ \A e \in Daemons \ {d} : job'[e] = job[e]
  <2>1. job \in [Daemons -> Job] /\ Proven(job[d])
    BY DEF TypeParts, AllProven
  <2>2. \A k : Become(d, k) => job'[d] = k /\ \A e \in Daemons \ {d} : job'[e] = job[e]
    BY <2>1 DEF Become
  <2>3. CASE Preflight(d)
    <3>1. \E k : Become(d, k)
      BY <2>3 DEF Preflight
    <3> QED
      BY <2>2, <2>3, <3>1, PreflightProven
  <2>4. CASE Finish(d)
    <3>1. \E k : Become(d, k)
      BY <2>4 DEF Finish
    <3> QED
      BY <2>2, <2>4, <3>1, FinishProven
  <2>5. CASE CallGitHub(d)
    <3>1. \E k : Become(d, k)
      BY <2>5 DEF CallGitHub
    <3> QED
      BY <2>1, <2>2, <2>5, <3>1, CallGitHubProven
  <2>6. CASE ~Preflight(d) /\ ~Finish(d) /\ ~CallGitHub(d)
    <3>1. PICK k : Become(d, k) /\ k.at \notin {"routing", "preflight"}
      BY <1>1, <2>6, OtherSteps DEF Daemon
    <3> QED
      BY <2>2, <3>1, OthersProven
  <2> QED
    BY <2>3, <2>4, <2>5, <2>6
<1>2. CASE \E d \in Daemons : Daemon(d) \/ Crash(d)
  BY <1>1, <1>2 DEF AllProven
<1>3. CASE HumanMoves \/ UNCHANGED vars
  <2>1. job' = job
    BY <1>3 DEF HumanMoves, vars
  <2> QED
    BY <2>1 DEF AllProven
<1> QED
  BY <1>2, <1>3 DEF Next

\* The step of a daemon that is not a call changes no label.
LEMMA OnlyCallsLabel ==
  ASSUME NEW d \in Daemons, Daemon(d) \/ Crash(d), ~CallGitHub(d)
  PROVE  labels' = labels
  BY DEF Daemon, Crash, Fetch, PassOver, Claim, Preflight, Start, StartFails, Finish, Restart,
         Recovery, RecoverIneligible, RecoverSkips, RecoverFailsClosed, RecoverHandsOver,
         RestoreFails, Resume, Settle

----------------------------------------------------------------------------
(* Claims and gates: the theorems.                                         *)

\* Every reachable state is typed, every daemon is at a place of its work that
\* its calls and its role fit, and, under the hypotheses of OneWorkerPerIssue,
\* at most one daemon has the issue or is about to claim it.
THEOREM RoleInductive == Spec => []Inductive
<1>1. Init => Inductive
  BY InitInductive
<1>2. Inductive /\ [Next]_vars => Inductive'
  BY NextKeepsInductive
<1> QED
  BY <1>1, <1>2, PTL DEF Spec

\* The labels, the jobs and the records are always typed.
THEOREM RoleTypeCorrect == Spec => []RoleTypeOK
<1>1. Inductive => RoleTypeOK
  BY DEF Inductive, TypeParts, EnvType, RoleTypeOK
<1> QED
  BY <1>1, RoleInductive, PTL

\* Daemons that share the roles of a graph with exclusive claims never run one
\* issue twice, as long as no answer of GitHub is lost and nobody crashes:
\* fetches, claims, rejected calls and the human's moves may interleave in any
\* way.
THEOREM OneWorkerPerIssueCorrect == Spec => []OneWorkerPerIssue
<1>1. ASSUME Inductive PROVE OneWorkerPerIssue
  <2>1. \A d \in Daemons : Working(d) => Holding(d, job[d])
    BY DEF Working, Holding, Pending, InRole
  <2> QED
    BY <1>1, <2>1 DEF Inductive, OwnedOnce, Exclusive, Owner, OneWorkerPerIssue
<1> QED
  BY <1>1, RoleInductive, PTL

\* In the same circumstances the label of the claimed state stays on the issue
\* until its worker's own daemon routes it onward.
THEOREM WorkerKeepsItsStateCorrect == Spec => []WorkerKeepsItsState
<1>1. ASSUME Inductive PROVE WorkerKeepsItsState
  <2>1. \A d \in Daemons : Working(d) => Holding(d, job[d])
    BY DEF Working, Holding, Pending, InRole
  <2> QED
    BY <1>1, <2>1 DEF Inductive, OwnedOnce, Exclusive, Owned, WorkerKeepsItsState
<1> QED
  BY <1>1, RoleInductive, PTL

\* Where the end of a run takes the issue is justified by a transition of the
\* run's own role whose verifiable requirements the run fulfils, for every role
\* graph, outcome and sequence of failed calls: there is no way around a gate.
THEOREM GatesNeedEvidenceCorrect == Spec => GatesNeedEvidence
<1> DEFINE Gated == \A d \in Daemons :
       job[d].at \in {"routing", "preflight"} /\ job'[d] # job[d] =>
         \A s \in labels' \ (labels \cup {job[d].home, BlockedLabel}) :
           \E t \in Transitions :
             /\ RoleOf[t] = job[d].role /\ ToState[t] = s
             /\ RoleState(job[d]) \in FromStates[t]
             /\ Requires[t] \cap Verifiable \subseteq job[d].earned
<1>1. Init => AllProven
  <2>1. NoJob.at = "idle"
    BY NoJobType
  <2> QED
    BY <2>1, OthersProven DEF Init, AllProven
<1>2. Inductive /\ AllProven /\ [Next]_vars => AllProven'
  BY NextProven DEF Inductive
<1>3. ASSUME Inductive, AllProven, [Next]_vars PROVE [Gated]_vars
  <2>1. ASSUME NEW d \in Daemons, job[d].at \in {"routing", "preflight"}, job'[d] # job[d]
        PROVE  \A s \in labels' \ labels : Justified(job[d], s)
    <3>1. PICK e \in Daemons : Daemon(e) \/ Crash(e)
      BY <1>3, <2>1 DEF Next, HumanMoves, vars
    <3>2. CASE CallGitHub(e)
      <4>1. e = d
        <5>1. PICK k : Become(e, k)
          BY <3>2 DEF CallGitHub
        <5> QED
          BY <1>3, <2>1, <5>1 DEF Become, Inductive, TypeParts
      <4> QED
        BY <1>3, <2>1, <3>2, <4>1, CallGitHubProven DEF Inductive, AllProven
    <3>3. CASE ~CallGitHub(e)
      BY <3>1, <3>3, OnlyCallsLabel
    <3> QED
      BY <3>2, <3>3
  <2>2. Gated
    BY <2>1 DEF Justified
  <2> QED
    BY <2>2
<1> QED
  BY <1>1, <1>2, <1>3, RoleInductive, PTL DEF Spec, GatesNeedEvidence

----------------------------------------------------------------------------
(* What the end of a run tries first: the block only where the role        *)
(* cannot escalate.                                                        *)

\* The operations that are no block.
Others(c) == Ops(c) \ {Block}

LEMMA ChangesRequestedOthers ==
  ASSUME NEW r, NEW s, NEW c
  PROVE  ChangesRequested(r, s) \in Seq(Others(c))
<1>1. CASE PlanTransition(r, "changes_requested", s, {"review_comment"}) = "ok"
  <2>1. "changes_requested" \in Others(c)
    BY <1>1, PlannedIsTransition, BlockIsOp DEF Others
  <2> QED
    BY <2>1, OneOp, OnlyIfType DEF ChangesRequested
<1>2. CASE PlanTransition(r, "changes_requested", s, {"review_comment"}) # "ok"
  BY <1>2, EmptySeq DEF ChangesRequested, OnlyIf
<1> QED
  BY <1>1, <1>2

LEMMA ReleaseOthers ==
  ASSUME NEW c \in BOOLEAN, NEW p \in BOOLEAN
  PROVE  OnlyIf(p /\ c, <<Release>>) \in Seq(Others(c))
<1>1. CASE c
  <2>1. Release \in Others(c)
    BY <1>1 DEF Others, Ops, Op, Release, Block
  <2> QED
    BY <2>1, OneOp, OnlyIfType
<1>2. CASE ~c
  BY <1>2, EmptySeq DEF OnlyIf
<1> QED
  BY <1>1, <1>2

LEMMA OverrideOthers ==
  ASSUME NEW r, NEW s, NEW c \in BOOLEAN, NEW o \in Outcome
  PROVE  Override(r, s, c, o) \in Seq(Others(c))
<1> DEFINE first  == OnlyIf(o.threads, ChangesRequested(r, s))
           second == OnlyIf("pass" \notin o.checklists, ChangesRequested(r, s))
           third  == OnlyIf(~o.approval /\ c, <<Release>>)
           cond   == s = "reviewing" /\ Requested(r, o) = "needs_leader" /\ o.linked
<1>1. first \in Seq(Others(c)) /\ second \in Seq(Others(c))
  BY ChangesRequestedOthers, OnlyIfType
<1>2. third \in Seq(Others(c))
  BY ReleaseOthers
<1>3. Override(r, s, c, o) = OnlyIf(cond, first \o second \o third)
  BY DEF Override
<1> HIDE DEF first, second, third, cond
<1>4. first \o second \o third \in Seq(Others(c))
  BY <1>1, <1>2, ConcatType
<1> QED
  BY <1>3, <1>4, OnlyIfType

\* The head of two sequences in a row.
LEMMA HeadOfConcat ==
  ASSUME NEW S, NEW U, NEW p \in Seq(S), NEW q \in Seq(U), q # <<>>, p # <<>> \/ Head(q) \in S
  PROVE  Head(p \o q) \in S
<1>1. CASE p = <<>>
  <2>1. p \o q = q
    BY <1>1
  <2> QED
    BY <1>1, <2>1
<1>2. CASE p # <<>>
  <2>1. Len(p) \in Nat /\ Len(p) > 0 /\ p[1] \in S
    BY <1>2, EmptySeq
  <2>2. Head(p \o q) = p[1]
    BY <2>1
  <2> QED
    BY <2>1, <2>2
<1> QED
  BY <1>1, <1>2

LEMMA SeqMono ==
  ASSUME NEW S, NEW U, S \subseteq U, NEW p \in Seq(S)
  PROVE  p \in Seq(U)
  OBVIOUS

\* A transition asked for by its name is that name.
LEMMA FirstTransitionName ==
  ASSUME NEW r, NEW S, NEW names \in Seq(S), FirstTransition(r, names) # None
  PROVE  \E k \in DOMAIN names :
           FirstTransition(r, names) = names[k] /\ names[k] \in Transitions /\ RoleOf[names[k]] = r
<1> DEFINE own == {k \in DOMAIN names : names[k] \in Transitions /\ RoleOf[names[k]] = r}
<1>1. own # {}
  BY DEF FirstTransition
<1>2. PICK n \in Nat : DOMAIN names = 1..n
  OBVIOUS
<1>3. \E k \in own : \A j \in own : k <= j
  BY <1>1, <1>2, FirstOf
<1>4. PICK k \in own : FirstTransition(r, names) = names[k]
  BY <1>1, <1>3 DEF FirstTransition
<1> QED
  BY <1>4

\* The transition a role escalates by.
Escalation(r) == FirstTransition(r, <<"operator_blocked", "needs_leader">>)

LEMMA EscalationFacts ==
  ASSUME NEW r, ~CannotEscalate(r)
  PROVE  /\ Escalation(r) \in {"operator_blocked", "needs_leader"}
         /\ Escalation(r) \in Transitions /\ Escalation(r) # None
         /\ PlanTransition(r, Escalation(r), ClaimState[r], {"issue_comment"}) = "ok"
<1> DEFINE names == <<"operator_blocked", "needs_leader">>
<1>1. /\ Escalation(r) # None
      /\ PlanTransition(r, Escalation(r), ClaimState[r], {"issue_comment"}) = "ok"
  BY DEF CannotEscalate, Escalation
<1>2. names \in Seq({"operator_blocked", "needs_leader"})
  OBVIOUS
<1>3. PICK k \in DOMAIN names : Escalation(r) = names[k] /\ names[k] \in Transitions
  BY <1>1, <1>2, FirstTransitionName DEF Escalation
<1> QED
  BY <1>1, <1>3

\* Whoever asks for the leader by a role outcome attests to the comment, and
\* nothing else asks for the leader.
LEMMA EscalationAttested ==
  ASSUME NEW r, NEW o \in Outcome, ~CannotEscalate(r), Requested(r, o) = Escalation(r)
  PROVE  "issue_comment" \in Evidence(Escalation(r), o)
<1>1. CASE Escalation(r) = "operator_blocked"
  BY <1>1 DEF Evidence
<1>2. CASE Escalation(r) = "needs_leader"
  <2>1. CASE o.task = "role_outcome"
    <3>1. o.name = "needs_leader"
      BY <1>2, <2>1 DEF Requested
    <3>2. "issue_comment" \in Attested("needs_leader", o)
      BY DEF Attested
    <3> QED
      BY <1>2, <3>1, <3>2 DEF Evidence
  <2>2. ASSUME NEW names \in Seq({"pr_delivered", "design_needed", "no_work_needed", "done",
                                  "operator_blocked"}),
               Requested(r, o) = FirstTransition(r, names)
        PROVE  FALSE
    <3>1. FirstTransition(r, names) # None
      BY <2>2, EscalationFacts
    <3>2. PICK k \in DOMAIN names : FirstTransition(r, names) = names[k]
      BY <3>1, FirstTransitionName
    <3>3. names[k] # "needs_leader"
      OBVIOUS
    <3> QED
      BY <1>2, <2>2, <3>2, <3>3
  <2>3. CASE o.task # "role_outcome"
    <3> DEFINE S == {"pr_delivered", "design_needed", "no_work_needed", "done", "operator_blocked"}
    <3>1. /\ <<"pr_delivered">> \in Seq(S) /\ <<"design_needed">> \in Seq(S)
          /\ <<"no_work_needed", "done">> \in Seq(S) /\ <<"operator_blocked">> \in Seq(S)
      OBVIOUS
    <3>2. Requested(r, o) # None
      BY EscalationFacts
    <3>3. Requested(r, o) \in {FirstTransition(r, <<"pr_delivered">>),
              FirstTransition(r, <<"design_needed">>),
              FirstTransition(r, <<"no_work_needed", "done">>),
              FirstTransition(r, <<"operator_blocked">>)}
      BY <2>3, <3>2 DEF Requested
    <3> QED
      BY <2>2, <3>1, <3>3
  <2> QED
    BY <2>1, <2>3
<1> QED
  BY <1>1, <1>2, EscalationFacts

\* The fallback of a role that can escalate does not begin with the block,
\* unless the escalation is what has just failed.
LEMMA FallbackHead ==
  ASSUME NEW r, NEW c \in BOOLEAN, NEW o \in Outcome, NEW code,
         ~CannotEscalate(r), Requested(r, o) # Escalation(r)
  PROVE  Head(Fallback(r, ClaimState[r], c, o, code)) \in Others(c)
<1> DEFINE s        == ClaimState[r]
           asked    == Requested(r, o)
           escalate == FirstTransition(r, <<"operator_blocked", "needs_leader">>)
           design   == asked \in {"decision_to_impl", "decision_to_review"}
                         /\ code = "missing_evidence"
           review   == asked = "approved" /\ code = "missing_evidence" /\ ~VerifiedApproval(o)
           goes     == escalate \notin {None, asked}
                         /\ PlanTransition(r, escalate, s, {"issue_comment"}) = "ok"
           first  == OnlyIf(design /\ c, <<Release>>)
           second == OnlyIf(review /\ (o.threads \/ "fail" \in o.checklists \/ "pass" \notin o.checklists),
                            ChangesRequested(r, s))
           third  == OnlyIf(review /\ c, <<Release>>)
<1>1. first \in Seq(Others(c)) /\ third \in Seq(Others(c))
  BY ReleaseOthers
<1>2. second \in Seq(Others(c))
  BY ChangesRequestedOthers, OnlyIfType
<1>3. goes /\ escalate \in Others(c)
  BY EscalationFacts, BlockIsOp DEF Escalation, Others
<1>4. Fallback(r, s, c, o, code) = first \o second \o third \o OnlyIf(goes, <<escalate>>) \o <<Block>>
  BY DEF Fallback
<1>5. OnlyIf(goes, <<escalate>>) = <<escalate>>
  BY <1>3 DEF OnlyIf
<1> HIDE DEF first, second, third, goes, escalate
<1>6. <<escalate>> \in Seq(Others(c)) /\ <<escalate>> # <<>>
  BY <1>3, OneOp
<1>7. first \o second \o third \in Seq(Others(c))
  BY <1>1, <1>2, ConcatType
<1>8. /\ (first \o second \o third) \o <<escalate>> \in Seq(Others(c))
      /\ (first \o second \o third) \o <<escalate>> # <<>>
  BY <1>6, <1>7, ConcatType
<1>9. <<Block>> \in Seq(Ops(c)) /\ <<Block>> # <<>>
  BY BlockIsOp, OneOp
<1> QED
  BY <1>4, <1>5, <1>8, <1>9, HeadOfConcat

\* The first thing a claimed run ends with: an operation of its own, which is
\* the block only where its role cannot escalate.
LEMMA RoutingHead ==
  ASSUME NEW r, NEW o \in Outcome, ~CannotEscalate(r)
  PROVE  Head(Routing(r, ClaimState[r], TRUE, o)) # Block
<1> DEFINE s     == ClaimState[r]
           asked == Requested(r, o)
           code  == PlanTransition(r, asked, s, Evidence(asked, o))
<1> SUFFICES Head(Routing(r, s, TRUE, o)) \in Others(TRUE)
  BY DEF Others
<1>1. CASE o.task = "role_action_error"
  <2>1. Routing(r, s, TRUE, o) = <<Release>>
    BY <1>1 DEF Routing
  <2>2. Release \in Others(TRUE)
    BY DEF Others, Ops, Op, Release, Block
  <2>3. Head(<<Release>>) = Release
    OBVIOUS
  <2> QED
    BY <2>1, <2>2, <2>3, Zenon
<1>2. CASE o.task # "role_action_error" /\ asked = None
  <2>1. Routing(r, s, TRUE, o) = Fallback(r, s, TRUE, o, "no_transition_for_outcome")
    BY <1>2 DEF Routing
  <2> QED
    BY <1>2, <2>1, FallbackHead, EscalationFacts
<1>3. CASE o.task # "role_action_error" /\ asked # None /\ code = "ok"
  <2>1. Routing(r, s, TRUE, o) =
          Override(r, s, TRUE, o) \o (<<asked>> \o Fallback(r, s, TRUE, o, "apply_transition_failed"))
    BY <1>3 DEF Routing
  <2>2. asked \in Others(TRUE)
    <3>1. asked \in Transitions
      BY <1>3, PlannedIsTransition
    <3> HIDE DEF asked
    <3> QED
      BY <3>1, BlockIsOp DEF Others
  <2> DEFINE f == Fallback(r, s, TRUE, o, "apply_transition_failed")
             U == Earned(r, s, TRUE, o) \cup Others(TRUE)
  <2>3. f \in Seq(Earned(r, s, TRUE, o)) /\ f # <<>>
    BY FallbackType
  <2> HIDE DEF asked, f
  <2>4. <<asked>> \in Seq(Others(TRUE)) /\ <<asked>> # <<>>
    BY <2>2, OneOp
  <2>5. Head(<<asked>> \o f) \in Others(TRUE)
    BY <2>3, <2>4, HeadOfConcat
  <2>6. <<asked>> \in Seq(U) /\ f \in Seq(U)
    BY <2>3, <2>4, SeqMono
  <2>7. <<asked>> \o f \in Seq(U) /\ <<asked>> \o f # <<>>
    BY <2>3, <2>6, ConcatType
  <2> QED
    BY <2>1, <2>5, <2>7, OverrideOthers, HeadOfConcat DEF f
<1>4. CASE o.task # "role_action_error" /\ asked # None /\ code # "ok"
  <2>1. Routing(r, s, TRUE, o) = Override(r, s, TRUE, o) \o Fallback(r, s, TRUE, o, code)
    BY <1>4 DEF Routing
  <2>2. asked # Escalation(r)
    <3> SUFFICES ASSUME asked = Escalation(r) PROVE code = "ok"
      BY <1>4
    <3>1. "issue_comment" \in Evidence(asked, o)
      BY EscalationAttested
    <3>2. PlanTransition(r, asked, s, {"issue_comment"}) = "ok"
      BY EscalationFacts
    <3> QED
      BY <3>1, <3>2 DEF PlanTransition
  <2>3. Head(Fallback(r, s, TRUE, o, code)) \in Others(TRUE)
    BY <2>2, FallbackHead
  <2>4. Fallback(r, s, TRUE, o, code) \in Seq(Earned(r, s, TRUE, o)) /\ Fallback(r, s, TRUE, o, code) # <<>>
    BY FallbackType
  <2> QED
    BY <2>1, <2>3, <2>4, OverrideOthers, HeadOfConcat
<1> QED
  BY <1>1, <1>2, <1>3, <1>4

----------------------------------------------------------------------------
(* The hand-off as one step.  As long as nothing disturbs it, the labels   *)
(* and the calls that are left show how far an operation has got, and the  *)
(* issue is in one state, or stranded, while nobody has claimed it.        *)

Engaged(d, j) == Pending(d, j) \/ HasClaimed(j)

\* Where the operations of a claimed job may take the issue.
Ends(j) ==
  {j.home} \cup
  {ToState[t] : t \in {u \in Transitions : RoleOf[u] = j.role /\ RoleState(j) \in FromStates[u]}}

Moving(j, ls) ==
  \E l \in Ends(j) : \/ j.calls = Move(RoleState(j), l) /\ ls = {RoleState(j)}
                     \/ j.calls = Delete(RoleState(j))  /\ ls = {RoleState(j), l}

Stranding(j, ls) ==
  /\ CannotEscalate(j.role)
  /\ \/ j.calls = MarkBlocked /\ ls = {RoleState(j)}
     \/ j.calls \in {BlockTail, LastDrop} /\ ls = {RoleState(j), BlockedLabel}

Shown(j, ls) ==
  /\ j.home \in CanClaim[j.role]
  /\ j.at = "claiming" => ls = {j.home, RoleState(j)}
  /\ j.at \in {"claimed", "starting", "running"} => ls = {RoleState(j)}
  /\ j.at \in {"preflight", "releasing", "routing"} =>
       Moving(j, ls) \/ (j.at = "routing" /\ Stranding(j, ls))

\* A claim that is about to be made is still one that may be made.
Poised(d, j) ==
  /\ Dispatchable({Target(j)}, Enabled[d]) /\ Target(j) \notin Exclude \cup {ClaimLabel}
  /\ j.at = "claiming" => j.role = DispatchRole(j.home)

InOrder(d, j, ls) == (Pending(d, j) => Poised(d, j)) /\ (HasClaimed(j) => Shown(j, ls))

AtRest(ls) ==
  \/ \E s \in States : ls = {s}
  \/ \E r \in Roles : CannotEscalate(r) /\ ls = {ClaimState[r], BlockedLabel}

Orderly ==
  /\ \A d \in Daemons : InOrder(d, job[d], labels)
  /\ \A d, e \in Daemons : Engaged(d, job[d]) /\ Engaged(e, job[e]) => d = e
  /\ (\A d \in Daemons : ~HasClaimed(job[d])) => AtRest(labels)

OrderlyWhenUndisturbed == Undisturbed => Orderly

\* What a step of a daemon may do to the hand-off when j becomes k and the
\* labels ls: nothing, take a claim, go on under it, or end it.
SameClaim(j, k) == k.role = j.role /\ k.home = j.home

Aside(d, j, k, ls) ==
  /\ ~HasClaimed(j) /\ ~HasClaimed(k) /\ InOrder(d, k, ls) /\ ls = labels
  /\ \/ Engaged(d, j) \/ ~Engaged(d, k)
     \/ \A e \in Daemons \ {d} : ~Engaged(e, job[e])
Takes(d, j, k, ls) ==
  /\ j.at = "claiming" /\ Pending(d, j) /\ labels = {j.home}
  /\ HasClaimed(k) /\ Shown(k, ls) /\ SameClaim(j, k)
Works(j, k, ls) ==
  HasClaimed(j) /\ HasClaimed(k) /\ Shown(k, ls) /\ SameClaim(j, k)
Stranded(j, ls) == CannotEscalate(j.role) /\ ls = {RoleState(j), BlockedLabel}
Ended(j, k, ls) ==
  HasClaimed(j) /\ k = NoJob /\ ((\E l \in Ends(j) : ls = {l}) \/ Stranded(j, ls))

QuietStep(d, j, k, ls) ==
  Aside(d, j, k, ls) \/ Takes(d, j, k, ls) \/ Works(j, k, ls) \/ Ended(j, k, ls)

\* A claimed job ends somewhere else than in its claimed state.
LEMMA EndsElsewhere ==
  ASSUME ClaimsAreExclusive, ProperMoves, NEW j, j.role \in Roles, RoleState(j) \in States,
         j.home \in CanClaim[j.role], NEW l \in Ends(j)
  PROVE  l \in States /\ l # RoleState(j)
<1>1. CASE l = j.home
  BY <1>1, RoleGraphAssumption DEF ClaimsAreExclusive, RoleState
<1>2. CASE \E t \in Transitions : RoleState(j) \in FromStates[t] /\ l = ToState[t]
  BY <1>2, RoleGraphAssumption DEF ProperMoves
<1> QED
  BY <1>1, <1>2 DEF Ends

\* Whoever has claimed the issue has its label on it.
LEMMA ShownState ==
  ASSUME NEW j, NEW ls, HasClaimed(j), Shown(j, ls)
  PROVE  RoleState(j) \in ls
  BY DEF HasClaimed, InRole, Shown, Moving, Stranding

\* A daemon that is poised, and nobody has claimed the issue: it is where the
\* daemon goes to pick it up.
LEMMA PoisedPlace ==
  ASSUME Exclusive, Orderly, NEW d \in Daemons, Pending(d, job[d])
  PROVE  /\ labels = {Target(job[d])} /\ OwnState(d, Target(job[d])) /\ Poised(d, job[d])
         /\ \A e \in Daemons : ~HasClaimed(job[e])
<1>1. ~HasClaimed(job[d])
  BY DEF Pending, HasClaimed, InRole
<1>2. \A e \in Daemons : ~HasClaimed(job[e])
  BY <1>1 DEF Orderly, Engaged
<1>3. AtRest(labels)
  BY <1>2 DEF Orderly
<1>4. labels \subseteq {Target(job[d])} /\ OwnState(d, Target(job[d]))
  BY DEF Exclusive, Owned
<1>5. Poised(d, job[d])
  BY DEF Orderly, InOrder
<1>6. labels # {}
  BY <1>3 DEF AtRest
<1> QED
  BY <1>2, <1>4, <1>5, <1>6

\* The fields of a job whose operation goes on.
LEMMA GoesOn ==
  ASSUME NEW j, JobShape(j), CallsShape(j), j.calls # <<>>, Len(j.calls) # 1
  PROVE  /\ Called(j, "ok").at = j.at /\ Called(j, "ok").role = j.role
         /\ Called(j, "ok").home = j.home /\ RoleState(Called(j, "ok")) = RoleState(j)
         /\ Called(j, "ok").calls = Tail(j.calls)
<1>1. Called(j, "ok") = [j EXCEPT !.calls = Tail(@)]
  BY DEF Called
<1> QED
  BY <1>1, TailShape

LEMMA ClaimAdded ==
  ASSUME TypeParts, Exclusive, Orderly, Undisturbed, NEW d \in Daemons,
         job[d].at = "claiming", job[d].calls = Move(job[d].home, RoleState(job[d]))
  PROVE  Takes(d, job[d], Called(job[d], "ok"), LabelsCalled(job[d], "ok"))
<1> DEFINE j == job[d]
           k == Called(j, "ok")
           ls == LabelsCalled(j, "ok")
<1>1. JobShape(j) /\ CallsShape(j)
  BY JobOf
<1>2. j.home \in States /\ RoleState(j) \in States
  BY <1>1 DEF JobShape, InRole
<1>3. /\ Head(j.calls) = Do("add", RoleState(j)) /\ Len(j.calls) = 2
      /\ Tail(j.calls) = Delete(j.home) /\ j.calls # <<>>
  BY <1>2, CallFacts
<1>4. Pending(d, j) /\ Target(j) = j.home
  BY DEF Pending, Target
<1>5. labels = {j.home}
  BY <1>4, PoisedPlace
<1>6. ls = {j.home, RoleState(j)}
  BY <1>3, <1>5 DEF LabelsCalled, Do
<1>7. /\ k.at = "claiming" /\ k.role = j.role /\ k.home = j.home
      /\ RoleState(k) = RoleState(j) /\ k.calls = Delete(j.home)
  <2>1. Len(j.calls) # 1
    BY <1>3
  <2> HIDE DEF j
  <2>2. /\ k.at = j.at /\ k.role = j.role /\ k.home = j.home
        /\ RoleState(k) = RoleState(j) /\ k.calls = Tail(j.calls)
    BY <1>1, <1>3, <2>1, GoesOn, Zenon
  <2> QED
    BY <1>3, <2>2 DEF j
<1>8. j.home \in CanClaim[j.role]
  BY DEF Exclusive, Owned
<1> HIDE DEF k, ls
<1>9. HasClaimed(k)
  BY <1>2, <1>7, CallFacts DEF HasClaimed, InRole
<1>10. Shown(k, ls)
  BY <1>6, <1>7, <1>8 DEF Shown
<1> QED
  BY <1>4, <1>5, <1>7, <1>9, <1>10 DEF Takes, SameClaim, k, ls

LEMMA ClaimMade ==
  ASSUME TypeParts, Orderly, Undisturbed, NEW d \in Daemons,
         job[d].at = "claiming", job[d].calls = Delete(job[d].home)
  PROVE  Works(job[d], Called(job[d], "ok"), LabelsCalled(job[d], "ok"))
<1> DEFINE j == job[d]
           k == Called(j, "ok")
           ls == LabelsCalled(j, "ok")
<1>1. JobShape(j) /\ CallsShape(j) /\ j \in Job
  BY JobOf
<1>2. j.home \in States /\ RoleState(j) \in States /\ j.role \in Roles
  BY <1>1 DEF JobShape, InRole
<1>3. Head(j.calls) = Do("delete", j.home) /\ Len(j.calls) = 1 /\ j.calls # <<>>
  BY <1>2, CallFacts
<1>4. HasClaimed(j)
  BY <1>2, CallFacts DEF HasClaimed, InRole
<1>5. j.home \in CanClaim[j.role] /\ labels = {j.home, RoleState(j)}
  BY <1>4 DEF Orderly, InOrder, Shown
<1>6. j.home # RoleState(j)
  BY <1>2, <1>5 DEF Undisturbed, ClaimsAreExclusive, RoleState
<1>7. ls = {RoleState(j)}
  BY <1>3, <1>5, <1>6 DEF LabelsCalled, Do
<1>8. k = [j EXCEPT !.at = "claimed", !.calls = <<>>]
  BY <1>3 DEF Called, Applied
<1>9. k.at = "claimed" /\ k.role = j.role /\ k.home = j.home
  BY <1>1, <1>8 DEF Job
<1> HIDE DEF k, ls
<1>10. HasClaimed(k) /\ RoleState(k) = RoleState(j)
  BY <1>9 DEF HasClaimed, InRole, RoleState
<1>11. Shown(k, ls)
  BY <1>5, <1>7, <1>9, <1>10 DEF Shown
<1> QED
  BY <1>4, <1>9, <1>10, <1>11 DEF Works, SameClaim, k, ls

\* The calls of a claimed job whose way out is a move.
LEMMA MoveCalled ==
  ASSUME TypeParts, Undisturbed, NEW d \in Daemons,
         HasClaimed(job[d]), job[d].at \in {"preflight", "releasing", "routing"},
         job[d].left = 0, job[d].home \in CanClaim[job[d].role], Moving(job[d], labels)
  PROVE  \/ Works(job[d], Called(job[d], "ok"), LabelsCalled(job[d], "ok"))
         \/ Ended(job[d], Called(job[d], "ok"), LabelsCalled(job[d], "ok"))
<1> DEFINE j == job[d]
           s == RoleState(j)
           k == Called(j, "ok")
           ls == LabelsCalled(j, "ok")
<1>1. JobShape(j) /\ CallsShape(j) /\ j \in Job
  BY JobOf
<1>2. s \in States /\ j.role \in Roles
  BY <1>1 DEF JobShape, InRole
<1>3. PICK l \in Ends(j) : \/ j.calls = Move(s, l) /\ labels = {s}
                           \/ j.calls = Delete(s)  /\ labels = {s, l}
  BY DEF Moving
<1>4. l \in States /\ l # s
  BY <1>2, EndsElsewhere DEF Undisturbed
<1>5. CASE j.calls = Move(s, l) /\ labels = {s}
  <2>1. /\ Head(j.calls) = Do("add", l) /\ Len(j.calls) = 2
        /\ Tail(j.calls) = Delete(s) /\ j.calls # <<>>
    BY <1>2, <1>4, <1>5, CallFacts
  <2>2. ls = {s, l}
    BY <1>5, <2>1 DEF LabelsCalled, Do
  <2>3. k.at = j.at /\ k.role = j.role /\ k.home = j.home /\ RoleState(k) = s /\ k.calls = Delete(s)
    <3>1. Len(j.calls) # 1
      BY <2>1
    <3> HIDE DEF j
    <3>2. k.at = j.at /\ k.role = j.role /\ k.home = j.home /\ RoleState(k) = RoleState(j)
          /\ k.calls = Tail(j.calls)
      BY <1>1, <2>1, <3>1, GoesOn, Zenon
    <3> QED
      BY <2>1, <3>2
  <2>4. l \in Ends(k)
    BY <2>3 DEF Ends
  <2> HIDE DEF k, ls
  <2>5. Moving(k, ls)
    BY <2>2, <2>3, <2>4 DEF Moving
  <2>6. HasClaimed(k) /\ Shown(k, ls)
    BY <2>3, <2>5 DEF HasClaimed, InRole, Shown
  <2> QED
    BY <2>3, <2>6 DEF Works, SameClaim, k, ls
<1>6. CASE j.calls = Delete(s) /\ labels = {s, l}
  <2>1. Head(j.calls) = Do("delete", s) /\ Len(j.calls) = 1 /\ j.calls # <<>>
    BY <1>2, <1>6, CallFacts
  <2>2. ls = {l}
    BY <1>4, <1>6, <2>1 DEF LabelsCalled, Do
  <2>3. k = NoJob
    <3>1. k = Applied(j)
      BY <2>1 DEF Called
    <3> QED
      BY <1>1, <2>1, <3>1, AppliedShape, LeftShape
  <2> QED
    BY <2>2, <2>3 DEF Ended
<1> QED
  BY <1>3, <1>5, <1>6

\* The block takes nothing off the issue that shows where it is.
LEMMA BlockCalled ==
  ASSUME TypeParts, Undisturbed, NEW d \in Daemons,
         HasClaimed(job[d]), job[d].at = "routing", job[d].calls # <<>>,
         job[d].left = 0, job[d].home \in CanClaim[job[d].role], Stranding(job[d], labels)
  PROVE  \/ Works(job[d], Called(job[d], "ok"), LabelsCalled(job[d], "ok"))
         \/ Ended(job[d], Called(job[d], "ok"), LabelsCalled(job[d], "ok"))
<1> DEFINE j == job[d]
           s == RoleState(j)
           k == Called(j, "ok")
           ls == LabelsCalled(j, "ok")
<1>1. JobShape(j) /\ CallsShape(j) /\ j \in Job /\ j.calls # <<>>
  BY JobOf
<1>2. s \in States /\ j.role \in Roles
  BY <1>1 DEF JobShape, InRole
<1>3. CannotEscalate(j.role)
  BY DEF Stranding
<1>4. s \notin {ClaimLabel, ReadyLabel} /\ BlockedLabel \notin {ClaimLabel, ReadyLabel}
  BY <1>2, <1>3 DEF Undisturbed, ProperMoves, ClaimsAreExclusive, RoleState
<1>5. ASSUME k.at = j.at, k.role = j.role, k.home = j.home, RoleState(k) = s,
             k.calls \in {BlockTail, LastDrop}, ls = {s, BlockedLabel}
      PROVE  Works(j, k, ls)
  <2> HIDE DEF k, ls
  <2>1. Stranding(k, ls)
    BY <1>3, <1>5 DEF Stranding
  <2>2. HasClaimed(k) /\ Shown(k, ls)
    BY <1>5, <2>1 DEF HasClaimed, InRole, Shown
  <2> QED
    BY <1>5, <2>2 DEF Works, SameClaim
<1>6. CASE j.calls = MarkBlocked /\ labels = {s}
  <2>1. /\ Head(j.calls) = Do("add", BlockedLabel) /\ Len(j.calls) = 3
        /\ Tail(j.calls) = BlockTail
    BY <1>6, BlockCallFacts
  <2>2. ls = {s, BlockedLabel}
    BY <1>6, <2>1 DEF LabelsCalled, Do
  <2>3. k.at = j.at /\ k.role = j.role /\ k.home = j.home /\ RoleState(k) = s /\ k.calls = BlockTail
    <3>1. Len(j.calls) # 1
      BY <2>1
    <3> HIDE DEF j
    <3>2. k.at = j.at /\ k.role = j.role /\ k.home = j.home /\ RoleState(k) = RoleState(j)
          /\ k.calls = Tail(j.calls)
      BY <1>1, <2>1, <3>1, GoesOn, Zenon
    <3> QED
      BY <2>1, <3>2
  <2> QED
    BY <1>5, <2>2, <2>3
<1>7. CASE j.calls = BlockTail /\ labels = {s, BlockedLabel}
  <2>1. /\ Head(j.calls) = Do("try_delete", ClaimLabel) /\ Len(j.calls) = 2
        /\ Tail(j.calls) = LastDrop
    BY <1>7, BlockCallFacts
  <2>2. ls = {s, BlockedLabel}
    BY <1>4, <1>7, <2>1 DEF LabelsCalled, Do
  <2>3. k.at = j.at /\ k.role = j.role /\ k.home = j.home /\ RoleState(k) = s /\ k.calls = LastDrop
    <3>1. Len(j.calls) # 1
      BY <2>1
    <3> HIDE DEF j
    <3>2. k.at = j.at /\ k.role = j.role /\ k.home = j.home /\ RoleState(k) = RoleState(j)
          /\ k.calls = Tail(j.calls)
      BY <1>1, <2>1, <3>1, GoesOn, Zenon
    <3> QED
      BY <2>1, <3>2
  <2> QED
    BY <1>5, <2>2, <2>3
<1>8. CASE j.calls = LastDrop /\ labels = {s, BlockedLabel}
  <2>1. Head(j.calls) = Do("try_delete", ReadyLabel) /\ Len(j.calls) = 1
    BY <1>8, BlockCallFacts
  <2>2. ls = {s, BlockedLabel}
    BY <1>4, <1>8, <2>1 DEF LabelsCalled, Do
  <2>3. k = NoJob
    <3>1. k = Applied(j)
      BY <2>1 DEF Called
    <3> QED
      BY <1>1, <2>1, <3>1, AppliedShape, LeftShape
  <2> QED
    BY <1>3, <2>2, <2>3 DEF Ended, Stranded
<1> QED
  BY <1>6, <1>7, <1>8 DEF Stranding

\* Every call of a daemon that nothing disturbs.
LEMMA CallStep ==
  ASSUME TypeParts, Exclusive, Orderly, Undisturbed, NEW d \in Daemons, job[d].calls # <<>>
  PROVE  QuietStep(d, job[d], Called(job[d], "ok"), LabelsCalled(job[d], "ok"))
<1> DEFINE j == job[d]
<1>1. JobShape(j) /\ CallsShape(j) /\ j.left = 0
      /\ j.at \in {"claiming", "preflight", "releasing", "routing"}
  BY JobOf, CallerOwns
<1>2. CASE j.at = "claiming"
  <2>1. j.calls \in {Move(j.home, RoleState(j)), Delete(j.home)}
    BY <1>1, <1>2 DEF CallsShape
  <2> QED
    BY <1>2, <2>1, ClaimAdded, ClaimMade DEF QuietStep
<1>3. CASE j.at # "claiming"
  <2>1. HasClaimed(j)
    BY <1>1, <1>3 DEF HasClaimed, InRole
  <2>2. Shown(j, labels)
    BY <2>1 DEF Orderly, InOrder
  <2>3. j.home \in CanClaim[j.role] /\ (Moving(j, labels) \/ (j.at = "routing" /\ Stranding(j, labels)))
    BY <1>1, <1>3, <2>2 DEF Shown
  <2> QED
    BY <1>1, <1>3, <2>1, <2>3, MoveCalled, BlockCalled DEF QuietStep
<1> QED
  BY <1>2, <1>3

----------------------------------------------------------------------------
(* A step of a daemon: to the side of the issue, or one of its work.       *)

LEMMA HeadType ==
  ASSUME NEW S, NEW p \in Seq(S), p # <<>>
  PROVE  Head(p) \in S
  OBVIOUS

\* A daemon at work, between its operations.
LEMMA WorkPlace ==
  ASSUME TypeParts, Orderly, NEW d \in Daemons, job[d].at \in {"claimed", "starting", "running"}
  PROVE  /\ HasClaimed(job[d]) /\ labels = {RoleState(job[d])}
         /\ job[d].home \in CanClaim[job[d].role] /\ job[d].home \in States
         /\ job[d].role \in Roles /\ RoleState(job[d]) \in States /\ job[d] \in Job
<1>1. JobShape(job[d]) /\ job[d] \in Job
  BY JobOf
<1>2. job[d].role \in Roles /\ RoleState(job[d]) \in States
  BY <1>1 DEF JobShape, InRole
<1>3. HasClaimed(job[d])
  BY DEF HasClaimed, InRole
<1>4. Shown(job[d], labels)
  BY <1>3 DEF Orderly, InOrder
<1> QED
  BY <1>1, <1>2, <1>3, <1>4, RoleGraphAssumption DEF Shown

\* An operation a run may end with, begun, shows where it leads.
LEMMA WayOut ==
  ASSUME NEW j, HasClaimed(j), j.home \in CanClaim[j.role],
         NEW op \in Op, NEW k, NEW ls, ls = {RoleState(j)},
         op \in Transitions => RoleOf[op] = j.role /\ RoleState(j) \in FromStates[op],
         op = Block => k.at = "routing" /\ CannotEscalate(j.role),
         k.at \in {"preflight", "releasing", "routing"},
         k.role = j.role, k.home = j.home, k.calls = CallsOf(j, op)
  PROVE  Works(j, k, ls)
<1>1. RoleState(k) = RoleState(j)
  BY DEF RoleState
<1>2. CASE op = Block
  <2>1. k.calls = MarkBlocked
    BY <1>2 DEF CallsOf, Release, Block
  <2> QED
    BY <1>1, <1>2, <2>1 DEF Works, HasClaimed, InRole, Shown, Stranding, SameClaim
<1>3. CASE op # Block
  <2>1. \E l \in Ends(k) : k.calls = Move(RoleState(k), l)
    <3>1. CASE op = Release
      <4>1. k.calls = Move(RoleState(k), k.home)
        BY <1>1, <3>1 DEF CallsOf, Release, Block
      <4>2. k.home \in Ends(k)
        BY DEF Ends
      <4> QED
        BY <4>1, <4>2
    <3>2. CASE op \in Transitions /\ op # Release
      <4>1. k.calls = Move(RoleState(k), ToState[op])
        BY <1>1, <1>3, <3>2 DEF CallsOf
      <4>2. ToState[op] \in Ends(k)
        BY <1>1, <3>2 DEF Ends
      <4> QED
        BY <4>1, <4>2
    <3> QED
      BY <1>3, <3>1, <3>2 DEF Op
  <2>2. Moving(k, ls)
    BY <1>1, <2>1 DEF Moving
  <2> QED
    BY <2>2 DEF Works, HasClaimed, InRole, Shown, SameClaim
<1> QED
  BY <1>2, <1>3

LEMMA FetchAside ==
  ASSUME TypeParts, Exclusive, Orderly, Undisturbed, NEW d \in Daemons, Fetch(d)
  PROVE  \E k : Become(d, k) /\ QuietStep(d, job[d], k, labels')
<1> DEFINE k == [NoJob EXCEPT !.at = "fetched", !.seen = labels]
           s == StateIn(labels)
<1>1. /\ job[d].at = "idle" /\ labels \cap Exclude = {} /\ ClaimLabel \notin labels
      /\ Become(d, k) /\ labels' = labels
  BY DEF Fetch
<1>2. k.at = "fetched" /\ k.seen = labels
  BY DEF NoJob
<1> HIDE DEF k
<1>3. ~HasClaimed(job[d]) /\ ~HasClaimed(k)
  BY <1>1, <1>2 DEF HasClaimed, InRole
<1>4. ASSUME Pending(d, k)
      PROVE  Poised(d, k) /\ \A e \in Daemons \ {d} : ~Engaged(e, job[e])
  <2>1. Dispatchable(labels, Enabled[d]) /\ Target(k) = s
    BY <1>2, <1>4 DEF Pending, Target
  <2>2. labels = {s} /\ OwnState(d, s)
    BY <2>1, DispatchableOwn DEF TypeParts, EnvType
  <2>3. Poised(d, k)
    BY <1>1, <1>2, <2>1, <2>2 DEF Poised
  <2>4. ASSUME NEW e \in Daemons \ {d}, Pending(e, job[e]) PROVE FALSE
    <3>1. OwnState(e, s)
      BY <2>2, <2>4, PoisedPlace
    <3> QED
      BY <2>2, <3>1 DEF OwnState, Undisturbed, RolesAreShared
  <2>5. ASSUME NEW e \in Daemons \ {d}, HasClaimed(job[e]) PROVE FALSE
    <3>1. Shown(job[e], labels)
      BY <2>5 DEF Orderly, InOrder
    <3>2. RoleState(job[e]) = s
      BY <2>2, <2>5, <3>1, ShownState
    <3>3. job[e].role \in Roles
      BY <2>5, JobOf DEF JobShape, HasClaimed
    <3> QED
      BY <2>2, <3>2, <3>3 DEF OwnState, Undisturbed, ClaimsAreExclusive, RoleState
  <2> QED
    BY <2>3, <2>4, <2>5 DEF Engaged
<1>5. Aside(d, job[d], k, labels')
  BY <1>1, <1>3, <1>4 DEF Aside, InOrder, Engaged
<1> QED
  BY <1>1, <1>5 DEF QuietStep

LEMMA PassOverAside ==
  ASSUME NEW d \in Daemons, PassOver(d)
  PROVE  \E k : Become(d, k) /\ QuietStep(d, job[d], k, labels')
<1>1. job[d].at = "fetched" /\ Become(d, NoJob) /\ labels' = labels
  BY DEF PassOver
<1>2. ~HasClaimed(job[d]) /\ ~HasClaimed(NoJob) /\ ~Pending(d, NoJob)
  BY <1>1, NoJobType DEF HasClaimed, InRole, Pending
<1>3. Aside(d, job[d], NoJob, labels')
  BY <1>1, <1>2 DEF Aside, InOrder, Engaged
<1> QED
  BY <1>1, <1>3 DEF QuietStep

LEMMA ClaimAside ==
  ASSUME TypeParts, Orderly, NEW d \in Daemons, Claim(d)
  PROVE  \E k : Become(d, k) /\ QuietStep(d, job[d], k, labels')
<1> DEFINE j == job[d]
           s == StateIn(j.seen)
           r == DispatchRole(s)
           k == [j EXCEPT !.at = "claiming", !.role = r, !.home = s, !.seen = {},
                          !.calls = Move(s, ClaimState[r])]
<1>1. /\ j.at = "fetched" /\ Dispatchable(j.seen, Enabled[d])
      /\ Become(d, k) /\ labels' = labels
  BY DEF Claim
<1>2. k.at = "claiming" /\ k.role = r /\ k.home = s /\ k.calls = Move(s, ClaimState[r])
  BY JobOf DEF Job
<1>3. Pending(d, j) /\ Target(j) = s
  BY <1>1 DEF Pending, Target
<1>4. Poised(d, j)
  BY <1>3 DEF Orderly, InOrder
<1> HIDE DEF k
<1>5. Target(k) = s /\ ~HasClaimed(k) /\ ~HasClaimed(j)
  BY <1>1, <1>2 DEF Target, HasClaimed, InRole, RoleState
<1>6. Poised(d, k)
  BY <1>2, <1>3, <1>4, <1>5 DEF Poised
<1>7. Aside(d, j, k, labels')
  BY <1>1, <1>3, <1>5, <1>6 DEF Aside, InOrder, Engaged
<1> QED
  BY <1>1, <1>7 DEF QuietStep

LEMMA PreflightWorks ==
  ASSUME TypeParts, Orderly, NEW d \in Daemons, Preflight(d)
  PROVE  \E k : Become(d, k) /\ QuietStep(d, job[d], k, labels')
<1> DEFINE j == job[d]
           c == CallsOf(j, "approved")
           k == [j EXCEPT !.at = "preflight", !.calls = c,
                          !.earned = {"pr_link", "pr_approval", "pr_merged"}]
<1>1. /\ j.at = "claimed" /\ Become(d, k) /\ labels' = labels
      /\ PlanTransition(j.role, "approved", RoleState(j), Evidence("approved", Verified)) = "ok"
  BY DEF Preflight
<1>2. /\ HasClaimed(j) /\ labels = {RoleState(j)} /\ j.home \in CanClaim[j.role] /\ j \in Job
  BY <1>1, WorkPlace
<1>3. "approved" \in Transitions /\ RoleOf["approved"] = j.role /\ RoleState(j) \in FromStates["approved"]
  BY <1>1, PlannedIsTransition
<1>4. k.at = "preflight" /\ k.role = j.role /\ k.home = j.home /\ k.calls = c
  BY <1>2 DEF Job
<1>5. "approved" \in Op /\ "approved" # Block
  BY <1>3 DEF Op, Block
<1> HIDE DEF k
<1>6. Works(j, k, labels')
  BY <1>1, <1>2, <1>3, <1>4, <1>5, WayOut
<1> QED
  BY <1>1, <1>6 DEF QuietStep

LEMMA StartWorks ==
  ASSUME TypeParts, Orderly, NEW d \in Daemons, Start(d)
  PROVE  \E k : Become(d, k) /\ QuietStep(d, job[d], k, labels')
<1> DEFINE j == job[d]
           k == [j EXCEPT !.at = "running"]
<1>1. j.at \in {"claimed", "starting"} /\ Become(d, k) /\ labels' = labels
  BY DEF Start
<1>2. /\ HasClaimed(j) /\ labels = {RoleState(j)} /\ j.home \in CanClaim[j.role] /\ j \in Job
  BY <1>1, WorkPlace
<1>3. k.at = "running" /\ k.role = j.role /\ k.home = j.home
  BY <1>2 DEF Job
<1> HIDE DEF k
<1>4. Works(j, k, labels')
  BY <1>1, <1>2, <1>3 DEF Works, HasClaimed, InRole, Shown, SameClaim, RoleState
<1> QED
  BY <1>1, <1>4 DEF QuietStep

LEMMA StartFailsWorks ==
  ASSUME TypeParts, Orderly, NEW d \in Daemons, StartFails(d)
  PROVE  \E k : Become(d, k) /\ QuietStep(d, job[d], k, labels')
<1> DEFINE j == job[d]
           k == [j EXCEPT !.at = "releasing", !.calls = CallsOf(j, Release)]
<1>1. j.at \in {"claimed", "starting"} /\ Become(d, k) /\ labels' = labels
  BY DEF StartFails
<1>2. /\ HasClaimed(j) /\ labels = {RoleState(j)} /\ j.home \in CanClaim[j.role] /\ j \in Job
  BY <1>1, WorkPlace
<1>3. k.at = "releasing" /\ k.role = j.role /\ k.home = j.home /\ k.calls = CallsOf(j, Release)
  BY <1>2 DEF Job
<1>4. Release \in Op /\ Release # Block /\ Release \notin Transitions
  BY BlockIsOp DEF Op, Release, Block
<1> HIDE DEF k
<1>5. Works(j, k, labels')
  BY <1>1, <1>2, <1>3, <1>4, WayOut
<1> QED
  BY <1>1, <1>5 DEF QuietStep

LEMMA FinishWorks ==
  ASSUME TypeParts, Orderly, NEW d \in Daemons, Finish(d)
  PROVE  \E k : Become(d, k) /\ QuietStep(d, job[d], k, labels')
<1> DEFINE j == job[d]
<1>1. j.at = "running" /\ labels' = labels
  BY DEF Finish
<1>0. j.role \in Roles
  BY <1>1, JobOf DEF JobShape, InRole
<1>2. /\ HasClaimed(j) /\ labels = {RoleState(j)} /\ j.home \in CanClaim[j.role] /\ j \in Job
      /\ j.home \in States
  BY <1>1, WorkPlace
<1>3. (j.home # None) = TRUE
  BY <1>2, RoleGraphAssumption
<1>4. PICK o \in Outcomes :
        LET ops == Routing(j.role, RoleState(j), j.home # None, o)
        IN  Become(d, [j EXCEPT !.at = "routing", !.tries = ops,
                                !.calls = CallsOf(j, Head(ops)), !.earned = Proved(o)])
  BY <1>0, <1>2, FinishEnds
<1> DEFINE ops == Routing(j.role, RoleState(j), TRUE, o)
           op == Head(ops)
           c == CallsOf(j, op)
           k == [j EXCEPT !.at = "routing", !.tries = ops, !.calls = c, !.earned = Proved(o)]
<1>5. Become(d, k)
  BY <1>3, <1>4
<1>6. o \in Outcome
  BY DEF Outcomes
<1>7. ops \in Seq(Earned(j.role, RoleState(j), TRUE, o)) /\ ops # <<>>
  BY <1>6, RoutingType
<1>8. op = Block => CannotEscalate(j.role)
  BY <1>6, RoutingHead DEF RoleState
<1> HIDE DEF ops
<1>9. op \in Earned(j.role, RoleState(j), TRUE, o)
  BY <1>7, HeadType, Zenon
<1> HIDE DEF op
<1>10. op \in Op /\ (op \in Transitions => RoleOf[op] = j.role /\ RoleState(j) \in FromStates[op])
  BY <1>9 DEF Earned, Fitting, Ops
<1>11. k.at = "routing" /\ k.role = j.role /\ k.home = j.home /\ k.calls = CallsOf(j, op)
  BY <1>2 DEF Job
<1> HIDE DEF k
<1>12. Works(j, k, labels')
  BY <1>1, <1>2, <1>8, <1>10, <1>11, WayOut
<1> QED
  BY <1>5, <1>12 DEF QuietStep

\* Whatever a daemon does: it stays aside, takes a claim, works under it or ends it.
LEMMA DaemonStep ==
  ASSUME Inductive, Orderly, Undisturbed, NEW d \in Daemons, Daemon(d)
  PROVE  \E k : Become(d, k) /\ QuietStep(d, job[d], k, labels')
<1>1. TypeParts /\ Exclusive
  BY DEF Inductive, OwnedOnce, Undisturbed, Calm
<1>2. CASE CallGitHub(d)
  <2>1. job[d].calls # <<>>
    BY <1>2 DEF CallGitHub
  <2>2. PICK answer \in {"ok"} \cup faults :
          labels' = LabelsCalled(job[d], answer) /\ Become(d, Called(job[d], answer))
    BY <1>2 DEF CallGitHub, Called, LabelsCalled
  <2>3. answer = "ok"
    BY DEF Undisturbed
  <2> QED
    BY <1>1, <2>1, <2>2, <2>3, CallStep
<1>3. CASE Restart(d) \/ Recovery(d)
  <2>1. job[d].at \in {"down", "recovering"}
    BY <1>3 DEF Restart, Recovery, RecoverIneligible, RecoverSkips, RecoverFailsClosed,
                RecoverHandsOver, RestoreFails, Resume, Recovers
  <2> QED
    BY <1>1, <2>1 DEF Exclusive, Owned
<1> QED
  BY <1>1, <1>2, <1>3, FetchAside, PassOverAside, ClaimAside, PreflightWorks, StartWorks,
     StartFailsWorks, FinishWorks DEF Daemon

----------------------------------------------------------------------------
(* The order is kept by every step of a daemon and of the human.           *)

\* A step of a daemon keeps the order.
LEMMA QuietStepKeeps ==
  ASSUME TypeParts, Orderly, Undisturbed, NEW d \in Daemons, NEW k,
         job'[d] = k, \A e \in Daemons \ {d} : job'[e] = job[e],
         QuietStep(d, job[d], k, labels')
  PROVE  Orderly'
<1> DEFINE j == job[d]
<1>1. /\ \A e \in Daemons : InOrder(e, job[e], labels)
      /\ \A e \in Daemons : Engaged(d, j) /\ Engaged(e, job[e]) => d = e
      /\ \A e, f \in Daemons : Engaged(e, job[e]) /\ Engaged(f, job[f]) => e = f
  BY DEF Orderly
<1>2. CASE /\ \A e \in Daemons \ {d} : ~Engaged(e, job[e])
           /\ InOrder(d, k, labels') /\ (HasClaimed(k) \/ AtRest(labels'))
  <2>1. \A e \in Daemons \ {d} : InOrder(e, job[e], labels')
    BY <1>2 DEF InOrder, Engaged
  <2>2. \A e \in Daemons : InOrder(e, job'[e], labels')
    BY <1>2, <2>1
  <2>3. \A e, f \in Daemons : Engaged(e, job'[e]) /\ Engaged(f, job'[f]) => e = f
    BY <1>2
  <2>4. (\A e \in Daemons : ~HasClaimed(job'[e])) => AtRest(labels')
    BY <1>2
  <2> QED
    BY <2>2, <2>3, <2>4 DEF Orderly
<1>3. ASSUME HasClaimed(k) PROVE ~Pending(d, k)
  BY <1>3 DEF HasClaimed, Pending, InRole
<1>4. CASE Aside(d, j, k, labels')
  <2>1. CASE Engaged(d, j) \/ \A e \in Daemons \ {d} : ~Engaged(e, job[e])
    <3>1. \A e \in Daemons \ {d} : ~Engaged(e, job[e])
      BY <1>1, <2>1
    <3>2. \A e \in Daemons : ~HasClaimed(job[e])
      BY <1>4, <3>1 DEF Aside, Engaged
    <3>3. AtRest(labels')
      BY <1>4, <3>2 DEF Aside, Orderly
    <3> QED
      BY <1>2, <1>4, <3>1, <3>3 DEF Aside
  <2>2. CASE ~Engaged(d, j) /\ ~Engaged(d, k)
    <3>1. labels' = labels /\ InOrder(d, k, labels') /\ ~HasClaimed(j) /\ ~HasClaimed(k)
      BY <1>4 DEF Aside
    <3>2. \A e \in Daemons : InOrder(e, job'[e], labels')
      BY <1>1, <3>1
    <3>3. \A e, f \in Daemons : Engaged(e, job'[e]) /\ Engaged(f, job'[f]) => e = f
      BY <1>1, <2>2
    <3>4. (\A e \in Daemons : ~HasClaimed(job'[e])) => AtRest(labels')
      BY <3>1 DEF Orderly
    <3> QED
      BY <3>2, <3>3, <3>4 DEF Orderly
  <2> QED
    BY <1>4, <2>1, <2>2 DEF Aside
<1>5. CASE Takes(d, j, k, labels') \/ Works(j, k, labels')
  <2>1. Engaged(d, j) /\ HasClaimed(k) /\ Shown(k, labels')
    BY <1>5 DEF Takes, Works, Engaged
  <2> QED
    BY <1>1, <1>2, <1>3, <2>1 DEF InOrder
<1>6. CASE Ended(j, k, labels')
  <2>1. Engaged(d, j) /\ k = NoJob /\ HasClaimed(j)
    BY <1>6 DEF Ended, Engaged
  <2>2. InOrder(d, k, labels')
    BY <2>1, NoJobType DEF InOrder, Pending, HasClaimed, InRole
  <2>3. j.role \in Roles /\ RoleState(j) \in States /\ j.home \in CanClaim[j.role]
    <3>1. JobShape(j)
      BY JobOf
    <3>2. Shown(j, labels)
      BY <1>1, <2>1 DEF InOrder
    <3> QED
      BY <2>1, <3>1, <3>2 DEF JobShape, HasClaimed, Shown
  <2>4. AtRest(labels')
    <3>1. CASE \E l \in Ends(j) : labels' = {l}
      BY <2>3, <3>1, EndsElsewhere DEF AtRest, Undisturbed
    <3>2. CASE Stranded(j, labels')
      BY <2>3, <3>2 DEF Stranded, AtRest, RoleState
    <3> QED
      BY <1>6, <3>1, <3>2 DEF Ended
  <2> QED
    BY <1>1, <1>2, <2>1, <2>2, <2>4
<1> QED
  BY <1>4, <1>5, <1>6 DEF QuietStep

\* The human moves an issue only when nobody has it or is about to claim it.
LEMMA HumanMovesAlone ==
  ASSUME TypeParts, Exclusive, Orderly, Undisturbed, HumanMoves
  PROVE  \A e \in Daemons : ~Engaged(e, job[e])
<1>1. PICK t \in Transitions :
        /\ Actor[RoleOf[t]] = "human" /\ Resolves(labels)
        /\ StateIn(labels) \in CanClaim[RoleOf[t]]
  BY DEF HumanMoves
<1> DEFINE s == StateIn(labels)
<1>2. labels = {s} /\ RoleOf[t] \in Roles
  BY <1>1, OneLabel, StatesAreFinite, RoleGraphAssumption DEF TypeParts, EnvType
<1>3. ASSUME NEW e \in Daemons, Pending(e, job[e]) PROVE FALSE
  <2>1. OwnState(e, s)
    BY <1>2, <1>3, PoisedPlace
  <2> QED
    BY <1>1, <1>2, <2>1 DEF OwnState, Undisturbed, ClaimsAreExclusive
<1>4. ASSUME NEW e \in Daemons, HasClaimed(job[e]) PROVE FALSE
  <2>1. Shown(job[e], labels)
    BY <1>4 DEF Orderly, InOrder
  <2>2. RoleState(job[e]) = s
    BY <1>2, <1>4, <2>1, ShownState
  <2>3. job[e].role \in Roles
    BY <1>4, JobOf DEF JobShape, HasClaimed
  <2> QED
    BY <1>1, <1>2, <2>2, <2>3 DEF Undisturbed, ClaimsAreExclusive, RoleState
<1> QED
  BY <1>3, <1>4 DEF Engaged

LEMMA HumanMovesKeepsOrder ==
  ASSUME TypeParts, Exclusive, Orderly, Undisturbed, HumanMoves
  PROVE  Orderly'
<1>1. \A e \in Daemons : ~Engaged(e, job[e])
  BY HumanMovesAlone
<1>2. job' = job /\ \E t \in Transitions : labels' = {ToState[t]}
  BY DEF HumanMoves
<1>3. AtRest(labels')
  BY <1>2, RoleGraphAssumption DEF AtRest
<1>4. \A e \in Daemons : InOrder(e, job'[e], labels')
  BY <1>1, <1>2 DEF InOrder, Engaged
<1> QED
  BY <1>1, <1>2, <1>3, <1>4 DEF Orderly

\* What is disturbed stays disturbed.
LEMMA DisturbanceStays ==
  ASSUME Inductive, [Next]_vars, Undisturbed'
  PROVE  /\ Undisturbed
         /\ (\E d \in Daemons : Daemon(d)) \/ HumanMoves \/ UNCHANGED vars
<1>1. crashes \in Nat
  BY RoleHandoffAssumption DEF Inductive, TypeParts, EnvType
<1>2. \A d \in Daemons : ~Crash(d)
  BY <1>1 DEF Crash, Undisturbed
<1>3. (\E d \in Daemons : Daemon(d)) \/ HumanMoves \/ UNCHANGED vars
  BY <1>2 DEF Next
<1>4. UNCHANGED <<faults, crashes>>
  BY <1>3 DEF Daemon, Fetch, PassOver, Claim, Preflight, Start, StartFails, Finish, Restart,
        CallGitHub, Recovery, RecoverIneligible, RecoverSkips, RecoverFailsClosed,
        RecoverHandsOver, RestoreFails, Resume, Settle, HumanMoves, vars
<1>5. Undisturbed
  BY <1>4 DEF Undisturbed, RolesAreShared, ClaimsAreExclusive, ProperMoves
<1> QED
  BY <1>3, <1>5

LEMMA NextKeepsOrder ==
  ASSUME Inductive, OrderlyWhenUndisturbed, [Next]_vars
  PROVE  OrderlyWhenUndisturbed'
<1> SUFFICES ASSUME Undisturbed' PROVE Orderly'
  BY DEF OrderlyWhenUndisturbed
<1>1. Undisturbed /\ Orderly /\ TypeParts /\ Exclusive
  BY DisturbanceStays DEF OrderlyWhenUndisturbed, Inductive, OwnedOnce, Undisturbed, Calm
<1>2. CASE \E d \in Daemons : Daemon(d)
  <2>1. PICK d \in Daemons : Daemon(d)
    BY <1>2
  <2>2. PICK k : Become(d, k) /\ QuietStep(d, job[d], k, labels')
    BY <1>1, <2>1, DaemonStep
  <2>3. job'[d] = k /\ \A e \in Daemons \ {d} : job'[e] = job[e]
    BY <1>1, <2>2 DEF Become, TypeParts
  <2> QED
    BY <1>1, <2>2, <2>3, QuietStepKeeps
<1>3. CASE HumanMoves
  BY <1>1, <1>3, HumanMovesKeepsOrder
<1>4. CASE UNCHANGED vars
  <2>1. job' = job /\ labels' = labels
    BY <1>4 DEF vars
  <2> QED
    BY <1>1, <2>1 DEF Orderly
<1> QED
  BY <1>2, <1>3, <1>4, DisturbanceStays

LEMMA InitOrderly == Init => Orderly
<1> SUFFICES ASSUME Init PROVE Orderly
  OBVIOUS
<1>1. \A d \in Daemons : job[d] = NoJob
  BY DEF Init
<1>2. \A d : ~Pending(d, NoJob)
  BY NoJobType DEF Pending
<1>3. ~HasClaimed(NoJob)
  BY NoJobType DEF HasClaimed, InRole
<1>4. AtRest(labels)
  BY RoleHandoffAssumption DEF Init, AtRest
<1> QED
  BY <1>1, <1>2, <1>3, <1>4 DEF Orderly, InOrder, Engaged

\* As long as nothing disturbs the hand-off, the labels tell how far whoever has
\* claimed the issue has got with it, and nobody else is after it.
THEOREM HandoffInOrder == Spec => []OrderlyWhenUndisturbed
<1>1. Init => OrderlyWhenUndisturbed
  BY InitOrderly DEF OrderlyWhenUndisturbed
<1>2. Inductive /\ OrderlyWhenUndisturbed /\ [Next]_vars => OrderlyWhenUndisturbed'
  BY NextKeepsOrder
<1> QED
  BY <1>1, <1>2, RoleInductive, PTL DEF Spec

\* In every role graph with exclusive claims and proper moves, an issue that
\* nobody is busy with is in one state, or stranded beside the blocked gate by a
\* role that cannot escalate, however many daemons and calls had it before.
THEOREM IdleIssueHasAStateCorrect == Spec => []IdleIssueHasAState
<1>1. ASSUME OrderlyWhenUndisturbed PROVE IdleIssueHasAState
  <2> SUFFICES ASSUME Undisturbed, \A d \in Daemons : job[d].at = "idle"
               PROVE  \/ Resolves(labels)
                      \/ \E r \in Roles : CannotEscalate(r) /\ labels = {ClaimState[r], BlockedLabel}
    BY DEF IdleIssueHasAState
  <2>1. \A d \in Daemons : ~HasClaimed(job[d])
    BY DEF HasClaimed, InRole
  <2>2. AtRest(labels)
    BY <1>1, <2>1 DEF OrderlyWhenUndisturbed, Orderly
  <2>3. ASSUME NEW s, labels = {s} PROVE Resolves(labels)
    BY <2>3, FS_Singleton DEF Resolves
  <2> QED
    BY <2>2, <2>3 DEF AtRest
<1> QED
  BY <1>1, HandoffInOrder, PTL

----------------------------------------------------------------------------
(* The daemons implement IssueHandoff.                                     *)

\* The role graph is the same in both specifications.
LEMMA SameGraph ==
  /\ \A ls, en : Handoff!Dispatchable(ls, en) <=> Dispatchable(ls, en)
  /\ \A ls : (Handoff!Resolves(ls) <=> Resolves(ls)) /\ Handoff!StateIn(ls) = StateIn(ls)
  /\ \A s : Handoff!DispatchRole(s) = DispatchRole(s)
  /\ \A r : Handoff!CannotEscalate(r) <=> CannotEscalate(r)
<1>1. \A ls : Handoff!Resolves(ls) <=> Resolves(ls)
  BY Zenon DEF Handoff!Resolves, Resolves, Handoff!Cardinality, Cardinality
<1>2. \A ls : Handoff!StateIn(ls) = StateIn(ls)
  BY Zenon DEF Handoff!StateIn, StateIn
<1>3. \A s : Handoff!DispatchRole(s) = DispatchRole(s)
  BY Zenon DEF Handoff!DispatchRole, DispatchRole, Handoff!Claimants, Claimants
<1>4. \A r : Handoff!ByAgent(r) <=> ByAgent(r)
  BY Zenon DEF Handoff!ByAgent, ByAgent
<1>5. \A ls, en : Handoff!Dispatchable(ls, en) <=> Dispatchable(ls, en)
  BY <1>1, <1>2, <1>3, <1>4, Zenon DEF Handoff!Dispatchable, Dispatchable
<1>6. \A r, names : Handoff!FirstTransition(r, names) = FirstTransition(r, names)
  BY Zenon DEF Handoff!FirstTransition, FirstTransition
<1>7. \A r, t, s, e : Handoff!PlanTransition(r, t, s, e) = PlanTransition(r, t, s, e)
  BY Zenon DEF Handoff!PlanTransition, PlanTransition
<1>8. \A r : Handoff!CannotEscalate(r) <=> CannotEscalate(r)
  BY <1>6, <1>7, Zenon DEF Handoff!CannotEscalate, CannotEscalate
<1> QED
  BY <1>1, <1>2, <1>3, <1>5, <1>8

ClaimOf(d) == [by |-> d, role |-> job[d].role, from |-> job[d].home]

\* What the issue shows while a daemon has claimed it, and while nobody has.
LEMMA PlaceOfHolder ==
  ASSUME Undisturbed, Orderly, NEW d \in Daemons, HasClaimed(job[d])
  PROVE  Place = {RoleState(job[d])} /\ Claims = {ClaimOf(d)}
<1>1. Holders = {d}
  BY DEF Holders, Orderly, Engaged
<1> QED
  BY <1>1 DEF Place, Claims, ClaimOf

Unclaimed == \A d \in Daemons : ~HasClaimed(job[d])

LEMMA PlaceOfNobody ==
  ASSUME Undisturbed, Unclaimed
  PROVE  Place = labels /\ Claims = {}
<1>1. Holders = {}
  BY DEF Holders, Unclaimed
<1> QED
  BY <1>1 DEF Place, Claims

LEMMA HandoffInit == Init => Handoff!Init
<1> SUFFICES ASSUME Init PROVE Handoff!Init
  OBVIOUS
<1>1. ~HasClaimed(NoJob)
  BY NoJobType DEF HasClaimed, InRole
<1>2. CASE Undisturbed
  <2>1. Place = labels /\ Claims = {}
    BY <1>1, <1>2, PlaceOfNobody DEF Init, Unclaimed
  <2> QED
    BY <2>1 DEF Init, Handoff!Init
<1>3. CASE ~Undisturbed
  BY <1>3 DEF Place, Claims, Handoff!Init
<1> QED
  BY <1>2, <1>3

LEMMA TakeStep ==
  ASSUME TypeParts, Exclusive, Orderly, Undisturbed, Orderly', Undisturbed',
         NEW d \in Daemons, Takes(d, job[d], job'[d], labels')
  PROVE  Handoff!Take(d)
<1> DEFINE j == job[d]
           k == job'[d]
           s == j.home
<1>1. /\ labels = {s} /\ Poised(d, j) /\ Target(j) = s
      /\ \A e \in Daemons : ~HasClaimed(job[e])
  BY PoisedPlace DEF Takes, Target
<1>2. Place = {s} /\ Claims = {}
  BY <1>1, PlaceOfNobody DEF Unclaimed
<1>3. StateIn({s}) = s
  BY DEF StateIn
<1>4. Dispatchable({s}, Enabled[d]) /\ s \notin Exclude \cup {ClaimLabel} /\ j.role = DispatchRole(s)
  BY <1>1 DEF Poised, Takes
<1>5. k.role = j.role /\ k.home = s /\ HasClaimed(k)
  BY DEF Takes, SameClaim
<1>6. Place' = {ClaimState[j.role]} /\ Claims' = {[by |-> d, role |-> j.role, from |-> s]}
  <2>1. Place' = {RoleState(k)} /\ Claims' = {ClaimOf(d)'}
    <3>1. (Undisturbed /\ Orderly /\ HasClaimed(job[d]) => Place = {RoleState(job[d])} /\ Claims = {ClaimOf(d)})'
      BY PlaceOfHolder, PTL
    <3> QED
      BY <1>5, <3>1
  <2> QED
    BY <1>5, <2>1 DEF RoleState, ClaimOf
<1> QED
  BY <1>2, <1>3, <1>4, <1>6, SameGraph DEF Handoff!Take

\* Under a claim that goes on nothing is seen of the calls.
LEMMA WorkStep ==
  ASSUME Orderly, Undisturbed, Orderly', Undisturbed',
         NEW d \in Daemons, Works(job[d], job'[d], labels')
  PROVE  UNCHANGED <<Place, Claims>>
<1>1. HasClaimed(job[d]) /\ HasClaimed(job'[d]) /\ SameClaim(job[d], job'[d])
  BY DEF Works
<1>2. Place = {RoleState(job[d])} /\ Claims = {ClaimOf(d)}
  BY <1>1, PlaceOfHolder
<1>3. Place' = {RoleState(job'[d])} /\ Claims' = {ClaimOf(d)'}
  <2>1. (Undisturbed /\ Orderly /\ HasClaimed(job[d]) => Place = {RoleState(job[d])} /\ Claims = {ClaimOf(d)})'
    BY PlaceOfHolder, PTL
  <2> QED
    BY <1>1, <2>1
<1> QED
  BY <1>1, <1>2, <1>3 DEF RoleState, ClaimOf, SameClaim

LEMMA EndStep ==
  ASSUME TypeParts, Orderly, Undisturbed, Undisturbed',
         NEW d \in Daemons, \A e \in Daemons \ {d} : job'[e] = job[e],
         Ended(job[d], job'[d], labels')
  PROVE  Handoff!GiveBack \/ Handoff!HandOn \/ Handoff!Strand
<1> DEFINE j == job[d]
           c == ClaimOf(d)
<1>1. HasClaimed(j) /\ job'[d] = NoJob
  BY DEF Ended
<1>2. Claims = {c} /\ c.role = j.role /\ c.from = j.home
  BY <1>1, PlaceOfHolder DEF ClaimOf
<1>3. Place' = labels' /\ Claims' = {}
  <2>1. ~HasClaimed(NoJob)
    BY NoJobType DEF HasClaimed, InRole
  <2>2. \A e \in Daemons \ {d} : ~HasClaimed(job[e])
    BY <1>1 DEF Orderly, Engaged
  <2>3. \A e \in Daemons : ~HasClaimed(job'[e])
    BY <1>1, <2>1, <2>2
  <2>4. (Undisturbed /\ Unclaimed => Place = labels /\ Claims = {})'
    BY PlaceOfNobody, PTL
  <2> QED
    BY <2>3, <2>4 DEF Unclaimed
<1> HIDE DEF c
<1>4. CASE labels' = {j.home}
  BY <1>2, <1>3, <1>4 DEF Handoff!GiveBack
<1>5. CASE \E t \in Transitions : /\ RoleOf[t] = j.role /\ RoleState(j) \in FromStates[t]
                                  /\ labels' = {ToState[t]}
  BY <1>2, <1>3, <1>5 DEF Handoff!HandOn, RoleState
<1>6. CASE Stranded(j, labels')
  BY <1>2, <1>3, <1>6, SameGraph DEF Handoff!Strand, Stranded, RoleState
<1> QED
  BY <1>4, <1>5, <1>6 DEF Ended, Ends

\* A daemon that stays aside changes nothing of the hand-off.
LEMMA AsideStep ==
  ASSUME TypeParts, Orderly, Undisturbed, Orderly', Undisturbed',
         NEW d \in Daemons, \A e \in Daemons \ {d} : job'[e] = job[e],
         Aside(d, job[d], job'[d], labels')
  PROVE  UNCHANGED <<Place, Claims>>
<1>1. ~HasClaimed(job[d]) /\ ~HasClaimed(job'[d]) /\ labels' = labels
  BY DEF Aside
<1>2. Holders' = Holders /\ \A e \in Holders : job'[e] = job[e] /\ e \in Daemons
  BY <1>1 DEF Holders
<1>3. Place' = Place
  BY <1>1, <1>2 DEF Place, RoleState
<1>4. Claims' = Claims
  BY <1>2 DEF Claims
<1> QED
  BY <1>3, <1>4

LEMMA HumanStep ==
  ASSUME TypeParts, Exclusive, Orderly, Undisturbed, Undisturbed', HumanMoves
  PROVE  Handoff!HumanMoves
<1>1. \A e \in Daemons : ~HasClaimed(job[e])
  BY HumanMovesAlone DEF Engaged
<1>2. job' = job
  BY DEF HumanMoves
<1>3. Place = labels /\ Claims = {}
  BY <1>1, PlaceOfNobody DEF Unclaimed
<1>4. Place' = labels' /\ Claims' = {}
  <2>1. (Undisturbed /\ Unclaimed => Place = labels /\ Claims = {})'
    BY PlaceOfNobody, PTL
  <2> QED
    BY <1>1, <1>2, <2>1 DEF Unclaimed
<1> QED
  BY <1>3, <1>4, SameGraph DEF HumanMoves, Handoff!HumanMoves

LEMMA HandoffStep ==
  ASSUME Inductive, OrderlyWhenUndisturbed, [Next]_vars
  PROVE  Handoff!Next \/ UNCHANGED <<Place, Claims>>
<1>1. CASE ~Undisturbed'
  <2>1. Place' = {} /\ Claims' = {}
    BY <1>1 DEF Place, Claims
  <2> QED
    BY <2>1 DEF Handoff!Next, Handoff!Disturb
<1>2. CASE Undisturbed'
  <2>1. Undisturbed /\ Orderly /\ TypeParts /\ Exclusive /\ Orderly'
    BY <1>2, DisturbanceStays, NextKeepsOrder
       DEF OrderlyWhenUndisturbed, Inductive, OwnedOnce, Undisturbed, Calm
  <2>2. ASSUME NEW d \in Daemons, Daemon(d)
        PROVE  Handoff!Next \/ UNCHANGED <<Place, Claims>>
    <3>1. PICK k : Become(d, k) /\ QuietStep(d, job[d], k, labels')
      BY <2>1, <2>2, DaemonStep
    <3>2. job'[d] = k /\ \A e \in Daemons \ {d} : job'[e] = job[e]
      BY <2>1, <3>1 DEF Become, TypeParts
    <3>3. CASE Aside(d, job[d], k, labels')
      BY <1>2, <2>1, <3>2, <3>3, AsideStep
    <3>4. CASE Takes(d, job[d], k, labels')
      BY <1>2, <2>1, <3>2, <3>4, TakeStep DEF Handoff!Next
    <3>5. CASE Works(job[d], k, labels')
      BY <1>2, <2>1, <3>2, <3>5, WorkStep
    <3>6. CASE Ended(job[d], k, labels')
      BY <1>2, <2>1, <3>2, <3>6, EndStep DEF Handoff!Next
    <3> QED
      BY <3>1, <3>3, <3>4, <3>5, <3>6 DEF QuietStep
  <2>3. CASE HumanMoves
    BY <1>2, <2>1, <2>3, HumanStep DEF Handoff!Next
  <2>4. CASE UNCHANGED vars
    <3>1. UNCHANGED <<labels, job, faults, crashes>>
      BY <2>4 DEF vars
    <3>2. Holders' = Holders
      BY <3>1 DEF Holders
    <3>3. UNCHANGED Place
      BY <1>2, <2>1, <3>1, <3>2 DEF Place
    <3>4. UNCHANGED Claims
      BY <1>2, <2>1, <3>1, <3>2 DEF Claims
    <3> QED
      BY <3>3, <3>4
  <2> QED
    BY <1>2, <2>2, <2>3, <2>4, DisturbanceStays
<1> QED
  BY <1>1, <1>2

\* For every role graph with exclusive claims and proper moves, every number of
\* daemons that share its roles and every interleaving of their calls, a hand-off
\* is one step of IssueHandoff, until a call fails or a daemon crashes.
THEOREM HandoffCorrect == Spec => ImplementsHandoff
<1>1. Inductive /\ OrderlyWhenUndisturbed /\ [Next]_vars => Handoff!Next \/ UNCHANGED <<Place, Claims>>
  BY HandoffStep
<1> QED
  BY <1>1, HandoffInit, RoleInductive, HandoffInOrder, PTL
     DEF Spec, ImplementsHandoff, Handoff!Spec
=============================================================================
