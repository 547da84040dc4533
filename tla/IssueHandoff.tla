---------------------------- MODULE IssueHandoff ----------------------------
(***************************************************************************)
(* What the daemons and the human promise about an issue of a role         *)
(* workflow as long as nothing disturbs them: the issue is in one state,   *)
(* under one claim at most; a claim takes it from where a role of the      *)
(* daemon may pick it up, and whoever has claimed it gives it back or      *)
(* hands it on by a transition of that role, in one step.  RoleHandoff     *)
(* implements this specification by several calls to GitHub each.          *)
(***************************************************************************)
EXTENDS RoleGraph

CONSTANTS Daemons, Enabled, Exclude, FirstState

VARIABLES
  place,   \* the state of the issue; {} where nothing is promised
  claims   \* who works on it, in which role, and where it was picked up

Init == place \in {{FirstState}, {}} /\ claims = {}

\* The claim label is that of a claimed state, so nobody looks for work there.
Take(d) ==
  /\ claims = {} /\ place \cap (Exclude \cup {ClaimLabel}) = {}
  /\ Dispatchable(place, Enabled[d])
  /\ LET s == StateIn(place)
         r == DispatchRole(s)
     IN  /\ claims' = {[by |-> d, role |-> r, from |-> s]}
         /\ place' = {ClaimState[r]}

GiveBack ==
  \E c \in claims : place' = {c.from} /\ claims' = {}

HandOn ==
  \E c \in claims, t \in Transitions :
    /\ RoleOf[t] = c.role /\ ClaimState[c.role] \in FromStates[t]
    /\ place' = {ToState[t]} /\ claims' = {}

\* A role that cannot escalate leaves the issue where it is, beside the gate.
Strand ==
  \E c \in claims :
    /\ CannotEscalate(c.role)
    /\ place' = {ClaimState[c.role], BlockedLabel} /\ claims' = {}

HumanMoves ==
  /\ claims = {} /\ Resolves(place)
  /\ \E t \in Transitions :
       /\ Actor[RoleOf[t]] = "human" /\ StateIn(place) \in CanClaim[RoleOf[t]]
       /\ place' = {ToState[t]}
  /\ UNCHANGED claims

\* A call fails or a daemon crashes: nothing is promised any more.
Disturb == place' = {} /\ claims' = {}

Next ==
  \/ Disturb
  \/ \E d \in Daemons : Take(d)
  \/ GiveBack \/ HandOn \/ Strand \/ HumanMoves

Spec == Init /\ [][Next]_<<place, claims>>
=============================================================================
