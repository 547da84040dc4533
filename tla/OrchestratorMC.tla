--------------------------- MODULE OrchestratorMC ---------------------------
(* Values of the constants of Orchestrator for TLC.                         *)
EXTENDS Orchestrator, TLC

\* No lanes configured.
NoLanes   == {}
InNoLane  == [i \in Issues |-> NoLane]
NoLimits  == [l \in {} |-> 1]

\* Two lanes of one worker each; the first takes every issue but one.
TwoLanes  == {"leader", "developer"}
OneOdd    == CHOOSE i \in Issues : TRUE
InLanes   == [i \in Issues |-> IF i = OneOdd THEN "leader" ELSE "developer"]
OneEach   == [l \in TwoLanes |-> 1]

AllFatal  == FatalEvent
NoFatal   == {}
FetchOnly == {"fetch"}
Settled   == {Blocked, Done}

Symmetry  == Permutations(Issues)
=============================================================================
