------------------------------ MODULE DaemonMC ------------------------------
(* Values of the constants of Daemon for TLC.                               *)
EXTENDS Daemon

NoLanes  == {}
InNoLane == [i \in Issues |-> NoLane]
NoLimits == [l \in {} |-> 1]
NoFatal  == {}
Settled  == {Blocked, Done}
=============================================================================
