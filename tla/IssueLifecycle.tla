--------------------------- MODULE IssueLifecycle ---------------------------
(***************************************************************************)
(* What the daemon promises about one repository's issues, whatever fails: *)
(* an issue is worked on by one worker at a time, under a claim, by no     *)
(* more than Limit workers; and a claim that was lost (a label nobody      *)
(* could take back, a process that died) is never worked under again.      *)
(* Orchestrator implements this specification.                             *)
(***************************************************************************)
EXTENDS Integers, FiniteSets

CONSTANTS Issues, Limit

VARIABLE status

Status == {"free", "claimed", "working", "lost"}

Occupied == {i \in Issues : status[i] \in {"claimed", "working"}}

Init == status = [i \in Issues |-> "free"]

\* Claims are taken one at a time, and only while a worker may be added.
Claim(i) ==
  /\ status[i] = "free"
  /\ \A j \in Issues : status[j] # "claimed"
  /\ Cardinality(Occupied) < Limit
  /\ status' = [status EXCEPT ![i] = "claimed"]

Work(i) ==
  /\ status[i] = "claimed"
  /\ status' = [status EXCEPT ![i] = "working"]

Release(i) ==
  /\ i \in Occupied
  /\ status' = [status EXCEPT ![i] = "free"]

\* The label was set or not taken back, and nobody holds it.
Lose(i) ==
  /\ status[i] # "lost"
  /\ status' = [status EXCEPT ![i] = "lost"]

\* The process ends with whatever it holds.
Die == status' = [i \in Issues |-> IF i \in Occupied THEN "lost" ELSE status[i]]

Next ==
  \/ \E i \in Issues : Claim(i) \/ Work(i) \/ Release(i) \/ Lose(i)
  \/ Die

Spec == Init /\ [][Next]_status
=============================================================================
