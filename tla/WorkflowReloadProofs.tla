------------------------ MODULE WorkflowReloadProofs ------------------------
(***************************************************************************)
(* Theorems about the workflow reload, for all contents, any number of     *)
(* edits and any number of restarts.                                       *)
(***************************************************************************)
EXTENDS WorkflowReload, SequenceTheorems, TLAPS

\* What start-up has read could be loaded.
LoadedIsValid == pc = "loaded" => loaded.valid

\* A tick that goes on to dispatch has seen the metadata of its snapshot.
SeenIfUnpaused == pc = "ticking" /\ ~paused => observed = snapshot.stamp

\* A tick that reads the file has found it there before.
SeenBeforeRead == pc = "reload" => observed > 0

\* The snapshot of a reload is what one of the writes left that came with the
\* metadata of the snapshot or after it.
SnapshotWasWritten ==
  Running /\ snapshot.revision > 1 =>
    /\ snapshot.stamp > 0
    /\ \E k \in snapshot.stamp..Stamp : written[k] = config

Inductive ==
  /\ ReloadTypeOK
  /\ LoadedIsValid
  /\ LastKnownGood
  /\ WorkersKeepTheirConfig
  /\ SeenIfUnpaused
  /\ SeenBeforeRead
  /\ SnapshotWasWritten

LEMMA InitInductive == Init => Inductive
<1> SUFFICES ASSUME Init PROVE Inductive
  OBVIOUS
<1>1. PICK c \in Content :
        /\ written = <<c>>
        /\ loaded = c /\ config = c /\ built = c
        /\ snapshot = [content |-> c, stamp |-> 0, revision |-> 0]
  BY DEF Init
<1>2. written \in Seq(Content) /\ Len(written) = 1
  BY <1>1
<1>3. ReloadTypeOK
  <2>1. snapshot \in Snapshot /\ {loaded, config, built} \subseteq Content
    BY <1>1 DEF Snapshot
  <2>2. moves \in 0..MaxMoves /\ starts \in 0..MaxStarts
    BY ReloadAssumption DEF Init
  <2>3. pc \in At /\ observed \in 0..Stamp /\ Stamp > 0
    BY <1>2 DEF Init, At, Stamp
  <2> QED
    BY <1>2, <2>1, <2>2, <2>3 DEF Init, ReloadTypeOK
<1> QED
  BY <1>1, <1>3 DEF Init, Inductive, LoadedIsValid, LastKnownGood, Running,
     WorkersKeepTheirConfig, SeenIfUnpaused, SeenBeforeRead, SnapshotWasWritten

\* A write appends a content and leaves those before it alone.
LEMMA WriteAppends ==
  ASSUME NEW c \in Content, written \in Seq(Content), written' = Append(written, c)
  PROVE  /\ written' \in Seq(Content)
         /\ Len(written') = Len(written) + 1
         /\ \A k \in 1..Len(written) : written'[k] = written[k]
  OBVIOUS

\* The latest content is one of the contents.
LEMMA LatestIsContent ==
  ReloadTypeOK => Stamp \in Nat /\ Latest \in Content /\ Latest = written[Stamp]
  BY DEF ReloadTypeOK, Stamp, Latest

LEMMA FileKeepsInductive ==
  ASSUME Inductive, TakeAwayOrPutBack \/ \E c \in Content : Write(c)
  PROVE  Inductive'
<1> USE DEF Inductive, Running, file, daemon
<1>1. CASE TakeAwayOrPutBack
  <2>1. ReloadTypeOK'
    BY <1>1, ReloadAssumption DEF TakeAwayOrPutBack, ReloadTypeOK, Stamp
  <2> QED
    BY <1>1, <2>1 DEF TakeAwayOrPutBack, LoadedIsValid, LastKnownGood, WorkersKeepTheirConfig,
       SeenIfUnpaused, SeenBeforeRead, SnapshotWasWritten, Stamp
<1>2. CASE \E c \in Content : Write(c)
  <2>1. PICK c \in Content : Write(c)
    BY <1>2
  <2>2. /\ written' \in Seq(Content)
        /\ Stamp \in Nat /\ Stamp' = Stamp + 1
        /\ \A k \in 1..Stamp : written'[k] = written[k]
    BY <2>1, WriteAppends DEF Write, ReloadTypeOK, Stamp
  <2>3. ReloadTypeOK'
    BY <2>1, <2>2 DEF Write, ReloadTypeOK
  <2>4. SnapshotWasWritten'
    <3> SUFFICES ASSUME Running, snapshot.revision > 1
                 PROVE  /\ snapshot.stamp > 0
                        /\ \E k \in snapshot.stamp..(Stamp + 1) : written'[k] = config
      BY <2>1, <2>2 DEF Write, SnapshotWasWritten
    <3>1. PICK k \in snapshot.stamp..Stamp : written[k] = config
      BY DEF SnapshotWasWritten
    <3>2. snapshot.stamp \in Nat /\ snapshot.stamp > 0
      BY DEF SnapshotWasWritten, ReloadTypeOK, Snapshot
    <3> QED
      BY <2>2, <3>1, <3>2
  <2> QED
    BY <2>1, <2>3, <2>4 DEF Write, LoadedIsValid, LastKnownGood, WorkersKeepTheirConfig,
       SeenIfUnpaused, SeenBeforeRead
<1> QED
  BY <1>1, <1>2

LEMMA DaemonKeepsInductive ==
  ASSUME Inductive, Load \/ StartUp \/ Crash \/ Tick
  PROVE  Inductive'
<1> USE DEF Inductive, Running, file, daemon
<1>0. Stamp \in Nat /\ Stamp > 0 /\ Latest \in Content /\ Latest = written[Stamp]
  BY LatestIsContent DEF ReloadTypeOK
<1> DEFINE Rest == /\ LoadedIsValid /\ LastKnownGood /\ WorkersKeepTheirConfig
                   /\ SeenIfUnpaused /\ SeenBeforeRead /\ SnapshotWasWritten
<1>1. CASE Load
  <2>1. ReloadTypeOK'
    BY <1>0, <1>1, ReloadAssumption DEF Load, ReloadTypeOK, At, Stamp
  <2>2. Rest'
    BY <1>0, <1>1 DEF Load, LoadedIsValid, LastKnownGood, WorkersKeepTheirConfig,
       SeenIfUnpaused, SeenBeforeRead, SnapshotWasWritten, ReloadTypeOK
  <2> QED
    BY <2>1, <2>2
<1>2. CASE StartUp
  <2>1. ReloadTypeOK'
    BY <1>0, <1>2 DEF StartUp, ReloadTypeOK, At, Stamp, Snapshot
  <2>2. Rest'
    BY <1>2 DEF StartUp, LoadedIsValid, LastKnownGood, WorkersKeepTheirConfig,
       SeenIfUnpaused, SeenBeforeRead, SnapshotWasWritten, ReloadTypeOK
  <2> QED
    BY <2>1, <2>2
<1>3. CASE Crash
  <2>1. ReloadTypeOK'
    BY <1>3 DEF Crash, ReloadTypeOK, At, Stamp
  <2>2. Rest'
    BY <1>3 DEF Crash, LoadedIsValid, LastKnownGood, WorkersKeepTheirConfig,
       SeenIfUnpaused, SeenBeforeRead, SnapshotWasWritten
  <2> QED
    BY <2>1, <2>2
<1>4. CASE Stat
  <2>1. ReloadTypeOK'
    BY <1>0, <1>4 DEF Stat, ReloadTypeOK, At, Stamp
  <2>2. Rest'
    BY <1>0, <1>4 DEF Stat, LoadedIsValid, LastKnownGood, WorkersKeepTheirConfig,
       SeenIfUnpaused, SeenBeforeRead, SnapshotWasWritten, Stamp
  <2> QED
    BY <2>1, <2>2
<1>5. CASE Accept
  <2>1. ReloadTypeOK'
    BY <1>0, <1>5 DEF Accept, ReloadTypeOK, At, Stamp, Snapshot
  <2>2. SnapshotWasWritten'
    BY <1>0, <1>5 DEF Accept, ReloadTypeOK, SeenBeforeRead, SnapshotWasWritten, Stamp
  <2>3. LastKnownGood'
    BY <1>5 DEF Accept, Acceptable, RestartRequired, LastKnownGood
  <2> QED
    BY <1>5, <2>1, <2>2, <2>3 DEF Accept, LoadedIsValid, WorkersKeepTheirConfig,
       SeenIfUnpaused, SeenBeforeRead, ReloadTypeOK
<1>6. CASE Reject
  <2>1. ReloadTypeOK'
    BY <1>6 DEF Reject, ReloadTypeOK, At, Stamp
  <2>2. Rest'
    BY <1>6 DEF Reject, LoadedIsValid, LastKnownGood, WorkersKeepTheirConfig,
       SeenIfUnpaused, SeenBeforeRead, SnapshotWasWritten, Stamp
  <2> QED
    BY <2>1, <2>2
<1>7. CASE Dispatch
  <2>1. ReloadTypeOK'
    BY <1>7 DEF Dispatch, ReloadTypeOK, At, Stamp
  <2>2. Rest'
    BY <1>7 DEF Dispatch, LoadedIsValid, LastKnownGood, WorkersKeepTheirConfig,
       SeenIfUnpaused, SeenBeforeRead, SnapshotWasWritten, Stamp
  <2> QED
    BY <2>1, <2>2
<1>8. CASE EndTick
  <2>1. ReloadTypeOK'
    BY <1>8 DEF EndTick, ReloadTypeOK, At, Stamp
  <2>2. Rest'
    BY <1>8 DEF EndTick, LoadedIsValid, LastKnownGood, WorkersKeepTheirConfig,
       SeenIfUnpaused, SeenBeforeRead, SnapshotWasWritten, Stamp
  <2> QED
    BY <2>1, <2>2
<1> QED
  BY <1>1, <1>2, <1>3, <1>4, <1>5, <1>6, <1>7, <1>8 DEF Tick

LEMMA NextInductive == Inductive /\ [Next]_vars => Inductive'
<1> SUFFICES ASSUME Inductive, [Next]_vars PROVE Inductive'
  OBVIOUS
<1>1. CASE UNCHANGED vars
  BY <1>1 DEF vars, file, daemon, Inductive, ReloadTypeOK, LoadedIsValid, LastKnownGood,
     Running, WorkersKeepTheirConfig, SeenIfUnpaused, SeenBeforeRead, SnapshotWasWritten, Stamp
<1>2. CASE TakeAwayOrPutBack \/ \E c \in Content : Write(c)
  BY <1>2, FileKeepsInductive
<1>3. CASE Load \/ StartUp \/ Crash \/ Tick
  BY <1>3, DaemonKeepsInductive
<1> QED
  BY <1>1, <1>2, <1>3 DEF Next

\* In every reachable state the tick, the snapshot, the config and what was
\* written of the file stand to each other as Inductive says: the invariant
\* that the theorems below follow from.
THEOREM ReloadInductive == Spec => []Inductive
<1>1. Init => Inductive
  BY InitInductive
<1>2. Inductive /\ [Next]_vars => Inductive'
  BY NextInductive
<1> QED
  BY <1>1, <1>2, PTL DEF Spec

\* Type correctness: a worker exists only while its tick awaits it.
THEOREM ReloadTypeCorrect == Spec => []ReloadTypeOK
<1>1. Inductive => ReloadTypeOK
  BY DEF Inductive
<1> QED
  BY <1>1, ReloadInductive, PTL

\* The orchestrator runs on the last accepted snapshot, and no sequence of edits
\* changes a restart-required field under a running process.
THEOREM LastKnownGoodCorrect == Spec => []LastKnownGood
<1>1. Inductive => LastKnownGood
  BY DEF Inductive
<1> QED
  BY <1>1, ReloadInductive, PTL

\* No worker sees a reload: its config is the orchestrator's until it is done.
THEOREM WorkersCorrect == Spec => []WorkersKeepTheirConfig
<1>1. Inductive => WorkersKeepTheirConfig
  BY DEF Inductive
<1> QED
  BY <1>1, ReloadInductive, PTL

\* A worker is added by Dispatch only.
LEMMA OnlyDispatchAdds ==
  ASSUME Inductive, [Next]_vars, worker' \ worker # {} PROVE Dispatch
  BY DEF Next, Tick, Write, TakeAwayOrPutBack, Load, StartUp, Crash, Stat, Accept, Reject,
     EndTick, vars, file, daemon

\* A tick that found a change it could not accept dispatches nothing; what
\* any other dispatches under is what the file held when it looked, or later.
THEOREM DispatchIsCurrentCorrect == Spec => DispatchIsCurrent
<1> DEFINE Step == worker' \ worker # {} =>
                     /\ observed = snapshot.stamp
                     /\ snapshot.revision > 1 =>
                          \E k \in observed..Stamp : written[k] = config
<1>1. Inductive /\ [Next]_vars => [Step]_vars
  <2> SUFFICES ASSUME Inductive, [Next]_vars, worker' \ worker # {}
               PROVE  /\ observed = snapshot.stamp
                      /\ snapshot.revision > 1 =>
                           \E k \in observed..Stamp : written[k] = config
    OBVIOUS
  <2>1. Dispatch
    BY OnlyDispatchAdds
  <2>2. observed = snapshot.stamp
    BY <2>1 DEF Dispatch, Inductive, SeenIfUnpaused
  <2>3. ASSUME snapshot.revision > 1
        PROVE  \E k \in observed..Stamp : written[k] = config
    BY <2>1, <2>3 DEF Dispatch, Inductive, SnapshotWasWritten, SeenIfUnpaused, Running
  <2> QED
    BY <2>2, <2>3
<1> QED
  BY <1>1, ReloadInductive, PTL DEF Spec, DispatchIsCurrent
=============================================================================
