--------------------------- MODULE WorkflowReload ---------------------------
(***************************************************************************)
(* WORKFLOW.md and the daemon that follows it: the file is edited by other *)
(* processes at any point, the daemon reads it when it starts and polls    *)
(* its metadata at the beginning of each tick (WorkflowReloader).          *)
(*                                                                         *)
(* Two writes of the file never leave the same mtime, size and inode, so   *)
(* the number of a write stands for the metadata it leaves.  A write in    *)
(* place shows as several: what a reader finds half-written is a content   *)
(* of its own, which may well be valid.                                    *)
(***************************************************************************)
EXTENDS Integers, Sequences

CONSTANTS
  Fixed,      \* values of the restart-required fields
  Wired,      \* values of the fields that start-up builds objects from
  MaxWrites,  \* bound: writes of the file in one behaviour
  MaxMoves,   \* bound: times the file is taken away
  MaxStarts   \* bound: processes ever started

ASSUME ReloadAssumption == MaxWrites \in Nat /\ MaxMoves \in Nat /\ MaxStarts \in Nat

(***************************************************************************)
(* What matters of a content: is it accepted by the parser and the         *)
(* validator, the fields _restart_required_changes compares, and agent     *)
(* provider and remote host, which it does not compare although the        *)
(* provider and the remote dispatcher are built only once.                 *)
(***************************************************************************)
Content == [valid : BOOLEAN, fixed : Fixed, wired : Wired]

VARIABLES
  written,   \* the contents the file has had, the present one last
  present,   \* is it there at all?
  moves,     \* times it was taken away
  pc,        \* where the daemon is
  starts,    \* processes started
  loaded,    \* at start-up, what load_workflow has read
  observed,  \* in a tick, the metadata _stat_metadata has seen; 0 if it raised
  snapshot,  \* WorkflowReloader.snapshot
  config,    \* Orchestrator.config
  built,     \* the config that provider and dispatcher were built from
  paused,    \* dispatch_paused of this tick
  worker     \* the configs the active workers were started with

file   == <<written, present, moves>>
daemon == <<pc, starts, loaded, observed, snapshot, config, built, paused, worker>>
vars   == <<file, daemon>>

At == {"down", "loaded", "idle", "reload", "ticking", "working"}

Snapshot == [content : Content, stamp : Nat, revision : Nat]

Latest == written[Len(written)]
Stamp  == Len(written)

ReloadTypeOK ==
  /\ written \in Seq(Content) /\ Stamp > 0
  /\ present \in BOOLEAN
  /\ moves \in 0..MaxMoves
  /\ pc \in At
  /\ starts \in 0..MaxStarts
  /\ {loaded, config, built} \subseteq Content
  /\ observed \in 0..Stamp
  /\ snapshot \in Snapshot
  /\ paused \in BOOLEAN
  /\ worker \in SUBSET Content
  /\ worker # {} => pc = "working"

Init ==
  /\ \E c \in Content :
       /\ written = <<c>>
       /\ loaded = c /\ config = c /\ built = c
       /\ snapshot = [content |-> c, stamp |-> 0, revision |-> 0]
  /\ present = TRUE /\ moves = 0
  /\ pc = "down" /\ starts = 0
  /\ observed = 0 /\ paused = FALSE /\ worker = {}

----------------------------------------------------------------------------
(* The file.                                                               *)

\* It is written in place, or replaced by another one.
Write(c) ==
  /\ Len(written) <= MaxWrites
  /\ written' = Append(written, c)
  /\ present' = TRUE
  /\ UNCHANGED <<moves, daemon>>

\* It is taken away, or put back as it was (an editor that saves by renaming).
TakeAwayOrPutBack ==
  /\ present' = ~present
  /\ IF present THEN moves < MaxMoves /\ moves' = moves + 1 ELSE UNCHANGED moves
  /\ UNCHANGED <<written, daemon>>

----------------------------------------------------------------------------
(* Start-up: _cmd_run reads the file, from_workflow takes its metadata.    *)

Load ==
  /\ pc = "down" /\ starts < MaxStarts
  /\ present /\ Latest.valid
  /\ pc' = "loaded" /\ starts' = starts + 1
  /\ loaded' = Latest
  /\ UNCHANGED <<file, observed, snapshot, config, built, paused, worker>>

StartUp ==
  /\ pc = "loaded" /\ present
  /\ pc' = "idle"
  /\ snapshot' = [content |-> loaded, stamp |-> Stamp, revision |-> 1]
  /\ config' = loaded /\ built' = loaded
  /\ UNCHANGED <<file, starts, loaded, observed, paused, worker>>

\* The process is killed, or fails: at start-up, when the file is gone.
Crash ==
  /\ pc # "down"
  /\ pc' = "down" /\ worker' = {} /\ paused' = FALSE
  /\ UNCHANGED <<file, starts, loaded, observed, snapshot, config, built>>

----------------------------------------------------------------------------
(* A tick: maybe_reload, then dispatch.                                    *)

\* maybe_reload takes the metadata first.
Stat ==
  /\ pc = "idle"
  /\ observed' = IF present THEN Stamp ELSE 0
  /\ pc' = IF present /\ Stamp # snapshot.stamp THEN "reload" ELSE "ticking"
  /\ paused' = ~present
  /\ UNCHANGED <<file, starts, loaded, snapshot, config, built, worker>>

\* Mutant of RestartRequired: the restart-required fields are not compared.
NeverRestartRequired(c) == FALSE

\* _restart_required_changes.
RestartRequired(c) == c.fixed # snapshot.content.fixed

Acceptable == present /\ Latest.valid /\ ~RestartRequired(Latest)

\* Mutant of Accept: the snapshot is published, but nothing applies it.
AcceptUnapplied ==
  /\ pc = "reload" /\ Acceptable
  /\ pc' = "ticking"
  /\ snapshot' = [content |-> Latest, stamp |-> observed, revision |-> snapshot.revision + 1]
  /\ UNCHANGED <<file, starts, loaded, observed, config, built, paused, worker>>

\* Then it reads the file: a new snapshot, which the orchestrator applies.
Accept ==
  /\ pc = "reload" /\ Acceptable
  /\ pc' = "ticking"
  /\ snapshot' = [content |-> Latest, stamp |-> observed, revision |-> snapshot.revision + 1]
  /\ config' = Latest
  /\ UNCHANGED <<file, starts, loaded, observed, built, paused, worker>>

\* Mutant of Reject: the metadata of a rejected file is remembered.
RejectOnce ==
  /\ pc = "reload" /\ ~Acceptable
  /\ pc' = "ticking"
  /\ paused' = TRUE
  /\ snapshot' = [snapshot EXCEPT !.stamp = observed]
  /\ UNCHANGED <<file, starts, loaded, observed, config, built, worker>>

\* Mutant of Reject: the tick goes on to dispatch under the old snapshot.
RejectUnpaused ==
  /\ pc = "reload" /\ ~Acceptable
  /\ pc' = "ticking"
  /\ UNCHANGED <<file, starts, loaded, observed, snapshot, config, built, paused, worker>>

\* It does not load, or needs a restart: no dispatch in this tick.
Reject ==
  /\ pc = "reload" /\ ~Acceptable
  /\ pc' = "ticking"
  /\ paused' = TRUE
  /\ UNCHANGED <<file, starts, loaded, observed, snapshot, config, built, worker>>

\* The workers of the tick take the config along; run_once awaits them.
Dispatch ==
  /\ pc = "ticking" /\ ~paused
  /\ worker' = worker \cup {config}
  /\ pc' = "working"
  /\ UNCHANGED <<file, starts, loaded, observed, snapshot, config, built, paused>>

\* Mutant of EndTick: a worker is left behind.
EndTickLeaving ==
  /\ pc \in {"ticking", "working"}
  /\ pc' = "idle"
  /\ paused' = FALSE
  /\ UNCHANGED <<file, starts, loaded, observed, snapshot, config, built, worker>>

\* The last worker is done, or there was nothing to dispatch.
EndTick ==
  /\ pc \in {"ticking", "working"}
  /\ pc' = "idle"
  /\ worker' = {} /\ paused' = FALSE
  /\ UNCHANGED <<file, starts, loaded, observed, snapshot, config, built>>

Tick == Stat \/ Accept \/ Reject \/ Dispatch \/ EndTick

Next ==
  \/ TakeAwayOrPutBack \/ \E c \in Content : Write(c)
  \/ Load \/ StartUp \/ Crash \/ Tick

Spec == Init /\ [][Next]_vars

\* The daemon goes on, and a supervisor starts it again.
FairSpec == Spec /\ WF_vars(Load \/ StartUp) /\ WF_vars(Tick) /\ WF_vars(EndTick)

(***************************************************************************)
(* Properties.                                                             *)
(***************************************************************************)

Running == pc \notin {"down", "loaded"}

\* The orchestrator runs on the last snapshot that was accepted as a whole: it
\* is valid, and no sequence of edits changes a restart-required field under a
\* running process.
LastKnownGood ==
  Running => /\ config = snapshot.content
             /\ config.valid
             /\ config.fixed = built.fixed

\* A worker finishes under the config it began with, and nothing else of the
\* orchestrator has gone on to another one meanwhile.
WorkersKeepTheirConfig == \A c \in worker : c = config

\* A tick that found a changed file it could not accept dispatches nothing,
\* and once a reload was accepted, what a tick dispatches under is what the
\* file held when the tick looked at it, or later.  (The first snapshot may be
\* older: the file is read before its metadata are taken.)
DispatchIsCurrent ==
  [][worker' \ worker # {} =>
       /\ observed = snapshot.stamp
       /\ snapshot.revision > 1 => \E k \in observed..Stamp : written[k] = config]_vars

\* However the file is edited, an acceptable content that stays takes effect,
\* after any number of rejected ones and whatever the daemon was doing.  (An
\* edit between the reading and the metadata of the start is never noticed.)
MissedAtStart == snapshot.revision = 1 /\ snapshot.stamp = Stamp

EditTakesEffect ==
  []<>(pc = "down" \/ ~Acceptable \/ MissedAtStart \/ (snapshot.stamp = Stamp /\ config = Latest))
=============================================================================
