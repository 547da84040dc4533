----------------------------- MODULE SessionProofs -----------------------------
(***************************************************************************)
(* Theorems about the runs of a worker, for both providers, every set of   *)
(* policies, and any number of turns, attempts, runs and events.           *)
(***************************************************************************)
EXTENDS Session, TLAPS

\* A run in progress has a number, and has not been counted as failed yet
\* unless it is over.
Counted ==
  /\ at # "idle" => run \in Runs
  /\ attempts <= run
  /\ at \in {"loop", "reading", "stopping"} => attempts < run
  /\ at \in {"reading", "stopping"} => turns < MaxTurns

\* What is ready to be read follows the announcement, and is of this run.
IsAnnouncement(e) == e \in {"session_started", "session_restored"}

QueueOfTheTurn ==
  /\ at # "reading" => queue = <<>>
  /\ \A n \in 1..Len(queue) :
       /\ queue[n].event # "timed_out" /\ ~IsAnnouncement(queue[n].event)
       /\ queue[n].pid = NoId
       /\ queue[n].event = "turn_completed" => Announcements # {}
  /\ queue # <<>> /\ provider = "claude_code" => Announcements # {}

\* As the code stands nothing is restored: every run has a conversation of its
\* own, which is why no record can name another one.
Conversation ==
  /\ carry \in {{}, {PriorId}}
  /\ \A r \in Runs : thread[r] \in {NoId, r} /\ disk[r].pid \in {NoId, thread[r]}
  /\ at # "idle" => thread[run] = run /\ record.pid \in {NoId, run}
  /\ record.prev # {} => carry = {}

\* A codex process has ended by the time its output is read.
CodexLeft ==
  provider = "codex" /\ ~escaped /\ ~(at = "reading" /\ queue = <<>>) =>
    live \subseteq abandoned

\* A run has no verdict before its end, and goes on after a completed turn only.
Unsettled ==
  /\ at \in {"idle", "loop", "reading", "stopping"} => terminal = "none"
  /\ at \in {"idle", "loop", "reading"} => subtype = "none"
  /\ at = "stopping" => subtype # "none"
  /\ at = "idle" => turns = 0 /\ log = <<>>
  /\ at = "loop" /\ turns > 0 => log # <<>> /\ log[Len(log)] = "turn_completed"
  /\ escaped => at \in Over

\* saw_first_event and the id in the record tell of an announcement.
Greeted ==
  /\ AnnouncedFirst
  /\ ~sawFirst => Announcements = {}
  /\ at \in {"loop", "reading"} /\ (sawFirst \/ record.pid # NoId) => Announcements # {}

\* The type invariant in three parts, of which most steps leave two alone.
RunType ==
  /\ provider \in Providers /\ policy \in Policies
  /\ at \in At /\ run \in 0..MaxRuns
  /\ attempts \in 0..MaxRuns /\ scheduled \in BOOLEAN
  /\ turns \in 0..MaxTurns /\ terminal \in Terminal /\ subtype \in Subtype
  /\ sinceTurn \in 0..TurnBudget /\ sinceEvent \in 0..StallBudget
  /\ escaped \in BOOLEAN
  /\ live \in SUBSET Runs /\ abandoned \in SUBSET Runs /\ stranded \in SUBSET Runs

RecordType ==
  /\ carry \in SUBSET Ids /\ thread \in [Runs -> Ids]
  /\ record \in SessionRecord /\ disk \in [Runs -> SessionRecord]

StreamType ==
  /\ sawFirst \in BOOLEAN /\ denied \in BOOLEAN
  /\ queue \in Seq(Yielded) /\ log \in Seq(Event)

TypeParts == RunType /\ RecordType /\ StreamType

Inductive ==
  /\ TypeParts
  /\ Counted
  /\ QueueOfTheTurn
  /\ Conversation
  /\ CodexLeft
  /\ ProcessesAccountedFor
  /\ Unsettled
  /\ VerdictMatchesEvents
  /\ Greeted

\* Events a provider may have at hand in a turn, the next one first.
Fit(q) ==
  /\ q \in Seq(Yielded) /\ q # <<>>
  /\ q[1].pid \in {NoId, run} /\ (q[1].pid # NoId => IsAnnouncement(q[1].event))
  /\ IsAnnouncement(q[1].event) => ~sawFirst
  /\ provider = "claude_code" => IsAnnouncement(q[1].event) \/ Announcements # {}
  /\ q[1].event = "turn_completed" => Announcements # {}
  /\ \A n \in 1..Len(q) : q[n].event # "timed_out"
  /\ \A n \in 2..Len(q) :
       /\ ~IsAnnouncement(q[n].event) /\ q[n].pid = NoId
       /\ q[n].event = "turn_completed" => IsAnnouncement(q[1].event) \/ Announcements # {}

----------------------------------------------------------------------------
(* The operators the actions are built from.                               *)

LEMMA TypeIsItsParts == SessionTypeOK <=> TypeParts
  BY DEF SessionTypeOK, TypeParts, RunType, RecordType, StreamType

LEMMA Bounds ==
  /\ MaxTurns \in Nat \ {0} /\ MaxAttempts \in Nat /\ MaxRuns \in Nat
  /\ StallBudget \in Nat \ {0} /\ TurnBudget \in Nat \ {0}
  /\ Providers \subseteq Provider /\ Policies \subseteq Policy
  BY SessionAssumption

\* The record of a retry has no id, so that nothing is restored.
LEMMA NothingIsRestored ==
  /\ Stale.pid = NoId /\ Stale.prev = {}
  /\ Outcomes = {"first"} \/ Outcomes = {"missing"}
  /\ attempts # 0 => Outcomes = {"missing"}
  BY DEF Stale, Outcomes, RestoreOutcomes

\* What one event, or one event before others, is.
LEMMA OneBefore ==
  ASSUME NEW S, NEW x \in S, NEW s \in Seq(S)
  PROVE  /\ <<>> \o s = s
         /\ <<x>> \o s \in Seq(S) /\ Len(<<x>> \o s) = Len(s) + 1
         /\ (<<x>> \o s)[1] = x
         /\ \A n \in 2..(Len(s) + 1) : (<<x>> \o s)[n] = s[n - 1]
<1>1. <<x>> \in Seq(S) /\ Len(<<x>>) = 1 /\ <<x>>[1] = x
  OBVIOUS
<1> QED
  BY <1>1
LEMMA PlainType ==
  ASSUME NEW e \in Event
  PROVE  /\ Plain(e) \in Yielded
         /\ Plain(e).event = e /\ Plain(e).pid = NoId
         /\ \A d \in BOOLEAN : /\ [Plain(e) EXCEPT !.denied = d] \in Yielded
                               /\ [Plain(e) EXCEPT !.denied = d].event = e
                               /\ [Plain(e) EXCEPT !.denied = d].pid = NoId
  BY Bounds DEF Plain, Yielded, Ids, NoId

\* A failure is counted, and there is room for it while a run is in progress.
LEMMA FailedEffect ==
  ASSUME NEW retryable \in BOOLEAN, TypeParts, Counted, attempts < run, Failed(retryable)
  PROVE  /\ attempts' \in 0..MaxRuns /\ attempts' <= run /\ attempts' > 0
         /\ scheduled' \in BOOLEAN
  BY Bounds DEF TypeParts, RunType, Failed

\* The announcement is there once, before anything else.
LEMMA AnnouncementFirst ==
  ASSUME TypeParts, NEW id \in Ids, NEW s \in Seq(Yielded)
  PROVE  \/ sawFirst /\ Announcement(id) \o s = s
         \/ ~sawFirst /\ LET q == Announcement(id) \o s IN
              /\ q \in Seq(Yielded) /\ Len(q) = Len(s) + 1
              /\ IsAnnouncement(q[1].event) /\ q[1].pid = id
              /\ \A n \in 2..(Len(s) + 1) : q[n] = s[n - 1]
<1> DEFINE x == Announcing(Announce, id)
<1>1. x \in Yielded /\ x.pid = id /\ IsAnnouncement(x.event)
  BY DEF Announcing, Announce, Yielded, Event, IsAnnouncement
<1>2. sawFirst \in BOOLEAN
  BY DEF TypeParts, StreamType
<1>3. CASE sawFirst
  <2>1. Announcement(id) = <<>>
    BY <1>3 DEF Announcement
  <2> QED
    BY <2>1, <1>3, <1>1, OneBefore
<1>4. CASE ~sawFirst
  <2>1. Announcement(id) = <<x>>
    BY <1>4 DEF Announcement
  <2> HIDE DEF x
  <2>2. /\ <<x>> \o s \in Seq(Yielded) /\ Len(<<x>> \o s) = Len(s) + 1
        /\ (<<x>> \o s)[1] = x
        /\ \A n \in 2..(Len(s) + 1) : (<<x>> \o s)[n] = s[n - 1]
    BY <1>1, OneBefore
  <2> QED
    BY <2>1, <2>2, <1>1, <1>4
<1> QED
  BY <1>2, <1>3, <1>4

\* So events without an announcement fit behind it.
LEMMA FitBehindAnnouncement ==
  ASSUME Inductive, at = "reading",
         NEW id \in {NoId, run}, NEW s \in Seq(Yielded), s # <<>>,
         \A n \in 1..Len(s) : /\ s[n].event # "timed_out" /\ s[n].pid = NoId
                              /\ ~IsAnnouncement(s[n].event)
  PROVE  LET q == Announcement(id) \o s IN
         /\ Fit(q)
         /\ IsAnnouncement(q[1].event) <=> ~sawFirst
<1> DEFINE q == Announcement(id) \o s
<1>0. id \in Ids /\ TypeParts /\ sawFirst \in BOOLEAN
  BY Bounds DEF Inductive, TypeParts, RunType, StreamType, Ids, NoId
<1>1. Len(s) \in Nat \ {0}
  OBVIOUS
<1>2. Fit(q) /\ (IsAnnouncement(q[1].event) <=> ~sawFirst)
  <2>1. CASE sawFirst
    <3>1. q = s
      BY <1>0, <2>1, AnnouncementFirst
    <3>2. Announcements # {}
      BY <2>1 DEF Inductive, Greeted
    <3> HIDE DEF q
    <3> QED
      BY <3>1, <3>2, <1>1, <2>1 DEF Fit
  <2>2. CASE ~sawFirst
    <3>1. /\ q \in Seq(Yielded) /\ Len(q) = Len(s) + 1
          /\ IsAnnouncement(q[1].event) /\ q[1].pid = id
          /\ \A n \in 2..(Len(s) + 1) : q[n] = s[n - 1]
      BY <1>0, <2>2, AnnouncementFirst
    <3> HIDE DEF q
    <3>2. q # <<>>
      BY <3>1, <1>1
    <3>3. q[1].event # "timed_out" /\ q[1].event # "turn_completed"
      BY <3>1 DEF IsAnnouncement
    <3>4. \A n \in 2..Len(q) : /\ ~IsAnnouncement(q[n].event) /\ q[n].pid = NoId
                               /\ q[n].event # "timed_out"
      BY <3>1, <1>1
    <3>5. \A n \in 1..Len(q) : q[n].event # "timed_out"
      BY <3>1, <3>3, <3>4, <1>1
    <3> QED
      BY <3>1, <3>2, <3>3, <3>4, <3>5, <2>2 DEF Fit
  <2> QED
    BY <1>0, <2>1, <2>2
<1> QED
  BY <1>2

\* What Claude's message says is one event, or two like it.
LEMMA MessageFits ==
  ASSUME NEW kind \in MessageKinds, NEW d \in BOOLEAN
  PROVE  LET s == [MessageEvents(kind) EXCEPT ![1].denied = d] IN
         /\ s \in Seq(Yielded) /\ s # <<>>
         /\ \A n \in 1..Len(s) : /\ s[n].event # "timed_out" /\ s[n].pid = NoId
                                 /\ ~IsAnnouncement(s[n].event)
<1> DEFINE x == Plain(kind)
           y == [x EXCEPT !.denied = d]
<1>1. /\ x \in Yielded /\ x.event = kind /\ x.pid = NoId
      /\ y \in Yielded /\ y.event = kind /\ y.pid = NoId
  BY PlainType DEF MessageKinds, TurnEnd, Event
<1>2. kind # "timed_out" /\ ~IsAnnouncement(kind)
  BY DEF MessageKinds, TurnEnd, IsAnnouncement
<1>3. \/ MessageEvents(kind) = <<x, x>>
      \/ MessageEvents(kind) = <<x>>
  BY DEF MessageEvents
<1> HIDE DEF x, y
<1>4. [<<x, x>> EXCEPT ![1].denied = d] = <<y, x>> /\ [<<x>> EXCEPT ![1].denied = d] = <<y>>
  BY DEF y
<1>5. <<y, x>> \in Seq(Yielded) /\ <<y>> \in Seq(Yielded)
  BY <1>1
<1>6. /\ Len(<<y, x>>) = 2 /\ <<y, x>>[1] = y /\ <<y, x>>[2] = x
      /\ Len(<<y>>) = 1 /\ <<y>>[1] = y
      /\ <<y, x>> # <<>> /\ <<y>> # <<>>
  OBVIOUS
<1>7. CASE MessageEvents(kind) = <<x, x>>
  BY <1>7, <1>1, <1>2, <1>4, <1>5, <1>6
<1>8. CASE MessageEvents(kind) = <<x>>
  BY <1>8, <1>1, <1>2, <1>4, <1>5, <1>6
<1> QED
  BY <1>3, <1>7, <1>8

\* What an output of codex says after thread.started.
LEMMA CodexEndType ==
  ASSUME NEW o \in CodexOutput, NEW id \in Ids
  PROVE  LET s == CodexEnd(o, id) IN
         /\ s \in Seq(Yielded) /\ s # <<>>
         /\ \A n \in 1..Len(s) : /\ s[n].event # "timed_out" /\ s[n].pid = NoId
                                 /\ ~IsAnnouncement(s[n].event)
                                 /\ s[n].event = "turn_completed" => id # NoId
<1> DEFINE f == Plain("turn_failed")
           m == Plain("malformed")
           fd == [f EXCEPT !.denied = o.denied]
           cd == [Plain("turn_completed") EXCEPT !.denied = o.denied]
<1>0. o.denied \in BOOLEAN
  BY DEF CodexOutput
<1>1. /\ f \in Yielded /\ f.event = "turn_failed" /\ f.pid = NoId
      /\ m \in Yielded /\ m.event = "malformed" /\ m.pid = NoId
      /\ fd \in Yielded /\ fd.event = "turn_failed" /\ fd.pid = NoId
      /\ cd \in Yielded /\ cd.event = "turn_completed" /\ cd.pid = NoId
  BY <1>0, PlainType DEF TurnEnd, Event
<1>2. \/ CodexEnd(o, id) = <<f>>
      \/ CodexEnd(o, id) = <<m, f>>
      \/ CodexEnd(o, id) = <<fd>>
      \/ CodexEnd(o, id) = <<cd>> /\ id # NoId
  BY DEF CodexEnd
<1> HIDE DEF f, m, fd, cd
<1>3. CASE CodexEnd(o, id) = <<f>>
  BY <1>1, <1>3 DEF IsAnnouncement
<1>4. CASE CodexEnd(o, id) = <<m, f>>
  <2>1. <<m, f>> \in Seq(Yielded) /\ Len(<<m, f>>) = 2 /\ <<m, f>>[1] = m /\ <<m, f>>[2] = f
    BY <1>1
  <2> QED
    BY <1>1, <1>4, <2>1 DEF IsAnnouncement
<1>5. CASE CodexEnd(o, id) = <<fd>>
  BY <1>1, <1>5 DEF IsAnnouncement
<1>6. CASE CodexEnd(o, id) = <<cd>> /\ id # NoId
  BY <1>1, <1>6 DEF IsAnnouncement
<1> QED
  BY <1>2, <1>3, <1>4, <1>5, <1>6

LEMMA CodexRestType ==
  ASSUME NEW o \in CodexOutput, NEW id \in Ids
  PROVE  LET s == (IF o.item THEN <<Plain("content")>> ELSE <<>>) \o CodexEnd(o, id) IN
         /\ s \in Seq(Yielded) /\ s # <<>>
         /\ \A n \in 1..Len(s) : /\ s[n].event # "timed_out" /\ s[n].pid = NoId
                                 /\ ~IsAnnouncement(s[n].event)
                                 /\ s[n].event = "turn_completed" => id # NoId
<1> DEFINE e == CodexEnd(o, id)
           c == Plain("content")
           s == (IF o.item THEN <<c>> ELSE <<>>) \o e
           Good(t) == /\ t \in Seq(Yielded) /\ t # <<>>
                      /\ \A n \in 1..Len(t) : /\ t[n].event # "timed_out" /\ t[n].pid = NoId
                                              /\ ~IsAnnouncement(t[n].event)
                                              /\ t[n].event = "turn_completed" => id # NoId
<1>1. Good(e)
  BY CodexEndType
<1>2. c \in Yielded /\ c.event = "content" /\ c.pid = NoId
  BY PlainType DEF Event
<1>3. s = <<c>> \o e \/ s = <<>> \o e
  OBVIOUS
<1> HIDE DEF e, c
<1>4. /\ <<>> \o e = e
      /\ <<c>> \o e \in Seq(Yielded) /\ Len(<<c>> \o e) = Len(e) + 1
      /\ (<<c>> \o e)[1] = c
      /\ \A n \in 2..(Len(e) + 1) : (<<c>> \o e)[n] = e[n - 1]
  BY <1>1, <1>2, OneBefore
<1>5. Good(s)
  <2> DEFINE t == <<c>> \o e
  <2> HIDE DEF s, t
  <2>1. CASE s = t
    <3>1. Len(t) = Len(e) + 1 /\ Len(e) \in Nat
      BY <1>1, <1>4 DEF t
    <3>2. t # <<>>
      BY <3>1
    <3>3. \A n \in 2..Len(t) : t[n] = e[n - 1] /\ n - 1 \in 1..Len(e)
      BY <1>4, <3>1 DEF t
    <3>4. t[1] = c /\ t \in Seq(Yielded)
      BY <1>4 DEF t
    <3>5. \A n \in 1..Len(t) : n = 1 \/ (n \in 2..Len(t) /\ n - 1 \in 1..Len(e))
      BY <3>1
    <3> QED
      BY <2>1, <1>1, <1>2, <3>2, <3>3, <3>4, <3>5 DEF IsAnnouncement
  <2>2. CASE s = <<>> \o e
    BY <2>2, <1>1, <1>4
  <2> QED
    BY <1>3, <2>1, <2>2 DEF t
<1> QED
  BY <1>5 DEF s, e, c

\* The output of codex fits.
LEMMA CodexFits ==
  ASSUME Inductive, at = "reading", provider = "codex", NEW o \in CodexOutput
  PROVE  LET q == CodexEvents(o) IN
         /\ Fit(q)
         /\ IsAnnouncement(q[1].event) <=> (~sawFirst /\ ~o.malformed /\ o.started # "no")
<1> DEFINE id == IF o.started = "named" THEN thread[run] ELSE record.pid
           s == (IF o.item THEN <<Plain("content")>> ELSE <<>>) \o CodexEnd(o, id)
           f == <<Plain("malformed"), Plain("turn_failed")>>
<1>0. /\ thread[run] = run /\ record.pid \in {NoId, run} /\ run \in Runs /\ TypeParts
      /\ sawFirst \in BOOLEAN
  BY DEF Inductive, Conversation, Counted, TypeParts, StreamType
<1>1. id \in Ids /\ id \in {NoId, run}
  BY <1>0, Bounds DEF Ids, Runs, NoId
<1>2. /\ s \in Seq(Yielded) /\ s # <<>>
      /\ \A n \in 1..Len(s) : /\ s[n].event # "timed_out" /\ s[n].pid = NoId
                              /\ ~IsAnnouncement(s[n].event)
                              /\ s[n].event = "turn_completed" => id # NoId
  BY <1>1, CodexRestType
<1>3. Len(s) \in Nat \ {0}
  BY <1>2
<1>4. CASE o.malformed
  <2> DEFINE m == Plain("malformed")
             e == Plain("turn_failed")
  <2>1. CodexEvents(o) = <<m, e>>
    BY <1>4 DEF CodexEvents
  <2>2. /\ m \in Yielded /\ m.event = "malformed" /\ m.pid = NoId
        /\ e \in Yielded /\ e.event = "turn_failed" /\ e.pid = NoId
    BY PlainType DEF Event, TurnEnd
  <2> HIDE DEF m, e
  <2>3. <<m, e>> \in Seq(Yielded) /\ Len(<<m, e>>) = 2 /\ <<m, e>>[1] = m /\ <<m, e>>[2] = e
    BY <2>2
  <2> QED
    BY <2>1, <2>2, <2>3, <1>4 DEF Fit, IsAnnouncement
<1>5. CASE ~o.malformed /\ o.started = "no"
  <2>1. CodexEvents(o) = <<>> \o s
    BY <1>5 DEF CodexEvents
  <2> HIDE DEF s
  <2>2. CodexEvents(o) = s
    BY <2>1, <1>2
  <2>3. id # NoId => Announcements # {}
    BY <1>5 DEF Inductive, Greeted
  <2> HIDE DEF id
  <2>4. /\ s[1].event # "timed_out" /\ s[1].pid = NoId /\ ~IsAnnouncement(s[1].event)
        /\ s[1].event = "turn_completed" => Announcements # {}
    BY <2>3, <1>2, <1>3
  <2>5. Fit(s)
    BY <2>3, <2>4, <1>2, <1>3, <1>5 DEF Fit
  <2> QED
    BY <2>2, <2>4, <2>5, <1>5
<1>6. CASE ~o.malformed /\ o.started # "no"
  <2> DEFINE a == IF o.started = "named" THEN thread[run] ELSE NoId
  <2>1. CodexEvents(o) = Announcement(a) \o s
    BY <1>6 DEF CodexEvents
  <2>2. a \in {NoId, run}
    BY <1>0
  <2> HIDE DEF s, a, id
  <2>3. \A n \in 1..Len(s) : /\ s[n].event # "timed_out" /\ s[n].pid = NoId
                             /\ ~IsAnnouncement(s[n].event)
    BY <1>2
  <2>4. LET q == Announcement(a) \o s IN Fit(q) /\ (IsAnnouncement(q[1].event) <=> ~sawFirst)
    BY <2>2, <2>3, <1>2, FitBehindAnnouncement
  <2> QED
    BY <2>1, <2>4, <1>6
<1> QED
  BY <1>4, <1>5, <1>6 DEF CodexOutput

----------------------------------------------------------------------------
(* An event is delivered: by Message, by CodexExits, or out of the queue.  *)

\* What the generator has ready fits, and what becomes of the process.
LEMMA StreamSteps ==
  ASSUME Inductive, ReadNext \/ Message \/ CodexExits
  PROVE  /\ at = "reading"
         /\ UNCHANGED <<provider, policy, carry, run, thread, abandoned, stranded>>
         /\ \/ live' = live /\ (queue # <<>> \/ provider = "claude_code")
            \/ live' = live \ {run} /\ provider = "codex"
         /\ \E q : /\ Fit(q) /\ Deliver(q)
                  /\ sawFirst' = (sawFirst \/ IsAnnouncement(q[1].event))
<1>0. sawFirst \in BOOLEAN /\ queue \in Seq(Yielded)
  BY DEF Inductive, TypeParts, StreamType
<1>1. CASE ReadNext
  <2>1. /\ at = "reading" /\ queue # <<>> /\ Deliver(queue)
        /\ UNCHANGED <<provider, policy, carry, run, thread, abandoned, stranded, live, sawFirst>>
    BY <1>1 DEF ReadNext, fixed, procs
  <2>2. Len(queue) \in Nat \ {0}
    BY <1>0, <2>1
  <2>3. /\ \A n \in 1..Len(queue) :
             /\ queue[n].event # "timed_out" /\ ~IsAnnouncement(queue[n].event)
             /\ queue[n].pid = NoId
             /\ queue[n].event = "turn_completed" => Announcements # {}
        /\ provider = "claude_code" => Announcements # {}
    BY <2>1 DEF Inductive, QueueOfTheTurn
  <2>4. Fit(queue) /\ ~IsAnnouncement(queue[1].event)
    BY <1>0, <2>1, <2>2, <2>3 DEF Fit
  <2>5. sawFirst' = (sawFirst \/ IsAnnouncement(queue[1].event))
    BY <1>0, <2>1, <2>4
  <2> QED
    BY <2>1, <2>4, <2>5
<1>2. CASE Message
  <2>1. PICK kind \in MessageKinds, id \in {NoId, thread[run]}, d \in BOOLEAN :
           Deliver(Announcement(IF id = NoId THEN record.pid ELSE id)
                     \o [MessageEvents(kind) EXCEPT ![1].denied = d])
    BY <1>2 DEF Message
  <2>2. /\ at = "reading" /\ provider = "claude_code" /\ sawFirst' = TRUE
        /\ UNCHANGED <<provider, policy, carry, run, thread, abandoned, stranded, live>>
    BY <1>2 DEF Message, fixed, procs
  <2> DEFINE x == IF id = NoId THEN record.pid ELSE id
             s == [MessageEvents(kind) EXCEPT ![1].denied = d]
  <2>3. x \in {NoId, run}
    BY <2>2 DEF Inductive, Conversation
  <2>4. /\ s \in Seq(Yielded) /\ s # <<>>
        /\ \A n \in 1..Len(s) :
             /\ s[n].event # "timed_out" /\ s[n].pid = NoId
             /\ ~IsAnnouncement(s[n].event)
    BY MessageFits
  <2>5. Deliver(Announcement(x) \o s)
    BY <2>1
  <2> HIDE DEF x, s
  <2> DEFINE q == Announcement(x) \o s
  <2>6. Fit(q) /\ (IsAnnouncement(q[1].event) <=> ~sawFirst)
    BY <2>2, <2>3, <2>4, FitBehindAnnouncement
  <2>7. Deliver(q)
    BY <2>5
  <2> HIDE DEF q
  <2>8. sawFirst' = (sawFirst \/ IsAnnouncement(q[1].event))
    BY <1>0, <2>2, <2>6
  <2> QED
    BY <2>2, <2>6, <2>7, <2>8
<1>3. CASE CodexExits
  <2>1. PICK o \in CodexOutput :
           /\ Deliver(CodexEvents(o))
           /\ sawFirst' = (sawFirst \/ (~o.malformed /\ o.started # "no"))
    BY <1>3 DEF CodexExits
  <2>2. /\ at = "reading" /\ provider = "codex" /\ live' = live \ {run}
        /\ UNCHANGED <<provider, policy, carry, run, thread, abandoned, stranded>>
    BY <1>3 DEF CodexExits, fixed
  <2> DEFINE q == CodexEvents(o)
  <2>3. /\ Fit(q)
        /\ IsAnnouncement(q[1].event) <=> (~sawFirst /\ ~o.malformed /\ o.started # "no")
    BY <2>2, CodexFits
  <2>4. Deliver(q)
    BY <2>1
  <2> HIDE DEF q
  <2>5. sawFirst' = (sawFirst \/ IsAnnouncement(q[1].event))
    BY <1>0, <2>1, <2>3
  <2> QED
    BY <2>2, <2>3, <2>4, <2>5
<1> QED
  BY <1>1, <1>2, <1>3

\* Where an event leaves the worker.
LEMMA DeliverEffect ==
  ASSUME Inductive, at = "reading", NEW q, Fit(q), Deliver(q), run' = run
  PROVE  LET e == q[1].event IN
         /\ e \in Event /\ e # "timed_out"
         /\ record' = IF q[1].pid = NoId THEN record ELSE [record EXCEPT !.pid = q[1].pid]
         /\ disk' = disk \/ (q[1].pid # NoId /\ disk' = [disk EXCEPT ![run] = record'])
         /\ denied' \in BOOLEAN /\ sinceEvent' = 0 /\ sinceTurn' \in {0, sinceTurn}
         /\ subtype' = subtype
         /\ attempts' \in 0..MaxRuns /\ attempts' <= run /\ scheduled' \in BOOLEAN
         /\ \/ /\ e \notin TurnEnd /\ queue' = Tail(q)
               /\ at' = at /\ attempts' = attempts /\ turns' = turns /\ terminal' = terminal
               /\ log' = Append(log, e) /\ escaped' = escaped
            \/ /\ e = "turn_completed" /\ queue' = <<>>
               /\ at' = "loop" /\ attempts' = attempts /\ turns' = turns + 1
               /\ terminal' = terminal
               /\ log' = Append(log, e) /\ escaped' = escaped
            \/ /\ e \in {"turn_failed", "turn_cancelled"} /\ queue' = <<>>
               /\ at' = "closing" /\ attempts' > 0 /\ turns' = turns + 1
               /\ terminal' = IF e = "turn_failed" THEN "failed" ELSE "cancelled"
               /\ log' = Append(log, e) /\ escaped' = escaped
            \/ /\ queue' = <<>>
               /\ at' = "closing" /\ attempts' = attempts /\ turns' = turns
               /\ terminal' = terminal
               /\ log' = log \/ log' = Append(log, e)
               /\ escaped' = TRUE
<1> DEFINE e == q[1].event
<1>1. q \in Seq(Yielded) /\ Head(q) = q[1] /\ q[1] \in Yielded /\ e # "timed_out"
  BY DEF Fit
<1>2. e \in Event /\ q[1].denied \in BOOLEAN
  BY <1>1 DEF Yielded
<1>3. TypeParts /\ Counted /\ attempts < run
  BY DEF Inductive, Counted
<1>4. /\ record' = IF q[1].pid = NoId THEN record ELSE [record EXCEPT !.pid = q[1].pid]
      /\ denied' = q[1].denied
  BY <1>1 DEF Deliver
<1>5. disk' = disk \/ (q[1].pid # NoId /\ disk' = [disk EXCEPT ![run] = record'])
  BY <1>1, <1>4 DEF Deliver
<1>6. CASE RecordingRaises(q)
  <2>1. /\ queue' = <<>> /\ at' = "closing" /\ attempts' = attempts /\ scheduled' = scheduled
        /\ turns' = turns /\ terminal' = terminal /\ subtype' = subtype
        /\ sinceEvent' = 0 /\ sinceTurn' = 0 /\ escaped' = TRUE
        /\ log' = log \/ log' = Append(log, e)
    BY <1>1, <1>6 DEF RecordingRaises, Escapes, retry
  <2> HIDE DEF e
  <2>2. attempts' \in 0..MaxRuns /\ attempts' <= run /\ scheduled' \in BOOLEAN
    BY <2>1, <1>3 DEF TypeParts, RunType, Counted
  <2> QED
    BY <2>1, <2>2, <1>1, <1>2, <1>4, <1>5 DEF e
<1>7. CASE Recorded(q) /\ e \notin TurnEnd
  <2>1. /\ queue' = Tail(q) /\ at' = at /\ attempts' = attempts /\ scheduled' = scheduled
        /\ turns' = turns /\ terminal' = terminal /\ subtype' = subtype
        /\ sinceEvent' = 0 /\ sinceTurn' = sinceTurn /\ escaped' = escaped
        /\ log' = Append(log, e)
    BY <1>1, <1>7 DEF Recorded, retry, verdict
  <2> HIDE DEF e
  <2>2. attempts' \in 0..MaxRuns /\ attempts' <= run /\ scheduled' \in BOOLEAN
    BY <2>1, <1>3 DEF TypeParts, RunType, Counted
  <2> QED
    BY <2>1, <2>2, <1>1, <1>2, <1>4, <1>5, <1>7 DEF e
<1>8. CASE Recorded(q) /\ e = "turn_completed"
  <2>1. /\ queue' = <<>> /\ at' = "loop" /\ attempts' = attempts /\ scheduled' = scheduled
        /\ turns' = turns + 1 /\ terminal' = terminal /\ subtype' = subtype
        /\ sinceEvent' = 0 /\ sinceTurn' = 0 /\ escaped' = escaped
        /\ log' = Append(log, e)
    BY <1>1, <1>8 DEF Recorded, retry, TurnEnd, EndTurn
  <2> HIDE DEF e
  <2>2. attempts' \in 0..MaxRuns /\ attempts' <= run /\ scheduled' \in BOOLEAN
    BY <2>1, <1>3 DEF TypeParts, RunType, Counted
  <2> QED
    BY <2>1, <2>2, <1>1, <1>2, <1>4, <1>5, <1>8 DEF e
<1>9. CASE Recorded(q) /\ e \in {"turn_failed", "turn_cancelled"}
  <2>1. /\ queue' = <<>> /\ at' = "closing" /\ turns' = turns + 1 /\ subtype' = subtype
        /\ terminal' = IF e = "turn_failed" THEN "failed" ELSE "cancelled"
        /\ \E r \in BOOLEAN : Failed(r)
        /\ sinceEvent' = 0 /\ sinceTurn' = 0 /\ escaped' = escaped
        /\ log' = Append(log, e)
    BY <1>1, <1>9 DEF Recorded, TurnEnd, EndTurn
  <2> HIDE DEF e
  <2>2. /\ attempts' \in 0..MaxRuns /\ attempts' <= run /\ attempts' > 0
        /\ scheduled' \in BOOLEAN
    BY <2>1, <1>3, FailedEffect
  <2> QED
    BY <2>1, <2>2, <1>1, <1>2, <1>4, <1>5, <1>9 DEF e
<1>10. Recorded(q) \/ RecordingRaises(q)
  BY DEF Deliver
<1> QED
  BY <1>2, <1>6, <1>7, <1>8, <1>9, <1>10 DEF TurnEnd

\* One more event in the log.
LEMMA LogGrows ==
  ASSUME TypeParts, NEW e \in Event, log' = Append(log, e)
  PROVE  /\ log' \in Seq(Event) /\ Len(log') = Len(log) + 1 /\ Len(log) \in Nat
         /\ log' # <<>> /\ log'[Len(log')] = e
         /\ DOMAIN log = 1..Len(log) /\ DOMAIN log' = 1..(Len(log) + 1)
         /\ \A n \in 1..Len(log) : log'[n] = log[n]
         /\ log'[Len(log) + 1] = e
  BY DEF TypeParts, StreamType

\* So there is an announcement more if it is one.
LEMMA AnnouncementsGrow ==
  ASSUME TypeParts, NEW e \in Event, log' = Append(log, e)
  PROVE  Announcements' = IF IsAnnouncement(e) THEN Announcements \cup {Len(log) + 1}
                          ELSE Announcements
<1>1. /\ Len(log) \in Nat
      /\ DOMAIN log = 1..Len(log) /\ DOMAIN log' = 1..(Len(log) + 1)
      /\ \A n \in 1..Len(log) : log'[n] = log[n]
      /\ log'[Len(log) + 1] = e
  BY LogGrows
<1> QED
  BY <1>1 DEF Announcements, IsAnnouncement

LEMMA StreamKeepsInductive ==
  ASSUME Inductive, ReadNext \/ Message \/ CodexExits
  PROVE  Inductive'
<1>1. /\ at = "reading"
      /\ UNCHANGED <<provider, policy, carry, run, thread, abandoned, stranded>>
      /\ \/ live' = live /\ (queue # <<>> \/ provider = "claude_code")
         \/ live' = live \ {run} /\ provider = "codex"
  BY StreamSteps
<1>2. PICK q : /\ Fit(q) /\ Deliver(q)
               /\ sawFirst' = (sawFirst \/ IsAnnouncement(q[1].event))
  BY StreamSteps
<1> DEFINE e == q[1].event
           id == q[1].pid
<1>3. /\ e \in Event /\ e # "timed_out"
      /\ record' = IF id = NoId THEN record ELSE [record EXCEPT !.pid = id]
      /\ disk' = disk \/ (id # NoId /\ disk' = [disk EXCEPT ![run] = record'])
      /\ denied' \in BOOLEAN /\ sinceEvent' = 0 /\ sinceTurn' \in {0, sinceTurn}
      /\ subtype' = subtype
      /\ attempts' \in 0..MaxRuns /\ attempts' <= run /\ scheduled' \in BOOLEAN
  BY <1>1, <1>2, DeliverEffect
<1>4. \/ /\ e \notin TurnEnd /\ queue' = Tail(q)
         /\ at' = at /\ attempts' = attempts /\ turns' = turns /\ terminal' = terminal
         /\ log' = Append(log, e) /\ escaped' = escaped
      \/ /\ e = "turn_completed" /\ queue' = <<>>
         /\ at' = "loop" /\ attempts' = attempts /\ turns' = turns + 1
         /\ terminal' = terminal
         /\ log' = Append(log, e) /\ escaped' = escaped
      \/ /\ e \in {"turn_failed", "turn_cancelled"} /\ queue' = <<>>
         /\ at' = "closing" /\ attempts' > 0 /\ turns' = turns + 1
         /\ terminal' = IF e = "turn_failed" THEN "failed" ELSE "cancelled"
         /\ log' = Append(log, e) /\ escaped' = escaped
      \/ /\ queue' = <<>>
         /\ at' = "closing" /\ attempts' = attempts /\ turns' = turns
         /\ terminal' = terminal
         /\ log' = log \/ log' = Append(log, e)
         /\ escaped' = TRUE
  BY <1>1, <1>2, DeliverEffect
<1>5. /\ q \in Seq(Yielded) /\ q # <<>>
      /\ id \in {NoId, run} /\ (id # NoId => IsAnnouncement(e))
      /\ IsAnnouncement(e) => ~sawFirst
      /\ provider = "claude_code" => IsAnnouncement(e) \/ Announcements # {}
      /\ e = "turn_completed" => Announcements # {}
      /\ \A n \in 1..Len(q) : q[n].event # "timed_out"
      /\ \A n \in 2..Len(q) :
           /\ ~IsAnnouncement(q[n].event) /\ q[n].pid = NoId
           /\ q[n].event = "turn_completed" => IsAnnouncement(e) \/ Announcements # {}
  BY <1>2 DEF Fit
<1>6. TypeParts /\ run \in Runs /\ attempts < run /\ turns < MaxTurns
  BY <1>1 DEF Inductive, Counted
<1> HIDE DEF e, id
<1>7. log' = log \/ log' = Append(log, e)
  BY <1>4
<1>8. /\ Tail(q) \in Seq(Yielded) /\ Len(Tail(q)) = Len(q) - 1
      /\ \A n \in 1..Len(Tail(q)) : Tail(q)[n] = q[n + 1] /\ n + 1 \in 2..Len(q)
      /\ Len(q) \in Nat
  BY <1>5
<1>9. TypeParts'
  <2>1. RunType'
    <3>1. turns' \in 0..MaxTurns
      BY <1>4, <1>6, Bounds DEF TypeParts, RunType
    <3>2. /\ at' \in At /\ terminal' \in Terminal /\ subtype' \in Subtype
          /\ provider' \in Providers /\ policy' \in Policies
      BY <1>1, <1>3, <1>4, <1>6 DEF TypeParts, RunType, At, Terminal
    <3>3. /\ sinceTurn' \in 0..TurnBudget /\ sinceEvent' \in 0..StallBudget
          /\ run' \in 0..MaxRuns
      BY <1>1, <1>3, <1>6, Bounds DEF TypeParts, RunType
    <3>4. live' \in SUBSET Runs /\ abandoned' \in SUBSET Runs /\ stranded' \in SUBSET Runs
      BY <1>1, <1>6 DEF TypeParts, RunType
    <3>5. escaped' = escaped \/ escaped' = TRUE
      BY <1>4
    <3>6. escaped \in BOOLEAN
      BY <1>6 DEF TypeParts, RunType
    <3>7. escaped' \in BOOLEAN
      BY <3>5, <3>6
    <3> QED
      BY <1>3, <3>1, <3>2, <3>3, <3>4, <3>7 DEF RunType
  <2>2. RecordType'
    <3>1. id \in Ids
      BY <1>5, <1>6, Bounds DEF Ids, Runs, NoId
    <3>2. record' \in SessionRecord
      BY <1>3, <1>6, <3>1 DEF TypeParts, RecordType, SessionRecord
    <3>3. disk' \in [Runs -> SessionRecord]
      BY <1>3, <1>6, <3>2 DEF TypeParts, RecordType
    <3> QED
      BY <1>1, <1>6, <3>2, <3>3 DEF TypeParts, RecordType
  <2>3. StreamType'
    <3>1. sawFirst' \in BOOLEAN
      BY <1>2, <1>6 DEF TypeParts, StreamType, IsAnnouncement
    <3>2. queue' = <<>> \/ queue' = Tail(q)
      BY <1>4
    <3>3. queue' \in Seq(Yielded)
      <4>1. <<>> \in Seq(Yielded)
        OBVIOUS
      <4> QED
        BY <3>2, <4>1, <1>8
    <3>4. log' \in Seq(Event)
      BY <1>3, <1>6, <1>7, LogGrows DEF TypeParts, StreamType
    <3> QED
      BY <1>3, <3>1, <3>3, <3>4 DEF StreamType
  <2> QED
    BY <2>1, <2>2, <2>3 DEF TypeParts
<1>10. Counted'
  BY <1>1, <1>3, <1>4, <1>6 DEF Counted
<1>11. Conversation'
  <2>1. /\ thread[run] = run /\ record.pid \in {NoId, run} /\ carry \in {{}, {PriorId}}
        /\ record.prev # {} => carry = {}
        /\ \A r \in Runs : thread[r] \in {NoId, r} /\ disk[r].pid \in {NoId, thread[r]}
        /\ record \in SessionRecord /\ disk \in [Runs -> SessionRecord]
    BY <1>1, <1>6 DEF Inductive, Conversation, TypeParts, RecordType
  <2>2. record'.pid \in {NoId, run} /\ record'.prev = record.prev
    BY <2>1, <1>3, <1>5 DEF SessionRecord
  <2>3. \A r \in Runs : disk'[r].pid \in {NoId, thread[r]}
    BY <2>1, <2>2, <1>3, <1>6
  <2> QED
    BY <2>1, <2>2, <2>3, <1>1 DEF Conversation
<1>12. CodexLeft' /\ ProcessesAccountedFor'
  <2>1. /\ live \subseteq abandoned \cup stranded \cup {run}
        /\ abandoned # {} => provider = "codex"
        /\ stranded # {} => provider = "claude_code"
        /\ provider = "codex" /\ queue # <<>> => live \subseteq abandoned
        /\ provider \in Provider
    BY <1>1, <1>6, Bounds DEF Inductive, CodexLeft, ProcessesAccountedFor, Current,
       TypeParts, RunType, Unsettled, Over
  <2>2. provider = "codex" => live' \subseteq abandoned
    BY <2>1, <1>1
  <2>3. at' \notin {"idle", "ended"} /\ live' \subseteq abandoned \cup stranded \cup {run}
    BY <2>1, <1>1, <1>4
  <2> QED
    BY <2>1, <2>2, <2>3, <1>1 DEF CodexLeft, ProcessesAccountedFor, Current
<1>13. ASSUME log' = log
       PROVE  QueueOfTheTurn' /\ Unsettled' /\ VerdictMatchesEvents' /\ Greeted'
  <2>1. \A x : Append(log, x) # log
    <3>1. log \in Seq(Event)
      BY <1>6 DEF TypeParts, StreamType
    <3> QED
      BY <3>1
  <2>2. at' = "closing" /\ queue' = <<>> /\ escaped' = TRUE /\ terminal' = terminal
    BY <1>4, <1>13, <2>1
  <2>3. terminal = "none" /\ Announcements' = Announcements
    BY <1>1, <1>13 DEF Inductive, Unsettled, Announcements
  <2>4. QueueOfTheTurn' /\ Unsettled'
    BY <2>2 DEF QueueOfTheTurn, Unsettled, Over
  <2>5. VerdictMatchesEvents'
    BY <2>2, <2>3, <1>1, <1>13 DEF Inductive, VerdictMatchesEvents, Over
  <2>6. ~sawFirst' => ~sawFirst
    BY <1>2
  <2>7. Greeted'
    BY <2>2, <2>3, <2>6, <1>1, <1>13 DEF Inductive, Greeted, AnnouncedFirst
  <2> QED
    BY <2>4, <2>5, <2>7
<1>14. ASSUME log' = Append(log, e)
       PROVE  QueueOfTheTurn' /\ Unsettled' /\ VerdictMatchesEvents' /\ Greeted'
  <2>1. /\ log' \in Seq(Event) /\ Len(log') = Len(log) + 1 /\ Len(log) \in Nat
        /\ log' # <<>> /\ log'[Len(log')] = e
        /\ DOMAIN log = 1..Len(log) /\ DOMAIN log' = 1..(Len(log) + 1)
        /\ \A n \in 1..Len(log) : log'[n] = log[n]
        /\ log'[Len(log) + 1] = e
    BY <1>14, <1>3, <1>6, LogGrows
  <2>2. Announcements' = IF IsAnnouncement(e) THEN Announcements \cup {Len(log) + 1}
                         ELSE Announcements
    BY <1>14, <1>3, <1>6, AnnouncementsGrow
  <2>3. QueueOfTheTurn'
    <3>1. provider' = "claude_code" => Announcements' # {}
      BY <1>1, <1>5, <2>2
    <3>2. CASE queue' = <<>>
      BY <3>2, <1>4, <1>1 DEF QueueOfTheTurn
    <3>3. CASE queue' = Tail(q) /\ at' = at
      <4>1. \A n \in 1..Len(queue') :
               /\ queue'[n].event # "timed_out" /\ ~IsAnnouncement(queue'[n].event)
               /\ queue'[n].pid = NoId
               /\ queue'[n].event = "turn_completed" => Announcements' # {}
        <5>1. IsAnnouncement(e) \/ Announcements # {} => Announcements' # {}
          BY <2>2
        <5> SUFFICES ASSUME NEW n \in 1..Len(queue')
                     PROVE  LET x == queue'[n] IN
                            /\ x.event # "timed_out" /\ ~IsAnnouncement(x.event)
                            /\ x.pid = NoId
                            /\ x.event = "turn_completed" => Announcements' # {}
          OBVIOUS
        <5>2. queue'[n] = q[n + 1] /\ n + 1 \in 2..Len(q) /\ n + 1 \in 1..Len(q)
          BY <3>3, <1>8
        <5> QED
          BY <5>1, <5>2, <1>5
      <4> QED
        BY <4>1, <3>1, <3>3, <1>1 DEF QueueOfTheTurn
    <3> QED
      BY <3>2, <3>3, <1>4
  <2>4. Unsettled'
    <3>1. terminal = "none" /\ subtype = "none" /\ ~escaped
      BY <1>1 DEF Inductive, Unsettled, Over
    <3> QED
      BY <3>1, <1>1, <1>3, <1>4, <2>1 DEF Unsettled, TurnEnd, Over
  <2>5. VerdictMatchesEvents'
    <3>1. \A n \in 1..Len(log) : log[n] \notin EndsTheRun
      BY <1>1, <2>1 DEF Inductive, VerdictMatchesEvents, Over
    <3>2. \A n \in DOMAIN log' : log'[n] \in EndsTheRun =>
             n = Len(log') /\ at' \in Over
      <4> SUFFICES ASSUME NEW n \in DOMAIN log', log'[n] \in EndsTheRun
                   PROVE  n = Len(log') /\ at' \in Over
        OBVIOUS
      <4>1. n = Len(log) + 1
        BY <3>1, <2>1
      <4> QED
        BY <4>1, <1>3, <1>4, <2>1 DEF EndsTheRun, TurnEnd, Over
    <3>3. subtype' = "none" /\ terminal = "none" /\ escaped = FALSE
      BY <1>1, <1>3, <1>6 DEF Inductive, Unsettled, Over, TypeParts, RunType
    <3> QED
      BY <3>2, <3>3, <1>1, <1>4, <2>1 DEF VerdictMatchesEvents, TurnEnd, Over
  <2>6. Greeted'
    <3>1. /\ \A m, n \in Announcements : m = n
          /\ \A n \in 1..Len(log) :
               /\ log[n] = "turn_completed" => \E m \in Announcements : m < n
               /\ (provider = "claude_code" /\ log[n] # "timed_out") => 1 \in Announcements
          /\ ~sawFirst => Announcements = {}
          /\ sawFirst \/ record.pid # NoId => Announcements # {}
      BY <1>1, <2>1 DEF Inductive, Greeted, AnnouncedFirst
    <3>2. Announcements \subseteq 1..Len(log)
      BY <2>1 DEF Announcements
    <3>3. \A m, n \in Announcements' : m = n
      BY <3>1, <1>5, <2>2
    <3>4. \A n \in DOMAIN log' : log'[n] = "turn_completed" =>
            \E m \in Announcements' : m < n
      <4> SUFFICES ASSUME NEW n \in DOMAIN log', log'[n] = "turn_completed"
                   PROVE  \E m \in Announcements' : m < n
        OBVIOUS
      <4>1. CASE n \in 1..Len(log)
        BY <4>1, <3>1, <2>1, <2>2
      <4>2. CASE n = Len(log) + 1
        <5>1. e = "turn_completed"
          BY <4>2, <2>1
        <5>2. PICK m \in Announcements : TRUE
          BY <5>1, <1>5
        <5> QED
          BY <5>2, <4>2, <3>2, <2>1, <2>2
      <4> QED
        BY <4>1, <4>2, <2>1
    <3>5. provider' = "claude_code" => 1 \in Announcements'
      <4> SUFFICES ASSUME provider = "claude_code"
                   PROVE  1 \in Announcements'
        BY <1>1
      <4>1. CASE IsAnnouncement(e)
        <5>1. Announcements = {}
          BY <4>1, <3>1, <1>5
        <5>2. \A n \in 1..Len(log) : log[n] = "timed_out"
          BY <5>1, <3>1
        <5>3. \A n \in 1..Len(log) : log[n] # "timed_out"
          BY <1>1, <2>1 DEF Inductive, VerdictMatchesEvents, EndsTheRun, Over
        <5>4. Len(log) = 0
          BY <5>2, <5>3, <2>1
        <5> QED
          BY <5>4, <4>1, <2>2
      <4>2. CASE ~IsAnnouncement(e)
        <5>1. PICK m \in Announcements : TRUE
          BY <4>2, <1>5
        <5>2. m \in 1..Len(log) /\ log[m] # "timed_out"
          BY <5>1, <2>1 DEF Announcements
        <5>3. 1 \in Announcements
          BY <5>2, <3>1
        <5> QED
          BY <5>3, <4>2, <2>2
      <4> QED
        BY <4>1, <4>2
    <3>6. AnnouncedFirst'
      BY <3>3, <3>4, <3>5 DEF AnnouncedFirst
    <3>7. sawFirst' \/ record'.pid # NoId => Announcements' # {}
      <4>1. record'.pid # NoId => record.pid # NoId \/ IsAnnouncement(e)
        BY <1>3, <1>5
      <4> QED
        BY <4>1, <3>1, <1>2, <2>2 DEF e
    <3>8. ~sawFirst' => Announcements' = {}
      BY <3>1, <1>2, <2>2 DEF e
    <3> QED
      BY <3>6, <3>7, <3>8 DEF Greeted
  <2> QED
    BY <2>3, <2>4, <2>5, <2>6
<1> QED
  BY <1>7, <1>9, <1>10, <1>11, <1>12, <1>13, <1>14 DEF Inductive

----------------------------------------------------------------------------
(* The other steps.  What most of them leave alone is stated once.         *)

\* Nothing is said, and no run begins.
LEMMA GreetedAside ==
  ASSUME Inductive, UNCHANGED <<provider, log, sawFirst, record>>,
         at' \in {"loop", "reading"} => at \in {"loop", "reading"}
  PROVE  Greeted'
<1>1. Announcements' = Announcements
  BY DEF Announcements
<1> QED
  BY <1>1 DEF Inductive, Greeted, AnnouncedFirst

\* Nothing is made ready: what there is stays or is dropped.
LEMMA QueueAside ==
  ASSUME Inductive, UNCHANGED <<provider, log>>,
         queue' = <<>> \/ (queue' = queue /\ at' = at)
  PROVE  QueueOfTheTurn'
<1>1. Announcements' = Announcements
  BY DEF Announcements
<1> QED
  BY <1>1 DEF Inductive, QueueOfTheTurn

\* The conversation is not touched.
LEMMA ConversationAside ==
  ASSUME Inductive, UNCHANGED <<carry, record, disk, thread, run>>,
         at = "idle" => at' = "idle"
  PROVE  Conversation'
  BY DEF Inductive, Conversation

\* Neither processes nor the place of the worker as far as they are concerned.
LEMMA ProcessesAside ==
  ASSUME Inductive, UNCHANGED <<provider, live, abandoned, stranded, run, escaped>>,
         at \in {"idle", "ended"} <=> at' \in {"idle", "ended"},
         at' = "ended" => at = "ended", at' = "idle" => at = "idle",
         at' = "reading" => at = "reading" /\ queue' = queue,
         ~(at = "reading" /\ queue = <<>> /\ provider = "codex") \/ (at' = at /\ queue' = queue)
  PROVE  CodexLeft' /\ ProcessesAccountedFor'
  BY DEF Inductive, CodexLeft, ProcessesAccountedFor, Current

\* The log of a run in progress has no event in it that ends the run.
LEMMA NothingEnded ==
  ASSUME Inductive, at \in {"idle", "loop", "reading", "stopping"}
  PROVE  /\ \A n \in DOMAIN log : log[n] \notin EndsTheRun
         /\ terminal = "none" /\ escaped = FALSE
  BY DEF Inductive, VerdictMatchesEvents, Unsettled, Over, TypeParts, RunType

\* A run still in progress afterwards.
LEMMA VerdictOpen ==
  ASSUME Inductive, log' = log, escaped' = escaped, at' \notin Over,
         at \in {"idle", "loop", "reading", "stopping"}
  PROVE  VerdictMatchesEvents'
  BY NothingEnded DEF VerdictMatchesEvents

\* A run whose end no event has announced.
LEMMA VerdictUnannounced ==
  ASSUME Inductive, log' = log, escaped' = escaped, at \in {"loop", "reading"},
         at' = "closing",
         subtype' = "none", attempts' > 0, terminal' \in {"failed", "crashed"}
  PROVE  VerdictMatchesEvents'
<1>1. log \in Seq(Event)
  BY DEF Inductive, TypeParts, StreamType
<1>2. log = <<>> \/ Len(log) \in DOMAIN log
  BY <1>1
<1>3. log # <<>> => log[Len(log)] \notin EndsTheRun
  BY <1>2, NothingEnded
<1> QED
  BY <1>3, NothingEnded DEF VerdictMatchesEvents, EndsTheRun

\* What opening a session makes of the records and the processes.
LEMMA OpenEffect ==
  ASSUME Inductive, at = "idle", run < MaxRuns, SessionOpens
  PROVE  /\ run + 1 \in Runs /\ run \in 0..MaxRuns /\ provider \in Provider
         /\ record' = [pid |-> NoId, attempt |-> attempts + 1, prev |-> record'.prev]
         /\ record'.prev # {} => carry' = {}
         /\ carry' \in {{}, {PriorId}}
         /\ thread' = [thread EXCEPT ![run + 1] = run + 1]
         /\ live' = IF provider = "claude_code" THEN live \cup {run + 1} ELSE live
         /\ RecordType'
         /\ \A r \in Runs : thread'[r] \in {NoId, r} /\ disk'[r].pid \in {NoId, thread'[r]}
<1>0. TypeParts /\ run \in 0..MaxRuns /\ attempts \in 0..MaxRuns /\ provider \in Provider
  BY Bounds DEF Inductive, TypeParts, RunType
<1>1. PICK outcome \in Outcomes : OpenFresh(outcome)
  <2>1. PICK outcome \in Outcomes : IF outcome = "restored" THEN OpenRestored
                                    ELSE OpenFresh(outcome)
    BY DEF SessionOpens
  <2> QED
    BY <2>1, NothingIsRestored
<1>2. live' = IF provider = "claude_code" THEN live \cup {run + 1} ELSE live
  BY DEF SessionOpens
<1>3. /\ carry \in {{}, {PriorId}}
      /\ \A r \in Runs : thread[r] \in {NoId, r} /\ disk[r].pid \in {NoId, thread[r]}
  BY DEF Inductive, Conversation
<1>4. run + 1 \in Runs
  BY <1>0, Bounds DEF Runs
<1>5. /\ record' = [pid |-> NoId, attempt |-> attempts + 1, prev |-> record'.prev]
      /\ thread' = [thread EXCEPT ![run + 1] = run + 1]
      /\ record'.prev # {} => carry' = {}
      /\ record'.prev \in {{}, {PriorId}} /\ carry' \in {{}, {PriorId}}
  <2>1. /\ record' = [pid |-> NoId, attempt |-> attempts + 1,
                      prev |-> IF outcome = "first" THEN carry ELSE {}]
        /\ thread' = [thread EXCEPT ![run + 1] = run + 1]
        /\ carry' = IF outcome = "first" THEN {} ELSE carry
    BY <1>1, NothingIsRestored DEF OpenFresh, Attempt
  <2> QED
    BY <2>1, <1>3
<1>6. disk' = disk \/ disk' = [disk EXCEPT ![run + 1] = [NoRecord EXCEPT !.attempt = 1]]
  BY <1>1 DEF OpenFresh
<1>7. RecordType'
  <2>2. record' \in SessionRecord /\ PriorId \in Ids /\ NoId \in Ids
    BY <1>0, <1>5, Bounds DEF SessionRecord, Ids, NoId, PriorId
  <2>3. [NoRecord EXCEPT !.attempt = 1] \in SessionRecord
    BY <2>2 DEF NoRecord, SessionRecord
  <2>4. disk' \in [Runs -> SessionRecord]
    BY <1>0, <1>6, <2>3 DEF TypeParts, RecordType
  <2>5. run + 1 \in Ids
    BY <1>4, Bounds DEF Ids, Runs
  <2>6. thread' \in [Runs -> Ids] /\ carry' \in SUBSET Ids
    BY <1>0, <1>5, <2>2, <2>5 DEF TypeParts, RecordType
  <2> QED
    BY <2>2, <2>4, <2>6 DEF RecordType
<1>8. \A r \in Runs : thread'[r] \in {NoId, r} /\ disk'[r].pid \in {NoId, thread'[r]}
  <2>1. [NoRecord EXCEPT !.attempt = 1].pid = NoId
    BY DEF NoRecord
  <2>2. /\ thread'[run + 1] = run + 1
        /\ \A r \in Runs : r # run + 1 => thread'[r] = thread[r]
    BY <1>0, <1>4, <1>5 DEF TypeParts, RecordType
  <2>3. \A r \in Runs : disk'[r].pid = NoId \/ disk'[r].pid = disk[r].pid
    BY <2>1, <1>0, <1>4, <1>6 DEF TypeParts, RecordType
  <2> SUFFICES ASSUME NEW r \in Runs
               PROVE  thread'[r] \in {NoId, r} /\ disk'[r].pid \in {NoId, thread'[r]}
    OBVIOUS
  <2>4. CASE r = run + 1
    BY <2>2, <2>3, <2>4, <1>3
  <2>5. CASE r # run + 1
    BY <2>2, <2>3, <2>5, <1>3
  <2> QED
    BY <2>4, <2>5
<1> QED
  BY <1>0, <1>2, <1>4, <1>5, <1>7, <1>8

LEMMA OpenKeepsInductive ==
  ASSUME Inductive, Open
  PROVE  Inductive'
<1>0. TypeParts /\ at = "idle" /\ run < MaxRuns /\ run \in 0..MaxRuns /\ attempts <= run
  BY DEF Inductive, Counted, TypeParts, RunType, Open
<1>1. /\ run + 1 \in Runs /\ provider \in Provider
      /\ record' = [pid |-> NoId, attempt |-> attempts + 1, prev |-> record'.prev]
      /\ record'.prev # {} => carry' = {}
      /\ carry' \in {{}, {PriorId}}
      /\ thread' = [thread EXCEPT ![run + 1] = run + 1]
      /\ live' = IF provider = "claude_code" THEN live \cup {run + 1} ELSE live
      /\ RecordType'
      /\ \A r \in Runs : thread'[r] \in {NoId, r} /\ disk'[r].pid \in {NoId, thread'[r]}
  BY <1>0, OpenEffect DEF Open
<1>2. /\ run' = run + 1 /\ at' = "loop" /\ sawFirst' = FALSE
      /\ UNCHANGED <<provider, policy, attempts, scheduled, queue, log, denied, turns,
                     terminal, subtype, sinceTurn, sinceEvent, escaped, abandoned, stranded>>
  BY DEF Open, fixed, retry, stream, verdict, clock
<1>3. /\ queue = <<>> /\ log = <<>> /\ turns = 0 /\ terminal = "none" /\ subtype = "none"
      /\ live \subseteq abandoned \cup stranded /\ (abandoned # {} => provider = "codex")
      /\ (stranded # {} => provider = "claude_code") /\ ~escaped
  BY <1>0 DEF Inductive, QueueOfTheTurn, Unsettled, ProcessesAccountedFor, Current, Over
<1>4. TypeParts'
  <2>1. RunType'
    <3>1. live' \in SUBSET Runs /\ run' \in 0..MaxRuns
      BY <1>0, <1>1, <1>2, Bounds DEF TypeParts, RunType, Runs
    <3> QED
      BY <3>1, <1>0, <1>2 DEF TypeParts, RunType, At
  <2>2. StreamType'
    BY <1>0, <1>2 DEF TypeParts, StreamType
  <2> QED
    BY <2>1, <2>2, <1>1 DEF TypeParts
<1>5. Counted'
  BY <1>0, <1>1, <1>2 DEF Counted, TypeParts, RunType
<1>6. QueueOfTheTurn' /\ VerdictMatchesEvents' /\ Unsettled'
  BY <1>0, <1>2, <1>3, QueueAside, VerdictOpen DEF Unsettled, Over
<1>7. Conversation'
  <2>1. thread'[run + 1] = run + 1
    BY <1>0, <1>1 DEF TypeParts, RecordType
  <2> QED
    BY <2>1, <1>1, <1>2 DEF Conversation
<1>8. CodexLeft' /\ ProcessesAccountedFor'
  BY <1>1, <1>2, <1>3 DEF CodexLeft, ProcessesAccountedFor, Current
<1>9. Greeted'
  <2>1. DOMAIN log' = {}
    BY <1>2, <1>3
  <2>2. Announcements' = {}
    BY <2>1 DEF Announcements
  <2> QED
    BY <2>1, <2>2, <1>1, <1>2 DEF Greeted, AnnouncedFirst
<1> QED
  BY <1>4, <1>5, <1>6, <1>7, <1>8, <1>9 DEF Inductive

LEMMA OpenFailsLateKeepsInductive ==
  ASSUME Inductive, OpenFailsLate
  PROVE  Inductive'
<1>0. TypeParts /\ at = "idle" /\ run < MaxRuns /\ run \in 0..MaxRuns
      /\ attempts \in 0..MaxRuns /\ attempts <= run
  BY DEF Inductive, Counted, TypeParts, RunType, OpenFailsLate
<1>1. /\ run + 1 \in Runs /\ provider \in Provider
      /\ record'.prev # {} => carry' = {}
      /\ carry' \in {{}, {PriorId}}
      /\ live' = IF provider = "claude_code" THEN live \cup {run + 1} ELSE live
      /\ RecordType'
      /\ \A r \in Runs : thread'[r] \in {NoId, r} /\ disk'[r].pid \in {NoId, thread'[r]}
  BY <1>0, OpenEffect DEF OpenFailsLate
<1>2. /\ run' = run + 1
      /\ attempts' = attempts + 1 /\ scheduled' \in BOOLEAN
      /\ stranded' = IF provider = "claude_code" THEN stranded \cup {run + 1} ELSE stranded
      /\ UNCHANGED <<provider, policy, at, sawFirst, queue, log, denied, turns, terminal,
                     subtype, sinceTurn, sinceEvent, escaped, abandoned>>
  BY DEF OpenFailsLate, Failed, fixed, stream, verdict, clock
<1>3. TypeParts'
  <2>1. RunType'
    <3>1. live' \in SUBSET Runs /\ stranded' \in SUBSET Runs
      BY <1>0, <1>1, <1>2 DEF TypeParts, RunType
    <3>2. run' \in 0..MaxRuns /\ attempts' \in 0..MaxRuns
      BY <1>0, <1>2, Bounds
    <3> QED
      BY <3>1, <3>2, <1>0, <1>2 DEF TypeParts, RunType
  <2>2. StreamType'
    BY <1>0, <1>2 DEF TypeParts, StreamType
  <2> QED
    BY <2>1, <2>2, <1>1 DEF TypeParts
<1>4. Counted'
  BY <1>0, <1>2 DEF Counted
<1>5. QueueOfTheTurn' /\ VerdictMatchesEvents'
  BY <1>0, <1>2, QueueAside, VerdictOpen DEF Over
<1>6. Conversation'
  BY <1>0, <1>1, <1>2 DEF Conversation
<1>7. CodexLeft' /\ ProcessesAccountedFor' /\ Unsettled'
  BY <1>0, <1>1, <1>2 DEF Inductive, CodexLeft, ProcessesAccountedFor, Current, Unsettled, Provider
<1>8. Greeted'
  <2>1. Announcements' = Announcements
    BY <1>2 DEF Announcements
  <2> QED
    BY <2>1, <1>0, <1>2 DEF Inductive, Greeted, AnnouncedFirst
<1> QED
  BY <1>3, <1>4, <1>5, <1>6, <1>7, <1>8 DEF Inductive

LEMMA OpenFailsKeepsInductive ==
  ASSUME Inductive, OpenFails
  PROVE  Inductive'
<1>0. TypeParts /\ at = "idle" /\ run < MaxRuns /\ run \in 0..MaxRuns
      /\ attempts \in 0..MaxRuns /\ attempts <= run
  BY DEF Inductive, Counted, TypeParts, RunType, OpenFails
<1>1. /\ run' = run + 1
      /\ UNCHANGED <<provider, policy, carry, at, record, disk, thread, sawFirst, queue, log,
                     denied, turns, terminal, subtype, sinceTurn, sinceEvent, escaped, live,
                     abandoned, stranded>>
  BY DEF OpenFails, fixed, records, stream, verdict, clock, procs
<1>2. attempts' = attempts + 1 /\ scheduled' \in BOOLEAN
  BY DEF OpenFails, Failed
<1>3. TypeParts'
  BY <1>0, <1>1, <1>2, Bounds DEF TypeParts, RunType, RecordType, StreamType
<1>4. Counted'
  BY <1>0, <1>1, <1>2 DEF Counted
<1>5. QueueOfTheTurn' /\ VerdictMatchesEvents' /\ Greeted'
  BY <1>0, <1>1, QueueAside, VerdictOpen, GreetedAside DEF Over
<1>6. Conversation'
  BY <1>0, <1>1 DEF Inductive, Conversation
<1>7. CodexLeft' /\ ProcessesAccountedFor' /\ Unsettled'
  BY <1>0, <1>1 DEF Inductive, CodexLeft, ProcessesAccountedFor, Current, Unsettled
<1> QED
  BY <1>3, <1>4, <1>5, <1>6, <1>7 DEF Inductive

LEMMA TurnsKeepInductive ==
  ASSUME Inductive, NextTurn \/ StopTurns
  PROVE  Inductive'
<1>0. /\ TypeParts /\ at = "loop" /\ run \in Runs /\ queue = <<>> /\ attempts < run
      /\ log \in Seq(Event) /\ terminal = "none" /\ subtype = "none"
  BY DEF Inductive, Counted, TypeParts, StreamType, NextTurn, StopTurns, QueueOfTheTurn,
     Unsettled
<1>1. CASE NextTurn
  <2>1. /\ at' = "reading" /\ queue' = <<>> /\ sinceTurn' = 0 /\ sinceEvent' = 0
        /\ live' = live \cup {run} /\ turns < MaxTurns
        /\ UNCHANGED <<provider, policy, carry, run, attempts, scheduled, record, disk, thread,
                       sawFirst, log, denied, turns, terminal, subtype, escaped, abandoned,
                       stranded>>
    BY <1>1 DEF NextTurn, fixed, retry, records, verdict
  <2>2. TypeParts'
    <3>1. RunType'
      BY <1>0, <2>1, Bounds DEF TypeParts, RunType, At
    <3>2. RecordType'
      BY <1>0, <2>1 DEF TypeParts, RecordType
    <3>3. StreamType'
      BY <1>0, <2>1 DEF TypeParts, StreamType
    <3> QED
      BY <3>1, <3>2, <3>3 DEF TypeParts
  <2>3. Counted' /\ Unsettled'
    BY <1>0, <2>1 DEF Inductive, Counted, Unsettled, Over
  <2>4. QueueOfTheTurn' /\ VerdictMatchesEvents' /\ Greeted' /\ Conversation'
    BY <1>0, <2>1, QueueAside, VerdictOpen, GreetedAside, ConversationAside DEF Over
  <2>5. CodexLeft' /\ ProcessesAccountedFor'
    BY <1>0, <2>1 DEF Inductive, CodexLeft, ProcessesAccountedFor, Current
  <2> QED
    BY <2>2, <2>3, <2>4, <2>5 DEF Inductive
<1>2. CASE StopTurns
  <2>1. /\ at' = "closing" /\ terminal' = "completed" /\ turns > 0
        /\ UNCHANGED <<provider, policy, carry, run, attempts, scheduled, record, disk, thread,
                       sawFirst, queue, log, denied, turns, subtype, sinceTurn, sinceEvent,
                       escaped, live, abandoned, stranded>>
    BY <1>2 DEF StopTurns, fixed, retry, records, stream, clock, procs
  <2>2. TypeParts'
    <3>1. RunType'
      BY <1>0, <2>1 DEF TypeParts, RunType, At, Terminal
    <3>2. RecordType' /\ StreamType'
      BY <1>0, <2>1 DEF TypeParts, RecordType, StreamType
    <3> QED
      BY <3>1, <3>2 DEF TypeParts
  <2>3. Counted' /\ Unsettled'
    BY <1>0, <2>1 DEF Inductive, Counted, Unsettled, Over
  <2>4. QueueOfTheTurn' /\ Greeted' /\ Conversation'
    BY <1>0, <2>1, QueueAside, GreetedAside, ConversationAside
  <2>5. CodexLeft' /\ ProcessesAccountedFor'
    BY <1>0, <2>1, ProcessesAside
  <2>6. VerdictMatchesEvents'
    <3>1. log # <<>> /\ log[Len(log)] = "turn_completed"
      BY <1>0, <2>1 DEF Inductive, Unsettled
    <3> QED
      BY <3>1, <1>0, <2>1, NothingEnded DEF VerdictMatchesEvents, Over
  <2> QED
    BY <2>2, <2>3, <2>4, <2>5, <2>6 DEF Inductive
<1> QED
  BY <1>1, <1>2

LEMMA StreamBreaksKeepsInductive ==
  ASSUME Inductive, StreamEnds \/ StreamRaises
  PROVE  Inductive'
<1>0. /\ TypeParts /\ Counted /\ at = "reading" /\ run \in Runs /\ queue = <<>>
      /\ provider = "claude_code" /\ attempts < run /\ turns < MaxTurns /\ subtype = "none"
  BY DEF Inductive, Counted, StreamEnds, StreamRaises, Unsettled
<1>1. /\ at' = "closing" /\ terminal' \in {"failed", "crashed"}
      /\ turns' = turns \/ turns' = turns + 1
      /\ \E r \in BOOLEAN : Failed(r)
      /\ UNCHANGED <<provider, policy, carry, run, record, disk, thread, sawFirst, queue, log,
                     denied, subtype, sinceTurn, sinceEvent, escaped, live, abandoned,
                     stranded>>
  BY DEF StreamEnds, StreamRaises, fixed, records, stream, clock, procs
<1>2. attempts' \in 0..MaxRuns /\ attempts' <= run /\ attempts' > 0 /\ scheduled' \in BOOLEAN
  BY <1>0, <1>1, FailedEffect
<1>3. TypeParts'
  <2>1. turns' \in 0..MaxTurns
    BY <1>0, <1>1, Bounds DEF TypeParts, RunType
  <2>2. RunType'
    BY <2>1, <1>0, <1>1, <1>2 DEF TypeParts, RunType, At, Terminal
  <2>3. RecordType' /\ StreamType'
    BY <1>0, <1>1 DEF TypeParts, RecordType, StreamType
  <2> QED
    BY <2>2, <2>3 DEF TypeParts
<1>4. Counted' /\ Unsettled'
  BY <1>0, <1>1, <1>2 DEF Counted, Unsettled, Over
<1>5. QueueOfTheTurn' /\ Greeted' /\ Conversation'
  BY <1>0, <1>1, QueueAside, GreetedAside, ConversationAside
<1>6. VerdictMatchesEvents'
  BY <1>0, <1>1, <1>2, VerdictUnannounced
<1>7. CodexLeft' /\ ProcessesAccountedFor'
  BY <1>0, <1>1 DEF Inductive, CodexLeft, ProcessesAccountedFor, Current
<1> QED
  BY <1>3, <1>4, <1>5, <1>6, <1>7 DEF Inductive

LEMMA BudgetsKeepInductive ==
  ASSUME Inductive, TimePasses \/ TimesOut
  PROVE  Inductive'
<1>0. /\ TypeParts /\ at = "reading" /\ run \in Runs /\ attempts < run
      /\ turns < MaxTurns /\ terminal = "none" /\ subtype = "none"
  BY DEF Inductive, Counted, TimePasses, TimesOut, Unsettled
<1>1. CASE TimePasses
  <2>1. /\ sinceTurn' = sinceTurn + 1 /\ sinceEvent' = sinceEvent + 1
        /\ sinceTurn < TurnBudget /\ sinceEvent < StallBudget
        /\ UNCHANGED <<provider, policy, carry, at, run, attempts, scheduled, record, disk,
                       thread, sawFirst, queue, log, denied, turns, terminal, subtype, escaped,
                       live, abandoned, stranded>>
    <3>1. sinceTurn \in Int /\ sinceEvent \in Int /\ TurnBudget \in Int /\ StallBudget \in Int
      BY <1>0, Bounds DEF TypeParts, RunType
    <3> QED
      BY <3>1, <1>1 DEF TimePasses, TurnOver, Stalled, fixed, retry, records, stream, verdict,
         procs
  <2>2. TypeParts'
    <3>1. sinceTurn' \in 0..TurnBudget /\ sinceEvent' \in 0..StallBudget
      BY <1>0, <2>1, Bounds DEF TypeParts, RunType
    <3>2. RunType'
      BY <3>1, <1>0, <2>1 DEF TypeParts, RunType
    <3>3. RecordType' /\ StreamType'
      BY <1>0, <2>1 DEF TypeParts, RecordType, StreamType
    <3> QED
      BY <3>2, <3>3 DEF TypeParts
  <2>3. Counted' /\ Unsettled'
    BY <1>0, <2>1 DEF Inductive, Counted, Unsettled, Over
  <2>4. QueueOfTheTurn' /\ VerdictMatchesEvents' /\ Greeted' /\ Conversation'
    BY <1>0, <2>1, QueueAside, VerdictOpen, GreetedAside, ConversationAside DEF Over
  <2>5. CodexLeft' /\ ProcessesAccountedFor'
    BY <1>0, <2>1, ProcessesAside
  <2> QED
    BY <2>2, <2>3, <2>4, <2>5 DEF Inductive
<1>2. CASE TimesOut
  <2>1. /\ at' = "stopping" /\ queue' = <<>>
        /\ subtype' \in {"turn_timeout", "stall_timeout"}
        /\ abandoned' = IF provider = "codex" /\ run \in live THEN abandoned \cup {run}
                        ELSE abandoned
        /\ UNCHANGED <<provider, policy, carry, run, attempts, scheduled, record, disk, thread,
                       sawFirst, log, denied, turns, terminal, sinceTurn, sinceEvent, escaped,
                       live, stranded>>
    BY <1>2 DEF TimesOut, fixed, retry, records, clock
  <2>2. TypeParts'
    <3>1. RunType'
      BY <1>0, <2>1 DEF TypeParts, RunType, At, Subtype
    <3>2. RecordType'
      BY <1>0, <2>1 DEF TypeParts, RecordType
    <3>3. StreamType'
      BY <1>0, <2>1 DEF TypeParts, StreamType
    <3> QED
      BY <3>1, <3>2, <3>3 DEF TypeParts
  <2>3. Counted' /\ Unsettled'
    BY <1>0, <2>1 DEF Inductive, Counted, Unsettled, Over
  <2>4. QueueOfTheTurn' /\ VerdictMatchesEvents' /\ Greeted' /\ Conversation'
    BY <1>0, <2>1, QueueAside, VerdictOpen, GreetedAside, ConversationAside DEF Over
  <2>5. CodexLeft' /\ ProcessesAccountedFor'
    BY <1>0, <2>1 DEF Inductive, CodexLeft, ProcessesAccountedFor, Current
  <2> QED
    BY <2>2, <2>3, <2>4, <2>5 DEF Inductive
<1> QED
  BY <1>1, <1>2

LEMMA InterruptedKeepsInductive ==
  ASSUME Inductive, Interrupted
  PROVE  Inductive'
<1>0. /\ TypeParts /\ Counted /\ at = "stopping" /\ run \in Runs /\ attempts < run
      /\ turns < MaxTurns /\ subtype # "none"
  BY DEF Inductive, Counted, Interrupted, Unsettled
<1>1. /\ at' = "closing" /\ terminal' = "cancelled" /\ turns' = turns + 1
      /\ log' = Append(log, "timed_out") /\ denied' = FALSE /\ Failed(TRUE)
      /\ UNCHANGED <<provider, policy, carry, run, record, disk, thread, sawFirst, queue,
                     subtype, sinceTurn, sinceEvent, escaped, live, abandoned, stranded>>
  BY DEF Interrupted, fixed, records, clock, procs
<1>2. attempts' \in 0..MaxRuns /\ attempts' <= run /\ attempts' > 0 /\ scheduled' \in BOOLEAN
  BY <1>0, <1>1, FailedEffect
<1>3. /\ log' \in Seq(Event) /\ Len(log') = Len(log) + 1 /\ Len(log) \in Nat
      /\ log' # <<>> /\ log'[Len(log')] = "timed_out"
      /\ DOMAIN log = 1..Len(log) /\ DOMAIN log' = 1..(Len(log) + 1)
      /\ \A n \in 1..Len(log) : log'[n] = log[n]
      /\ log'[Len(log) + 1] = "timed_out"
      /\ Announcements' = Announcements
  <2>1. "timed_out" \in Event /\ ~IsAnnouncement("timed_out")
    BY DEF Event, IsAnnouncement
  <2> QED
    BY <2>1, <1>0, <1>1, LogGrows, AnnouncementsGrow
<1>4. TypeParts'
  <2>1. turns' \in 0..MaxTurns
    BY <1>0, <1>1, Bounds DEF TypeParts, RunType
  <2>2. RunType'
    BY <2>1, <1>0, <1>1, <1>2 DEF TypeParts, RunType, At, Terminal
  <2>3. RecordType'
    BY <1>0, <1>1 DEF TypeParts, RecordType
  <2>4. StreamType'
    BY <1>0, <1>1, <1>3 DEF TypeParts, StreamType
  <2> QED
    BY <2>2, <2>3, <2>4 DEF TypeParts
<1>5. Counted' /\ Unsettled'
  BY <1>0, <1>1, <1>2 DEF Counted, Unsettled, Over
<1>6. QueueOfTheTurn'
  BY <1>0, <1>1, <1>3 DEF Inductive, QueueOfTheTurn
<1>7. Conversation'
  BY <1>0, <1>1, ConversationAside
<1>8. CodexLeft' /\ ProcessesAccountedFor'
  BY <1>0, <1>1, ProcessesAside
<1>9. VerdictMatchesEvents'
  <2>1. \A n \in 1..Len(log) : log[n] \notin EndsTheRun
    BY <1>0, <1>3, NothingEnded
  <2>2. \A n \in DOMAIN log' : log'[n] \in EndsTheRun => n = Len(log')
    BY <2>1, <1>3
  <2> QED
    BY <2>2, <1>0, <1>1, <1>2, <1>3, NothingEnded DEF VerdictMatchesEvents, Over
<1>10. Greeted'
  <2>1. /\ \A m, n \in Announcements : m = n
        /\ \A n \in 1..Len(log) :
             /\ log[n] = "turn_completed" => \E m \in Announcements : m < n
             /\ (provider = "claude_code" /\ log[n] # "timed_out") => 1 \in Announcements
        /\ ~sawFirst => Announcements = {}
    BY <1>3 DEF Inductive, Greeted, AnnouncedFirst
  <2>2. \A n \in DOMAIN log' : n \in 1..Len(log) \/ n = Len(log) + 1
    BY <1>3
  <2> QED
    BY <2>1, <2>2, <1>1, <1>3 DEF Greeted, AnnouncedFirst
<1> QED
  BY <1>4, <1>5, <1>6, <1>7, <1>8, <1>9, <1>10 DEF Inductive

\* An exception that escapes takes the run to its end without a verdict.
LEMMA EscapesKeepInductive ==
  ASSUME Inductive, RunEscapes \/ InterruptEscapes
  PROVE  Inductive'
<1>0. /\ TypeParts /\ Counted /\ at \in {"loop", "reading", "stopping"} /\ run \in Runs
      /\ terminal = "none"
  BY DEF Inductive, Counted, RunEscapes, InterruptEscapes, Unsettled
<1>1. /\ at' = "closing" /\ escaped' = TRUE /\ queue' = <<>>
      /\ sinceTurn' = 0 /\ sinceEvent' = 0
      /\ terminal' \in {"none", "cancelled"} /\ subtype' \in {"none", subtype}
      /\ denied' \in {FALSE, denied}
      /\ log' = log \/ log' = Append(log, "timed_out")
      /\ live' \subseteq live
      /\ UNCHANGED <<provider, policy, carry, run, attempts, scheduled, record, disk, thread,
                     sawFirst, turns, abandoned, stranded>>
  <2>1. CASE RunEscapes
    BY <1>0, <2>1 DEF RunEscapes, Escapes, fixed, retry, records
  <2>2. CASE InterruptEscapes
    BY <1>0, <2>2 DEF InterruptEscapes, Escapes, fixed, retry, records, procs
  <2> QED
    BY <2>1, <2>2
<1>2. /\ log' \in Seq(Event) /\ Announcements' = Announcements
      /\ DOMAIN log = 1..Len(log)
      /\ \A n \in DOMAIN log' :
           \/ n \in DOMAIN log /\ log'[n] = log[n]
           \/ log'[n] = "timed_out" /\ n = Len(log')
  <2>1. "timed_out" \in Event /\ ~IsAnnouncement("timed_out")
    BY DEF Event, IsAnnouncement
  <2>2. CASE log' = log
    BY <1>0, <2>2 DEF TypeParts, StreamType, Announcements
  <2>3. CASE log' = Append(log, "timed_out")
    <3>1. /\ log' \in Seq(Event) /\ Len(log') = Len(log) + 1 /\ Len(log) \in Nat
          /\ DOMAIN log = 1..Len(log) /\ DOMAIN log' = 1..(Len(log) + 1)
          /\ \A n \in 1..Len(log) : log'[n] = log[n]
          /\ log'[Len(log) + 1] = "timed_out"
      BY <1>0, <2>1, <2>3, LogGrows
    <3>2. Announcements' = Announcements
      BY <1>0, <2>1, <2>3, AnnouncementsGrow
    <3> QED
      BY <3>1, <3>2
  <2> QED
    BY <1>1, <2>2, <2>3
<1>3. TypeParts'
  <2>1. RunType'
    <3>1. 0 \in 0..TurnBudget /\ 0 \in 0..StallBudget
      BY Bounds
    <3> QED
      BY <3>1, <1>0, <1>1 DEF TypeParts, RunType, At, Terminal, Subtype
  <2>2. RecordType'
    BY <1>0, <1>1 DEF TypeParts, RecordType
  <2>3. StreamType'
    <3>1. <<>> \in Seq(Yielded)
      OBVIOUS
    <3> QED
      BY <3>1, <1>0, <1>1, <1>2 DEF TypeParts, StreamType
  <2> QED
    BY <2>1, <2>2, <2>3 DEF TypeParts
<1>4. Counted' /\ Unsettled' /\ QueueOfTheTurn'
  BY <1>0, <1>1 DEF Counted, Unsettled, QueueOfTheTurn, Over
<1>5. Conversation'
  BY <1>0, <1>1, ConversationAside
<1>6. CodexLeft' /\ ProcessesAccountedFor'
  BY <1>0, <1>1 DEF Inductive, CodexLeft, ProcessesAccountedFor, Current
<1>7. VerdictMatchesEvents'
  <2>1. \A n \in DOMAIN log : log[n] \notin EndsTheRun
    BY <1>0, NothingEnded
  <2> QED
    BY <2>1, <1>1, <1>2 DEF VerdictMatchesEvents, Over
<1>8. Greeted'
  <2>1. /\ \A m, n \in Announcements : m = n
        /\ \A n \in DOMAIN log :
             /\ log[n] = "turn_completed" => \E m \in Announcements : m < n
             /\ (provider = "claude_code" /\ log[n] # "timed_out") => 1 \in Announcements
        /\ ~sawFirst => Announcements = {}
    BY DEF Inductive, Greeted, AnnouncedFirst
  <2> QED
    BY <2>1, <1>1, <1>2 DEF Greeted, AnnouncedFirst
<1> QED
  BY <1>3, <1>4, <1>5, <1>6, <1>7, <1>8 DEF Inductive

\* Nothing but the place of the worker changes as the daemon ends.
LEMMA DeathKeepsInductive ==
  ASSUME Inductive, FinallyRaises \/ DaemonEnds
  PROVE  Inductive'
<1>1. /\ at \in {"closing", "ended"} /\ at' = "dead"
      /\ UNCHANGED <<provider, policy, carry, run, attempts, scheduled, record, disk, thread,
                     sawFirst, queue, log, denied, turns, terminal, subtype, sinceTurn,
                     sinceEvent, escaped, live, abandoned, stranded>>
  BY DEF FinallyRaises, DaemonEnds, fixed, retry, records, stream, verdict, clock, procs
<1>2. queue = <<>>
  BY <1>1 DEF Inductive, QueueOfTheTurn
<1>3. TypeParts'
  BY <1>1 DEF Inductive, TypeParts, RunType, RecordType, StreamType, At
<1>4. Counted' /\ Unsettled' /\ VerdictMatchesEvents'
  BY <1>1 DEF Inductive, Counted, Unsettled, VerdictMatchesEvents, Over
<1>5. QueueOfTheTurn' /\ Greeted' /\ Conversation'
  BY <1>1, <1>2, QueueAside, GreetedAside, ConversationAside
<1>6. CodexLeft' /\ ProcessesAccountedFor'
  BY <1>1 DEF Inductive, CodexLeft, ProcessesAccountedFor, Current
<1> QED
  BY <1>3, <1>4, <1>5, <1>6 DEF Inductive

LEMMA EndsKeepInductive ==
  ASSUME Inductive, Close \/ Settle \/ LeftoverExits \/ UNCHANGED svars
  PROVE  Inductive'
<1>0. TypeParts /\ run \in 0..MaxRuns /\ provider \in Provider
  BY Bounds DEF Inductive, TypeParts, RunType
<1>1. CASE Close
  <2>1. /\ at = "closing" /\ at' = "ended"
        /\ \/ /\ live' = IF provider = "claude_code" THEN live \ {run} ELSE live
              /\ stranded' = stranded
           \/ /\ provider = "claude_code" /\ stranded' = stranded \cup {run}
              /\ live' = live
        /\ UNCHANGED <<provider, policy, carry, run, attempts, scheduled, record, disk, thread,
                       sawFirst, queue, log, denied, turns, terminal, subtype, sinceTurn,
                       sinceEvent, escaped, abandoned>>
    BY <1>1 DEF Close, fixed, retry, records, stream, verdict, clock
  <2>2. queue = <<>>
    BY <2>1 DEF Inductive, QueueOfTheTurn
  <2>3. TypeParts'
    <3>1. run \in Runs
      BY <2>1 DEF Inductive, Counted
    <3> QED
      BY <3>1, <1>0, <2>1 DEF TypeParts, RunType, RecordType, StreamType, At
  <2>4. Counted' /\ Unsettled' /\ VerdictMatchesEvents'
    BY <2>1 DEF Inductive, Counted, Unsettled, VerdictMatchesEvents, Over
  <2>5. QueueOfTheTurn' /\ Greeted' /\ Conversation'
    BY <2>1, <2>2, QueueAside, GreetedAside, ConversationAside
  <2>6. CodexLeft' /\ ProcessesAccountedFor'
    BY <1>0, <2>1 DEF Inductive, CodexLeft, ProcessesAccountedFor, Current, Provider
  <2> QED
    BY <2>3, <2>4, <2>5, <2>6 DEF Inductive
<1>2. CASE Settle
  <2>1. /\ at = "ended" /\ ~escaped /\ at' = "idle"
        /\ (attempts' = 0 /\ scheduled' = FALSE) \/ (attempts' = attempts /\ scheduled' = scheduled)
        /\ record' = NoRecord /\ sawFirst' = FALSE
        /\ queue' = <<>> /\ log' = <<>> /\ denied' = FALSE
        /\ turns' = 0 /\ terminal' = "none" /\ subtype' = "none"
        /\ sinceTurn' = 0 /\ sinceEvent' = 0
        /\ UNCHANGED <<provider, policy, carry, run, disk, thread, escaped, live, abandoned,
                       stranded>>
    BY <1>2 DEF Settle, fixed, retry, procs
  <2>2. NoId \in Ids /\ NoRecord \in SessionRecord
    BY Bounds DEF NoId, Ids, NoRecord, SessionRecord
  <2>3. TypeParts'
    <3>1. RunType'
      <4>1. 0 \in 0..MaxRuns /\ 0 \in 0..MaxTurns /\ 0 \in 0..TurnBudget /\ 0 \in 0..StallBudget
        BY Bounds
      <4>2. attempts' \in 0..MaxRuns /\ scheduled' \in BOOLEAN
        BY <1>0, <2>1, <4>1 DEF TypeParts, RunType
      <4> QED
        BY <1>0, <2>1, <4>1, <4>2 DEF TypeParts, RunType, At, Terminal, Subtype
    <3>2. RecordType'
      BY <1>0, <2>1, <2>2 DEF TypeParts, RecordType
    <3>3. StreamType'
      <4>1. <<>> \in Seq(Yielded) /\ <<>> \in Seq(Event)
        OBVIOUS
      <4> QED
        BY <2>1, <4>1 DEF StreamType
    <3> QED
      BY <3>1, <3>2, <3>3 DEF TypeParts
  <2>4. Counted' /\ Unsettled'
    BY <1>0, <2>1 DEF Inductive, Counted, Unsettled, TypeParts, RunType, Over
  <2>5. DOMAIN log' = {} /\ Len(queue') = 0
    BY <2>1
  <2>6. QueueOfTheTurn' /\ VerdictMatchesEvents'
    BY <2>1, <2>5 DEF QueueOfTheTurn, VerdictMatchesEvents, Over
  <2>7. Greeted'
    <3>1. Announcements' = {}
      BY <2>5 DEF Announcements
    <3> QED
      BY <3>1, <2>1, <2>5 DEF Greeted, AnnouncedFirst
  <2>8. Conversation'
    BY <2>1 DEF Inductive, Conversation, NoRecord
  <2>9. CodexLeft' /\ ProcessesAccountedFor'
    BY <2>1 DEF Inductive, CodexLeft, ProcessesAccountedFor, Current
  <2> QED
    BY <2>3, <2>4, <2>6, <2>7, <2>8, <2>9 DEF Inductive
<1>3. CASE LeftoverExits \/ UNCHANGED svars
  <2>1. /\ live' \subseteq live
        /\ UNCHANGED <<provider, policy, carry, at, run, attempts, scheduled, record, disk,
                       thread, sawFirst, queue, log, denied, turns, terminal, subtype,
                       sinceTurn, sinceEvent, escaped, abandoned, stranded>>
    BY <1>3 DEF LeftoverExits, svars, fixed, retry, records, stream, verdict, clock, procs
  <2>2. TypeParts'
    BY <1>0, <2>1 DEF TypeParts, RunType, RecordType, StreamType
  <2>3. Counted' /\ Unsettled' /\ VerdictMatchesEvents'
    BY <2>1 DEF Inductive, Counted, Unsettled, VerdictMatchesEvents, Over
  <2>4. QueueOfTheTurn' /\ Greeted' /\ Conversation'
    BY <2>1, QueueAside, GreetedAside, ConversationAside
  <2>5. CodexLeft' /\ ProcessesAccountedFor'
    BY <2>1 DEF Inductive, CodexLeft, ProcessesAccountedFor, Current
  <2> QED
    BY <2>2, <2>3, <2>4, <2>5 DEF Inductive
<1> QED
  BY <1>1, <1>2, <1>3

----------------------------------------------------------------------------
(* The theorems.                                                           *)

LEMMA InitInductive == SessionInit => Inductive
<1> SUFFICES ASSUME SessionInit PROVE Inductive
  OBVIOUS
<1>1. NoId \in Ids /\ PriorId \in Ids /\ NoRecord \in SessionRecord
  BY Bounds DEF NoId, PriorId, Ids, NoRecord, SessionRecord
<1>2. RunType
  <2>1. 0 \in 0..MaxRuns /\ 0 \in 0..MaxTurns /\ 0 \in 0..TurnBudget /\ 0 \in 0..StallBudget
    BY Bounds
  <2> QED
    BY <2>1 DEF SessionInit, RunType, At, Terminal, Subtype
<1>3. RecordType
  BY <1>1 DEF SessionInit, RecordType
<1>4. StreamType
  <2>1. <<>> \in Seq(Yielded) /\ <<>> \in Seq(Event)
    OBVIOUS
  <2> QED
    BY <2>1 DEF SessionInit, StreamType
<1>5. Counted /\ Unsettled
  BY Bounds DEF SessionInit, Counted, Unsettled, Over
<1>6. DOMAIN log = {} /\ Len(queue) = 0
  BY DEF SessionInit
<1>7. QueueOfTheTurn /\ VerdictMatchesEvents
  BY <1>6 DEF SessionInit, QueueOfTheTurn, VerdictMatchesEvents, Over
<1>8. Announcements = {}
  BY <1>6 DEF Announcements
<1>9. Greeted
  BY <1>6, <1>8 DEF SessionInit, Greeted, AnnouncedFirst
<1>10. Conversation /\ CodexLeft /\ ProcessesAccountedFor
  BY DEF SessionInit, Conversation, NoRecord, CodexLeft, ProcessesAccountedFor, Current
<1> QED
  BY <1>2, <1>3, <1>4, <1>5, <1>7, <1>9, <1>10 DEF Inductive, TypeParts

LEMMA NextInductive == Inductive /\ [SessionNext]_svars => Inductive'
  BY StreamKeepsInductive, OpenKeepsInductive, OpenFailsKeepsInductive,
     OpenFailsLateKeepsInductive, TurnsKeepInductive, StreamBreaksKeepsInductive,
     BudgetsKeepInductive, InterruptedKeepsInductive, EscapesKeepInductive,
     DeathKeepsInductive, EndsKeepInductive
     DEF SessionNext, WorkerStep, ProviderStep, ExceptionStep

\* The strengthening of the invariants below holds of every behaviour.
THEOREM SessionInductive == SessionSpec => []Inductive
  BY InitInductive, NextInductive, PTL DEF SessionSpec

\* Type correctness of the worker, its record, its stream and its processes.
THEOREM SessionTypeCorrect == SessionSpec => []SessionTypeOK
<1>1. Inductive => SessionTypeOK
  BY TypeIsItsParts DEF Inductive
<1> QED
  BY <1>1, SessionInductive, PTL

\* However an attempt's events come, its announcement is one and first
\* (send_input of the two providers).
THEOREM AnnouncedFirstCorrect == SessionSpec => []AnnouncedFirst
<1>1. Inductive => AnnouncedFirst
  BY DEF Inductive, Greeted
<1> QED
  BY <1>1, SessionInductive, PTL

\* Every session record names the conversation of its own run, in memory and on
\* disk, for any number of runs and whatever is lost on the way
\* (_start_worker, send_input, _persist_session).
THEOREM RecordsNameTheirConversationCorrect == SessionSpec => []RecordsNameTheirConversation
<1>1. Inductive => RecordsNameTheirConversation
  BY DEF Inductive, Conversation, RecordsNameTheirConversation
<1> QED
  BY <1>1, SessionInductive, PTL

\* Unless an exception escapes, the verdict on a run is that of its last event
\* and a failure is counted; a run an exception escapes from is never taken for
\* completed (_run_worker, _on_turn_timeout).
THEOREM VerdictMatchesEventsCorrect == SessionSpec => []VerdictMatchesEvents
<1>1. Inductive => VerdictMatchesEvents
  BY DEF Inductive
<1> QED
  BY <1>1, SessionInductive, PTL

\* Whatever outlives its run is a codex process a timeout left, a Claude client
\* that was not closed, or of the run whose exception ends the daemon (close,
\* interrupt, _start_worker, _run_codex).
THEOREM ProcessesAccountedForCorrect == SessionSpec => []ProcessesAccountedFor
<1>1. Inductive => ProcessesAccountedFor
  BY DEF Inductive
<1> QED
  BY <1>1, SessionInductive, PTL
=============================================================================
