--------------------------- MODULE TimeSyncProofs ---------------------------
(***************************************************************************)
(* Theorems about TimeSync, for any number of participants, any step sizes *)
(* and any of the bounds.                                                  *)
(***************************************************************************)
EXTENDS TimeSync, TLAPS

ChanType == [Participants -> [Participants -> Seq(Message)]]
JobsType == [Participants -> Seq(Jobs)]
ViewType == [Participants -> [Participants -> Task]]

(* Chronology of given queues, views and next time points. *)
ChronologyOf(ch, view, nx) ==
  \A p, q \in Participants : Chronological(ch[q][p], view[p][q].tp, nx[q])

-----------------------------------------------------------------------------
(* One queue. *)

(* The time point of a message is an integer. *)
LEMMA MessageTime == \A m \in Message : m.task.tp \in Int
BY DEF Message, Task

(* Appending an announcement of the upper bound keeps a queue chronological. *)
LEMMA AppendNext ==
  ASSUME NEW s \in Seq(Message), NEW lo \in Int, NEW hi \in Nat, NEW d \in Nat,
         Chronological(s, lo, hi)
  PROVE  Chronological(Append(s, NextSimTask(hi, d)), lo, hi)
<1> DEFINE m == NextSimTask(hi, d)
           t == Append(s, m)
<1>1. m \in Message /\ m.kind = "Next" /\ m.task.tp = hi
  BY DEF NextSimTask, Message, Kinds, Task
<1> HIDE DEF m
<1>2. /\ Len(s) \in Nat /\ Len(t) = Len(s) + 1 /\ t[Len(s) + 1] = m
      /\ \A i \in 1..Len(s) : t[i] = s[i] /\ s[i] \in Message
  BY <1>1
<1>3. \A i \in 1..Len(t) : i = Len(s) + 1 \/ (i \in 1..Len(s) /\ i < Len(s) + 1)
  BY <1>2
<1> HIDE DEF t
<1>4. \A i \in 1..Len(t) : t[i].kind = "Next" =>
        t[i].task.tp \in Int /\ lo <= t[i].task.tp /\ t[i].task.tp <= hi
  <2>1. lo <= hi
    BY DEF Chronological
  <2>2. \A i \in 1..Len(s) : s[i].kind = "Next" =>
          s[i].task.tp \in Int /\ lo <= s[i].task.tp /\ s[i].task.tp <= hi
    BY <1>2, MessageTime DEF Chronological
  <2>3. QED
    BY <1>1, <1>2, <1>3, <2>1, <2>2
<1>5. ASSUME NEW i \in 1..Len(t), NEW j \in 1..Len(t), i < j,
             t[i].kind = "Next", t[j].kind = "Next"
      PROVE  t[i].task.tp <= t[j].task.tp
  <2>1. i \in 1..Len(s)
    BY <1>2, <1>3, <1>5
  <2>2. CASE j = Len(s) + 1
    BY <1>1, <1>2, <1>4, <1>5, <2>2
  <2>3. CASE j \in 1..Len(s)
    BY <1>2, <1>5, <2>1, <2>3 DEF Chronological
  <2>4. QED
    BY <1>3, <2>2, <2>3
<1>6. Chronological(t, lo, hi)
  BY <1>4, <1>5 DEF Chronological
<1>7. QED
  BY <1>6 DEF t, m

(* Appending anything else does, too. *)
LEMMA AppendSignal ==
  ASSUME NEW s \in Seq(Message), NEW lo \in Int, NEW hi \in Nat,
         NEW m \in Message, m.kind # "Next", Chronological(s, lo, hi)
  PROVE  Chronological(Append(s, m), lo, hi)
<1>1. /\ Len(s) \in Nat /\ Len(Append(s, m)) = Len(s) + 1
      /\ Append(s, m)[Len(s) + 1] = m
      /\ \A i \in 1..Len(s) : Append(s, m)[i] = s[i]
  OBVIOUS
<1>2. \A i \in 1..Len(s) + 1 : i = Len(s) + 1 \/ i \in 1..Len(s)
  BY <1>1
<1>3. QED
  BY <1>1, <1>2 DEF Chronological

(* Taking the first message keeps a queue chronological; an announcement     *)
(* that was taken is a lower bound of the rest.                              *)
LEMMA TailChronological ==
  ASSUME NEW s \in Seq(Message), s # <<>>, NEW lo \in Int, NEW hi \in Nat,
         Chronological(s, lo, hi)
  PROVE  /\ Chronological(Tail(s), lo, hi)
         /\ Head(s).kind = "Next" => Chronological(Tail(s), Head(s).task.tp, hi)
<1>1. /\ Len(Tail(s)) = Len(s) - 1 /\ Head(s) = s[1] /\ Len(s) \in Nat /\ Len(s) >= 1
      /\ \A i \in 1..Len(Tail(s)) : Tail(s)[i] = s[i + 1] /\ i + 1 \in 1..Len(s)
  OBVIOUS
<1>2. Chronological(Tail(s), lo, hi)
  BY <1>1 DEF Chronological
<1>3. Head(s).kind = "Next" => Chronological(Tail(s), Head(s).task.tp, hi)
  BY <1>1 DEF Chronological
<1>4. QED
  BY <1>2, <1>3

(* A prefix of a chronological queue is chronological. *)
LEMMA PrefixChronological ==
  ASSUME NEW s \in Seq(Message), NEW k \in 0..Len(s), NEW lo \in Int,
         NEW hi \in Nat, Chronological(s, lo, hi)
  PROVE  /\ SubSeq(s, 1, k) \in Seq(Message)
         /\ Chronological(SubSeq(s, 1, k), lo, hi)
<1>1. /\ SubSeq(s, 1, k) \in Seq(Message) /\ Len(SubSeq(s, 1, k)) = k
      /\ \A i \in 1..k : SubSeq(s, 1, k)[i] = s[i] /\ i \in 1..Len(s)
  OBVIOUS
<1>2. QED
  BY <1>1 DEF Chronological

(* Both bounds may be relaxed. *)
LEMMA RelaxBounds ==
  ASSUME NEW s \in Seq(Message), NEW lo \in Int, NEW hi \in Nat,
         Chronological(s, lo, hi), NEW lo2 \in Int, NEW hi2 \in Nat,
         lo2 <= lo, hi <= hi2
  PROVE  Chronological(s, lo2, hi2)
<1>1. \A i \in 1..Len(s) : s[i] \in Message
  OBVIOUS
<1>2. QED
  BY <1>1, MessageTime DEF Chronological
-----------------------------------------------------------------------------
(* All queues. *)

(* Signals and announcements are messages. *)
LEMMA Messages ==
  /\ NoTask \in Task
  /\ \A k \in Kinds : Signal(k) \in Message /\ Signal(k).kind = k
  /\ \A t, d \in Nat : /\ NextSimTask(t, d) \in Message
                       /\ NextSimTask(t, d).task = [tp |-> t, dur |-> d]
BY DEF Message, Kinds, Task, NoTask, Signal, NextSimTask

(* What a broadcast does to each queue. *)
LEMMA BroadcastQueues ==
  ASSUME NEW ch \in ChanType, NEW p \in Participants, NEW m \in Message
  PROVE  /\ Broadcast(ch, p, m) \in ChanType
         /\ \A q, r \in Participants :
              \/ Broadcast(ch, p, m)[q][r] = ch[q][r]
              \/ q = p /\ Broadcast(ch, p, m)[q][r] = Append(ch[p][r], m)
BY DEF Broadcast, ChanType

(* What the chronology says of one queue. *)
LEMMA OneQueue ==
  ASSUME NEW ch \in ChanType, NEW view \in ViewType,
         NEW nx \in [Participants -> Nat], ChronologyOf(ch, view, nx),
         NEW q \in Participants, NEW r \in Participants
  PROVE  /\ ch[q][r] \in Seq(Message)
         /\ nx[q] \in Nat
         /\ view[r][q].tp \in Int /\ view[r][q].tp >= -1
         /\ Chronological(ch[q][r], view[r][q].tp, nx[q])
<1>1. ch[q][r] \in Seq(Message)
  BY DEF ChanType
<1>2. view[r][q] \in Task
  BY DEF ViewType
<1>3. view[r][q].tp \in Int /\ view[r][q].tp >= -1
  BY <1>2 DEF Task
<1>4. Chronological(ch[q][r], view[r][q].tp, nx[q])
  BY DEF ChronologyOf
<1>5. QED
  BY <1>1, <1>3, <1>4

(* Announcing the own next step keeps the chronology. *)
LEMMA BroadcastNext ==
  ASSUME NEW ch \in ChanType, NEW view \in ViewType, NEW p \in Participants,
         NEW nx \in [Participants -> Nat], NEW d \in Nat,
         ChronologyOf(ch, view, nx)
  PROVE  ChronologyOf(Broadcast(ch, p, NextSimTask(nx[p], d)), view, nx)
<1> DEFINE bc == Broadcast(ch, p, NextSimTask(nx[p], d))
<1>1. SUFFICES ASSUME NEW q \in Participants, NEW r \in Participants
               PROVE  Chronological(bc[q][r], view[r][q].tp, nx[q])
  BY DEF ChronologyOf
<1>2. /\ ch[q][r] \in Seq(Message) /\ nx[q] \in Nat /\ view[r][q].tp \in Int
      /\ Chronological(ch[q][r], view[r][q].tp, nx[q])
  BY OneQueue
<1>3. \/ bc[q][r] = ch[q][r]
      \/ q = p /\ bc[q][r] = Append(ch[p][r], NextSimTask(nx[p], d))
  <2>1. NextSimTask(nx[p], d) \in Message
    BY Messages
  <2>2. \A x, y \in Participants :
           \/ bc[x][y] = ch[x][y]
           \/ x = p /\ bc[x][y] = Append(ch[p][y], NextSimTask(nx[p], d))
    BY <2>1, BroadcastQueues
  <2>3. QED
    BY <2>2
<1>4. QED
  BY <1>2, <1>3, AppendNext

(* So does a broadcast of anything else. *)
LEMMA BroadcastSignal ==
  ASSUME NEW ch \in ChanType, NEW view \in ViewType, NEW p \in Participants,
         NEW nx \in [Participants -> Nat], NEW m \in Message, m.kind # "Next",
         ChronologyOf(ch, view, nx)
  PROVE  ChronologyOf(Broadcast(ch, p, m), view, nx)
<1> DEFINE bc == Broadcast(ch, p, m)
<1>1. SUFFICES ASSUME NEW q \in Participants, NEW r \in Participants
               PROVE  Chronological(bc[q][r], view[r][q].tp, nx[q])
  BY DEF ChronologyOf
<1>2. /\ ch[q][r] \in Seq(Message) /\ nx[q] \in Nat /\ view[r][q].tp \in Int
      /\ Chronological(ch[q][r], view[r][q].tp, nx[q])
  BY OneQueue
<1>3. \/ bc[q][r] = ch[q][r]
      \/ q = p /\ bc[q][r] = Append(ch[p][r], m)
  <2>1. \A x, y \in Participants :
           \/ bc[x][y] = ch[x][y]
           \/ x = p /\ bc[x][y] = Append(ch[p][y], m)
    BY BroadcastQueues
  <2>2. QED
    BY <2>1
<1>4. QED
  BY <1>2, <1>3, AppendSignal

(* A participant may put its next step off. *)
LEMMA RaiseNext ==
  ASSUME NEW ch \in ChanType, NEW view \in ViewType,
         NEW nx \in [Participants -> Nat], NEW nx2 \in [Participants -> Nat],
         \A q \in Participants : nx[q] <= nx2[q],
         ChronologyOf(ch, view, nx)
  PROVE  ChronologyOf(ch, view, nx2)
<1>1. SUFFICES ASSUME NEW q \in Participants, NEW r \in Participants
               PROVE  Chronological(ch[q][r], view[r][q].tp, nx2[q])
  BY DEF ChronologyOf
<1>2. /\ ch[q][r] \in Seq(Message) /\ nx[q] \in Nat /\ view[r][q].tp \in Int
      /\ Chronological(ch[q][r], view[r][q].tp, nx[q]) /\ nx2[q] \in Nat
      /\ view[r][q].tp <= view[r][q].tp /\ nx[q] <= nx2[q]
  BY OneQueue
<1>3. QED
  BY <1>2, RelaxBounds

(* Handling the first message of q keeps the chronology, whether p stores    *)
(* the announcement, forgets q, or leaves its view alone.                    *)
LEMMA TakeMessage ==
  ASSUME chan \in ChanType, NEW view \in ViewType, other \in ViewType,
         NEW nx \in [Participants -> Nat],
         NEW p \in Participants, NEW q \in Participants, chan[q][p] # <<>>,
         ChronologyOf(chan, other, nx),
         \A x, y \in Participants : x # p \/ y # q => view[x][y] = other[x][y],
         \/ view[p][q] = other[p][q]
         \/ view[p][q] = NoTask
         \/ Head(chan[q][p]).kind = "Next" /\ view[p][q] = Head(chan[q][p]).task
  PROVE  Taken(p, q) \in ChanType /\ ChronologyOf(Taken(p, q), view, nx)
<1>1. /\ chan[q][p] \in Seq(Message) /\ Tail(chan[q][p]) \in Seq(Message)
      /\ Head(chan[q][p]) \in Message
  BY DEF ChanType
<1>2. /\ Taken(p, q) \in ChanType
      /\ \A x, y \in Participants :
           Taken(p, q)[y][x] = IF x = p /\ y = q THEN Tail(chan[q][p]) ELSE chan[y][x]
  BY <1>1 DEF Taken, ChanType
<1>3. SUFFICES ASSUME NEW x \in Participants, NEW y \in Participants
               PROVE  Chronological(Taken(p, q)[y][x], view[x][y].tp, nx[y])
  BY <1>2 DEF ChronologyOf
<1>4. /\ chan[y][x] \in Seq(Message) /\ nx[y] \in Nat /\ other[x][y].tp \in Int
      /\ other[x][y].tp >= -1
      /\ Chronological(chan[y][x], other[x][y].tp, nx[y])
  BY OneQueue
<1>5. CASE x # p \/ y # q
  BY <1>2, <1>4, <1>5
<1>6. CASE x = p /\ y = q
  <2>1. Chronological(Tail(chan[q][p]), other[p][q].tp, nx[q])
    BY <1>1, <1>4, <1>6, TailChronological
  <2>2. CASE view[p][q] = other[p][q]
    BY <1>2, <1>6, <2>1, <2>2
  <2>3. CASE view[p][q] = NoTask
    <3>1. view[p][q].tp = -1
      BY <2>3 DEF NoTask
    <3>2. Chronological(Tail(chan[q][p]), -1, nx[q])
      <4>1. -1 \in Int /\ -1 <= other[p][q].tp /\ nx[q] <= nx[q]
        BY <1>4, <1>6
      <4>2. QED
        BY <1>1, <1>4, <1>6, <2>1, <4>1, RelaxBounds
    <3>3. QED
      BY <1>2, <1>6, <3>1, <3>2
  <2>4. CASE Head(chan[q][p]).kind = "Next" /\ view[p][q] = Head(chan[q][p]).task
    BY <1>1, <1>2, <1>4, <1>6, <2>4, TailChronological
  <2>5. QED
    BY <2>2, <2>3, <2>4
<1>7. QED
  BY <1>5, <1>6
-----------------------------------------------------------------------------
(* The parts of handlers. *)

(* The own time points: the next step is later than the current one, and     *)
(* before the first step, unless p has hopped on, it is at time 0.           *)
OwnTime ==
  \A p \in Participants :
    /\ cur[p] < next[p]
    /\ cur[p] = -1 /\ ~hoppedOn[p] => next[p] = 0

QueueTypes == chan \in ChanType /\ jobs \in JobsType

TimeTypes ==
  /\ cur \in [Participants -> Nat \cup {-1}]
  /\ next \in [Participants -> Nat]
  /\ dur \in [Participants -> Nat \ {0}]
  /\ hoppedOn \in [Participants -> BOOLEAN]
  /\ step \in [Participants -> StepStates]
  /\ lastSent \in [Participants -> Nat \cup {-1}]

(* Posting a job keeps the type of the job queues. *)
LEMMA PostType ==
  ASSUME NEW js \in JobsType, NEW p \in Participants, NEW j \in Jobs
  PROVE  Post(js, p, j) \in JobsType
BY DEF Post, JobsType

(* RequestNextStep announces the next step given to it. *)
LEMMA RequestLemma ==
  ASSUME TimeTypes, NEW ch \in ChanType, NEW js \in JobsType, NEW view \in ViewType,
         NEW nx \in [Participants -> Nat], NEW p \in Participants, NEW ph,
         ChronologyOf(ch, view, nx), RequestNextStep(p, ch, js, nx[p], ph)
  PROVE  /\ QueueTypes'
         /\ lastSent' \in [Participants -> Nat \cup {-1}]
         /\ ChronologyOf(chan', view, nx)
<1> DEFINE bc == Broadcast(ch, p, NextSimTask(nx[p], dur[p]))
<1>1. nx[p] \in Nat /\ dur[p] \in Nat
  BY DEF TimeTypes
<1>2. bc \in ChanType
  <2>1. NextSimTask(nx[p], dur[p]) \in Message
    BY <1>1, Messages
  <2>2. QED
    BY <2>1, BroadcastQueues
<1>3. ChronologyOf(bc, view, nx)
  BY <1>1, BroadcastNext
<1>4. chan' = ch \/ chan' = bc
  BY DEF RequestNextStep
<1>5. jobs' = js \/ jobs' = Post(js, p, "Process")
  BY DEF RequestNextStep
<1>6. jobs' \in JobsType
  BY <1>5, PostType DEF Jobs
<1>7. lastSent' \in [Participants -> Nat \cup {-1}]
  BY <1>1 DEF RequestNextStep, TimeTypes
<1> HIDE DEF bc
<1>8. QED
  BY <1>2, <1>3, <1>4, <1>6, <1>7 DEF QueueTypes

(* The time of a step is never before the one announced for it. *)
LEMMA StepTime ==
  ASSUME TimeTypes, OwnTime, NEW p \in Participants, NEW kn \in SUBSET Participants,
         NEW oth \in [Participants -> Task], NEW t, IsStepTime(p, kn, oth, t)
  PROVE  t \in Nat /\ next[p] <= t
<1>1. CASE HandleHopOn(p, kn, oth)
  <2>1. PICK q \in AlreadyAdvanced(kn, oth) : t = oth[q].tp
    BY <1>1 DEF IsStepTime
  <2>2. q \in Participants /\ oth[q] \in Task /\ oth[q].tp > oth[q].dur
    BY <2>1 DEF AlreadyAdvanced
  <2>3. t \in Nat
    BY <2>1, <2>2 DEF Task
  <2>4. next[p] = 0
    BY <1>1 DEF HandleHopOn, OwnTime
  <2>5. QED
    BY <2>3, <2>4
<1>2. CASE ~HandleHopOn(p, kn, oth)
  <2>1. t = next[p] /\ next[p] \in Nat
    BY <1>2 DEF IsStepTime, TimeTypes
  <2>2. QED
    BY <2>1
<1>3. QED
  BY <1>1, <1>2

(* Executing a step, aborting one, or doing neither keeps the types, the     *)
(* chronology and the order of the own time points.                          *)
LEMMA ProcessLemma ==
  ASSUME TimeTypes, OwnTime, NEW ch \in ChanType, NEW js \in JobsType,
         NEW view \in ViewType, NEW p \in Participants, NEW kn \in SUBSET Participants,
         ChronologyOf(ch, view, next),
         ProcessSimulationTimeUpdate(p, kn, view[p], ch, js)
  PROVE  QueueTypes' /\ TimeTypes' /\ OwnTime' /\ ChronologyOf(chan', view, next')
<1> DEFINE oth == view[p]
           hop == HandleHopOn(p, kn, oth)
<1>0. oth \in [Participants -> Task]
  BY DEF ViewType
<1>1. CASE ~(IsTimeAdvancePossible(p, kn, oth) /\ ~IsExecutingSimStep(p))
  <2>1. chan' = ch /\ jobs' = js /\ UNCHANGED <<cur, next, dur, hoppedOn, step, lastSent>>
    BY <1>1 DEF ProcessSimulationTimeUpdate
  <2>2. QED
    BY <2>1 DEF QueueTypes, TimeTypes, OwnTime
<1>2. CASE IsTimeAdvancePossible(p, kn, oth) /\ ~IsExecutingSimStep(p)
  <2>1. PICK t : /\ IsStepTime(p, kn, oth, t)
                 /\ IF hop /\ p \in Coordinated
                    THEN AbortHopOnForCoordinatedParticipants(p, t, ch, js)
                    ELSE AdvanceTimeStep(p, t, ch, js)
    BY <1>2 DEF ProcessSimulationTimeUpdate
  <2>2. t \in Nat /\ next[p] <= t
    BY <1>0, <2>1, StepTime
  <2>3. dur' = dur /\ hoppedOn' = [hoppedOn EXCEPT ![p] = @ \/ hop]
    BY <1>2 DEF ProcessSimulationTimeUpdate
  <2>4. hop \in BOOLEAN
    BY DEF HandleHopOn
  <2>5. hoppedOn' \in [Participants -> BOOLEAN]
    BY <2>3, <2>4 DEF TimeTypes
  <2>6. CASE hop /\ p \in Coordinated
    <3> DEFINE nx == [next EXCEPT ![p] = t]
               chA == Broadcast(ch, p, Signal("Abort"))
               jsA == Post(js, p, "Abort")
    <3>1. next' = nx /\ cur' = cur
      BY <2>1, <2>6 DEF AbortHopOnForCoordinatedParticipants
    <3>2. nx \in [Participants -> Nat] /\ nx[p] = t
          /\ \A q \in Participants : next[q] <= nx[q] /\ (q # p => nx[q] = next[q])
      BY <2>2 DEF TimeTypes
    <3>3. Signal("Abort") \in Message /\ Signal("Abort").kind # "Next"
      BY Messages DEF Kinds
    <3>4. chA \in ChanType /\ jsA \in JobsType
      BY <3>3, BroadcastQueues, PostType DEF Jobs
    <3>5. ChronologyOf(chA, view, next)
      BY <3>3, BroadcastSignal DEF TimeTypes
    <3>6. ChronologyOf(chA, view, nx)
      BY <3>2, <3>4, <3>5, RaiseNext DEF TimeTypes
    <3>7. QueueTypes' /\ ChronologyOf(chan', view, nx)
          /\ lastSent' \in [Participants -> Nat \cup {-1}]
          /\ step' \in [Participants -> StepStates]
      <4>1. CASE p \in Blocking
        <5>1. step' = step /\ RequestNextStep(p, chA, jsA, nx[p], "Running")
          BY <2>1, <2>6, <3>2, <4>1 DEF AbortHopOnForCoordinatedParticipants
        <5>2. QED
          BY <3>2, <3>4, <3>6, <5>1, RequestLemma DEF TimeTypes
      <4>2. CASE p \notin Blocking
        <5>1. /\ step' = [step EXCEPT ![p] = "stuck"]
              /\ chan' = chA /\ jobs' = jsA /\ lastSent' = lastSent
          BY <2>1, <2>6, <4>2 DEF AbortHopOnForCoordinatedParticipants
        <5>2. QED
          BY <3>4, <3>6, <5>1 DEF QueueTypes, TimeTypes, StepStates
      <4>3. QED
        BY <4>1, <4>2
    <3>8. OwnTime'
      <4>1. \A q \in Participants : cur[q] < nx[q]
        BY <3>2 DEF OwnTime, TimeTypes
      <4>2. \A q \in Participants : cur[q] = -1 /\ ~hoppedOn'[q] => nx[q] = 0
        BY <2>3, <2>6, <3>2 DEF OwnTime, TimeTypes
      <4>3. QED
        BY <3>1, <4>1, <4>2 DEF OwnTime
    <3>9. QED
      BY <2>3, <2>5, <3>1, <3>2, <3>7, <3>8 DEF TimeTypes
  <2>7. CASE ~(hop /\ p \in Coordinated)
    <3> DEFINE nx == [next EXCEPT ![p] = t + dur[p]]
    <3>1. /\ cur' = [cur EXCEPT ![p] = t] /\ next' = nx
          /\ step' = [step EXCEPT ![p] = IF p \in Blocking THEN "task" ELSE "open"]
          /\ chan' = ch /\ jobs' = js /\ lastSent' = lastSent
      BY <2>1, <2>7 DEF AdvanceTimeStep
    <3>2. nx \in [Participants -> Nat] /\ nx[p] = t + dur[p] /\ t < nx[p]
          /\ \A q \in Participants : next[q] <= nx[q] /\ (q # p => nx[q] = next[q])
      BY <2>2 DEF TimeTypes
    <3>3. ChronologyOf(ch, view, nx)
      BY <3>2, RaiseNext DEF TimeTypes
    <3>4. TimeTypes'
      BY <2>2, <2>3, <2>5, <3>1, <3>2 DEF TimeTypes, StepStates
    <3>5. OwnTime'
      <4>1. \A q \in Participants : cur'[q] < nx[q]
        BY <2>2, <3>1, <3>2 DEF OwnTime, TimeTypes
      <4>2. \A q \in Participants : cur'[q] = -1 /\ ~hoppedOn'[q] => nx[q] = 0
        BY <2>2, <2>3, <3>1, <3>2 DEF OwnTime, TimeTypes
      <4>3. QED
        BY <3>1, <4>1, <4>2 DEF OwnTime
    <3>6. QED
      BY <3>1, <3>3, <3>4, <3>5 DEF QueueTypes
  <2>8. QED
    BY <2>6, <2>7
<1>3. QED
  BY <1>1, <1>2

-----------------------------------------------------------------------------
(* The inductive invariant. *)

LifecycleTypes ==
  /\ phase \in [Participants -> Phases]
  /\ stopRequested \in [Participants -> BOOLEAN]
  /\ pauseRequested \in [Participants -> BOOLEAN]
  /\ waiting \in [Participants -> SUBSET Participants]
  /\ sysError \in [Participants -> BOOLEAN]
  /\ pauses \in Nat

ViewTypes ==
  /\ known \in [Participants -> SUBSET Participants]
  /\ other \in ViewType

Inv ==
  /\ LifecycleTypes /\ QueueTypes /\ TimeTypes /\ ViewTypes
  /\ OwnTime
  /\ ChronologyOf(chan, other, next)

(* The invariant contains the two that are of interest. *)
LEMMA InvImplies == Inv => TypeOK /\ Chronology
BY DEF Inv, LifecycleTypes, QueueTypes, TimeTypes, ViewTypes, ChanType, JobsType,
       ViewType, ChronologyOf, TypeOK, Chronology

(* It holds initially. *)
LEMMA InitInv == Init => Inv
<1> SUFFICES ASSUME Init PROVE Inv
  OBVIOUS
<1>1. LifecycleTypes
  BY DEF Init, LifecycleTypes, Phases
<1>2. QueueTypes
  BY DEF Init, QueueTypes, ChanType, JobsType
<1>3. dur \in [Participants -> Nat \ {0}]
  BY ParticipantsAssumption DEF Init
<1>4. TimeTypes
  BY <1>3 DEF Init, TimeTypes, StepStates
<1>5. ViewTypes
  BY Messages DEF Init, ViewTypes, ViewType
<1>6. OwnTime
  BY DEF Init, OwnTime
<1>7. ChronologyOf(chan, other, next)
  <2>1. \A p, q \in Participants :
          chan[q][p] = <<>> /\ other[p][q] = NoTask /\ next[q] = 0
    BY DEF Init
  <2>2. NoTask.tp = -1
    BY DEF NoTask
  <2>3. Chronological(<<>>, -1, 0)
    BY DEF Chronological
  <2>4. QED
    BY <2>1, <2>2, <2>3 DEF ChronologyOf
<1>8. QED
  BY <1>1, <1>2, <1>4, <1>5, <1>6, <1>7 DEF Inv

(* A step that announces the own next step at most, leaving the times and    *)
(* the views as they are.                                                    *)
LEMMA QuietStep ==
  ASSUME Inv, LifecycleTypes', QueueTypes', UNCHANGED <<cur, next, hoppedOn, viewVars>>,
         dur' \in [Participants -> Nat \ {0}],
         step' \in [Participants -> StepStates],
         lastSent' \in [Participants -> Nat \cup {-1}],
         ChronologyOf(chan', other, next)
  PROVE  Inv'
<1>1. TimeTypes'
  BY DEF Inv, TimeTypes
<1>2. ViewTypes' /\ other' = other /\ next' = next
  BY DEF Inv, ViewTypes, viewVars
<1>3. OwnTime'
  BY DEF Inv, OwnTime
<1>4. QED
  BY <1>1, <1>2, <1>3 DEF Inv

(* A step that changes neither times nor views nor queues of messages. *)
LEMMA LocalStep ==
  ASSUME Inv, LifecycleTypes', jobs' \in JobsType, step' \in [Participants -> StepStates],
         UNCHANGED <<chan, cur, next, dur, hoppedOn, lastSent, viewVars>>
  PROVE  Inv'
<1>1. QueueTypes' /\ ChronologyOf(chan', other, next)
  BY DEF Inv, QueueTypes
<1>2. /\ dur' \in [Participants -> Nat \ {0}]
      /\ lastSent' \in [Participants -> Nat \cup {-1}]
  BY DEF Inv, TimeTypes
<1>3. QED
  BY <1>1, <1>2, QuietStep

(* Taking the first job keeps the type of the job queues. *)
LEMMA RestType ==
  ASSUME jobs \in JobsType, NEW p \in Participants, jobs[p] # <<>>
  PROVE  Rest(p) \in JobsType
BY DEF JobsType, Rest

(* A step that requests the next step. *)
LEMMA RequestStep ==
  ASSUME Inv, LifecycleTypes', NEW p \in Participants, NEW js \in JobsType, NEW ph,
         RequestNextStep(p, chan, js, next[p], ph),
         step' \in [Participants -> StepStates],
         UNCHANGED <<cur, next, dur, hoppedOn, viewVars>>
  PROVE  Inv'
<1>1. /\ TimeTypes /\ chan \in ChanType /\ other \in ViewType
      /\ next \in [Participants -> Nat] /\ ChronologyOf(chan, other, next)
  BY DEF Inv, TimeTypes, QueueTypes, ViewTypes
<1>2. /\ QueueTypes' /\ lastSent' \in [Participants -> Nat \cup {-1}]
      /\ ChronologyOf(chan', other, next)
  BY <1>1, RequestLemma
<1>3. dur' \in [Participants -> Nat \ {0}]
  BY <1>1 DEF TimeTypes
<1>4. QED
  BY <1>2, <1>3, QuietStep

(* A step that handles an update of the views. *)
LEMMA ProcessStep ==
  ASSUME Inv, LifecycleTypes', NEW p \in Participants, NEW ch \in ChanType,
         NEW js \in JobsType, NEW kn \in SUBSET Participants, NEW view \in ViewType,
         ChronologyOf(ch, view, next),
         ProcessSimulationTimeUpdate(p, kn, view[p], ch, js),
         known' \in [Participants -> SUBSET Participants], other' = view
  PROVE  Inv'
<1>1. TimeTypes /\ OwnTime
  BY DEF Inv
<1>2. QueueTypes' /\ TimeTypes' /\ OwnTime' /\ ChronologyOf(chan', view, next')
  BY <1>1, ProcessLemma
<1>3. ViewTypes'
  BY DEF ViewTypes
<1>4. QED
  BY <1>2, <1>3 DEF Inv

(* A step that takes a message of q and leaves views and times alone. *)
LEMMA TakeStep ==
  ASSUME Inv, NEW p \in Participants, NEW q \in Participants, chan[q][p] # <<>>
  PROVE  Taken(p, q) \in ChanType /\ ChronologyOf(Taken(p, q), other, next)
<1>1. /\ chan \in ChanType /\ other \in ViewType /\ next \in [Participants -> Nat]
      /\ ChronologyOf(chan, other, next)
  BY DEF Inv, TimeTypes, QueueTypes, ViewTypes
<1>2. QED
  BY <1>1, TakeMessage

-----------------------------------------------------------------------------
(* The actions. *)

(* The jobs of the IO thread and the start of the time. *)
LEMMA IoThreadInv ==
  ASSUME Inv, NEW p \in Participants, IoThread(p)
  PROVE  Inv'
<1>1. /\ LifecycleTypes /\ TimeTypes /\ ViewTypes
      /\ chan \in ChanType /\ jobs \in JobsType
      /\ other \in ViewType /\ known[p] \in SUBSET Participants
      /\ next \in [Participants -> Nat] /\ ChronologyOf(chan, other, next)
      /\ step \in [Participants -> StepStates]
  BY DEF Inv, TimeTypes, QueueTypes, ViewTypes
<1>2. ASSUME NEW job, NextJob(p, job) PROVE Rest(p) \in JobsType
  BY <1>1, <1>2, RestType DEF NextJob
<1>3. CASE ProcessJob(p)
  <2>1. LifecycleTypes' /\ known' = known /\ other' = other
    BY <1>1, <1>3 DEF ProcessJob, lifecycleVars, viewVars, LifecycleTypes
  <2>2. Rest(p) \in JobsType
    BY <1>2, <1>3 DEF ProcessJob
  <2>3. ProcessSimulationTimeUpdate(p, known[p], other[p], chan, Rest(p))
    BY <1>3 DEF ProcessJob
  <2>4. known' \in [Participants -> SUBSET Participants]
    BY <1>1, <2>1 DEF ViewTypes
  <2>5. QED
    BY <1>1, <2>1, <2>2, <2>3, <2>4, ProcessStep
<1>4. CASE RequestJob(p)
  <2>1. LifecycleTypes'
    BY <1>1, <1>4 DEF RequestJob, lifecycleVars, LifecycleTypes
  <2>2. Rest(p) \in JobsType
    BY <1>2, <1>4 DEF RequestJob
  <2>3. /\ RequestNextStep(p, chan, Rest(p), next[p], phase[p])
        /\ UNCHANGED <<cur, next, dur, hoppedOn, viewVars>> /\ step' = step
    BY <1>4 DEF RequestJob
  <2>4. QED
    BY <1>1, <2>1, <2>2, <2>3, RequestStep
<1>5. CASE CompleteJob(p)
  <2>1. LifecycleTypes'
    BY <1>1, <1>5 DEF CompleteJob, lifecycleVars, LifecycleTypes
  <2>2. Rest(p) \in JobsType
    BY <1>2, <1>5 DEF CompleteJob
  <2>3. /\ RequestNextStep(p, chan, Rest(p), next[p], phase[p])
        /\ UNCHANGED <<cur, next, dur, hoppedOn, viewVars>>
    BY <1>5 DEF CompleteJob
  <2>4. step' \in [Participants -> StepStates]
    BY <1>1, <1>5 DEF CompleteJob, StepStates
  <2>5. QED
    BY <2>1, <2>2, <2>3, <2>4, RequestStep
<1>6. CASE StopJob(p) \/ AbortJob(p) \/ ErrorJob(p)
  <2>1. LifecycleTypes'
    BY <1>1, <1>6 DEF StopJob, AbortJob, ErrorJob, LifecycleTypes, Phases
  <2>2. jobs' = Rest(p)
    BY <1>6 DEF StopJob, AbortJob, ErrorJob
  <2>3. Rest(p) \in JobsType
    BY <1>2, <1>6 DEF StopJob, AbortJob, ErrorJob
  <2>4. UNCHANGED <<chan, cur, next, dur, hoppedOn, lastSent, viewVars>> /\ step' = step
    BY <1>6 DEF StopJob, AbortJob, ErrorJob, timeVars
  <2>5. QED
    BY <1>1, <2>1, <2>2, <2>3, <2>4, LocalStep
<1>7. CASE PauseJob(p) \/ ContinueJob(p)
  <2>1. LifecycleTypes'
    BY <1>1, <1>7 DEF PauseJob, ContinueJob, LifecycleTypes, Phases
  <2>2. \/ jobs' = Rest(p)
        \/ jobs' = Post(Rest(p), p, "Request")
        \/ jobs' = Post(Rest(p), p, "Error")
    BY <1>7 DEF PauseJob, ContinueJob
  <2>3. Rest(p) \in JobsType
    BY <1>2, <1>7 DEF PauseJob, ContinueJob
  <2>4. jobs' \in JobsType
    BY <2>2, <2>3, PostType DEF Jobs
  <2>5. UNCHANGED <<chan, cur, next, dur, hoppedOn, lastSent, viewVars>> /\ step' = step
    BY <1>7 DEF PauseJob, ContinueJob, timeVars
  <2>6. QED
    BY <1>1, <2>1, <2>4, <2>5, LocalStep
<1>8. CASE CallAfterAllParticipantsReplied(p)
  <2>1. LifecycleTypes'
    BY <1>1, <1>8 DEF CallAfterAllParticipantsReplied, LifecycleTypes, Phases, Peers
  <2>2. Signal("Call") \in Message /\ Signal("Call").kind # "Next"
    BY Messages DEF Kinds
  <2>3. chan' = Broadcast(chan, p, Signal("Call")) /\ jobs' = jobs
    BY <1>8 DEF CallAfterAllParticipantsReplied
  <2>4. chan' \in ChanType
    BY <1>1, <2>2, <2>3, BroadcastQueues
  <2>5. ChronologyOf(chan', other, next)
    BY <1>1, <2>2, <2>3, BroadcastSignal
  <2>6. UNCHANGED <<cur, next, dur, hoppedOn, step, lastSent, viewVars>>
    BY <1>8 DEF CallAfterAllParticipantsReplied, timeVars
  <2>7. QED
    BY <1>1, <2>1, <2>3, <2>4, <2>5, <2>6, QuietStep DEF QueueTypes, TimeTypes
<1>9. CASE StartTime(p)
  <2>1. LifecycleTypes'
    BY <1>1, <1>9 DEF StartTime, LifecycleTypes, Phases
  <2>2. /\ RequestNextStep(p, chan, jobs, next[p], "Running")
        /\ UNCHANGED <<cur, next, dur, hoppedOn, viewVars>> /\ step' = step
    BY <1>9 DEF StartTime
  <2>3. QED
    BY <1>1, <2>1, <2>2, RequestStep
<1>10. QED
  BY <1>3, <1>4, <1>5, <1>6, <1>7, <1>8, <1>9 DEF IoThread

(* The messages of a peer. *)
LEMMA ReceiveInv ==
  ASSUME Inv, NEW p \in Participants, NEW q \in Participants, Receive(p, q)
  PROVE  Inv'
<1>1. /\ LifecycleTypes /\ TimeTypes /\ ViewTypes
      /\ chan \in ChanType /\ jobs \in JobsType
      /\ other \in ViewType /\ known \in [Participants -> SUBSET Participants]
      /\ next \in [Participants -> Nat] /\ dur \in [Participants -> Nat \ {0}]
      /\ ChronologyOf(chan, other, next)
      /\ step \in [Participants -> StepStates]
  BY DEF Inv, TimeTypes, QueueTypes, ViewTypes
<1>2. chan[q][p] # <<>>
  BY DEF Receive, ReceiveServiceCreated, ReceiveCall, ReceiveCallReturn, ReceiveNextSimTask,
         ReceiveAbortSimulation, ReceiveDisconnect, ReceiveConnectionLost, OnPeerShutdown,
         Receives
<1>3. Taken(p, q) \in ChanType /\ ChronologyOf(Taken(p, q), other, next)
  BY <1>2, TakeStep
<1>4. NoTask \in Task /\ NoTask.tp = -1
  BY Messages DEF NoTask
<1>5. CASE ReceiveServiceCreated(p, q)
  <2> DEFINE view == [other EXCEPT ![p][q] = IF q \in known[p] THEN @ ELSE NoTask]
             bc == Broadcast(Taken(p, q), p, NextSimTask(next[p], dur[p]))
  <2>1. LifecycleTypes' /\ jobs' = jobs /\ UNCHANGED <<cur, next, dur, hoppedOn, step, lastSent>>
    BY <1>1, <1>5 DEF ReceiveServiceCreated, lifecycleVars, timeVars, LifecycleTypes
  <2>2. view \in ViewType
    BY <1>1, <1>4 DEF ViewType
  <2>3. /\ \A x, y \in Participants : x # p \/ y # q => view[x][y] = other[x][y]
        /\ view[p][q] = other[p][q] \/ view[p][q] = NoTask
    BY <1>1 DEF ViewType
  <2> HIDE DEF view
  <2>4. ChronologyOf(Taken(p, q), view, next)
    BY <1>1, <1>2, <2>2, <2>3, TakeMessage
  <2>5. NextSimTask(next[p], dur[p]) \in Message
    BY <1>1, Messages
  <2>6. bc \in ChanType
    BY <1>3, <2>5, BroadcastQueues
  <2>7. ChronologyOf(bc, view, next)
    BY <1>1, <1>3, <2>2, <2>4, BroadcastNext
  <2>8. chan' = bc \/ chan' = Taken(p, q)
    BY <1>5 DEF ReceiveServiceCreated
  <2>9. other' = view /\ known' \in [Participants -> SUBSET Participants]
    BY <1>1, <1>5 DEF ReceiveServiceCreated, view
  <2> HIDE DEF bc
  <2>10. QueueTypes' /\ ChronologyOf(chan', other', next')
    BY <1>1, <1>3, <2>1, <2>4, <2>6, <2>7, <2>8, <2>9 DEF QueueTypes
  <2>11. ViewTypes'
    BY <2>2, <2>9 DEF ViewTypes
  <2>12. TimeTypes' /\ OwnTime'
    BY <2>1 DEF Inv, TimeTypes, OwnTime
  <2>13. QED
    BY <2>1, <2>10, <2>11, <2>12 DEF Inv
<1>6. CASE ReceiveCall(p, q)
  <2> DEFINE rep == [Taken(p, q) EXCEPT ![p][q] = Append(@, Signal("Reply"))]
  <2>1. LifecycleTypes' /\ jobs' = jobs
        /\ UNCHANGED <<cur, next, dur, hoppedOn, step, lastSent, viewVars>>
    BY <1>1, <1>6 DEF ReceiveCall, lifecycleVars, timeVars, LifecycleTypes
  <2>2. Signal("Reply") \in Message /\ Signal("Reply").kind # "Next"
    BY Messages DEF Kinds
  <2>3. /\ rep \in ChanType
        /\ \A x, y \in Participants : rep[y][x] =
             IF x = q /\ y = p THEN Append(Taken(p, q)[p][q], Signal("Reply"))
             ELSE Taken(p, q)[y][x]
    BY <1>3, <2>2 DEF ChanType
  <2>4. chan' = rep \/ chan' = Taken(p, q)
    BY <1>6 DEF ReceiveCall
  <2> HIDE DEF rep
  <2>5. ChronologyOf(rep, other, next)
    <3>1. SUFFICES ASSUME NEW x \in Participants, NEW y \in Participants
                   PROVE  Chronological(rep[y][x], other[x][y].tp, next[y])
      BY DEF ChronologyOf
    <3>2. /\ Taken(p, q)[y][x] \in Seq(Message) /\ next[y] \in Nat /\ other[x][y].tp \in Int
          /\ Chronological(Taken(p, q)[y][x], other[x][y].tp, next[y])
      BY <1>1, <1>3, OneQueue
    <3>3. rep[y][x] = Taken(p, q)[y][x] \/ rep[y][x] = Append(Taken(p, q)[y][x], Signal("Reply"))
      BY <2>3
    <3>4. QED
      BY <2>2, <3>2, <3>3, AppendSignal
  <2>6. QED
    BY <1>1, <1>3, <2>1, <2>3, <2>4, <2>5, QuietStep DEF QueueTypes, TimeTypes
<1>7. CASE ReceiveCallReturn(p, q)
  <2>1. LifecycleTypes' /\ jobs' = jobs /\ chan' = Taken(p, q)
        /\ UNCHANGED <<cur, next, dur, hoppedOn, step, lastSent, viewVars>>
    BY <1>1, <1>7 DEF ReceiveCallReturn, BarrierWithout, timeVars, LifecycleTypes, Phases
  <2>2. QED
    BY <1>1, <1>3, <2>1, QuietStep DEF QueueTypes, TimeTypes
<1>8. CASE ReceiveNextSimTask(p, q)
  <2> DEFINE task == Head(chan[q][p]).task
             view == [other EXCEPT ![p][q] =
                        IF phase[p] # "None" /\ q \in known[p] THEN task ELSE @]
  <2>1. LifecycleTypes' /\ known' = known /\ other' = view
        /\ ProcessSimulationTimeUpdate(p, known[p], view[p], Taken(p, q), jobs)
    BY <1>1, <1>8 DEF ReceiveNextSimTask, lifecycleVars, LifecycleTypes
  <2>2. task \in Task /\ Head(chan[q][p]).kind = "Next"
    <3>1. Head(chan[q][p]) \in Message
      BY <1>1, <1>2 DEF ChanType
    <3>2. QED
      BY <1>8, <3>1 DEF Message, ReceiveNextSimTask, Receives
  <2>3. view \in ViewType
    BY <1>1, <2>2 DEF ViewType
  <2>4. /\ \A x, y \in Participants : x # p \/ y # q => view[x][y] = other[x][y]
        /\ view[p][q] = other[p][q] \/ view[p][q] = task
    BY <1>1 DEF ViewType
  <2> HIDE DEF view
  <2>5. ChronologyOf(Taken(p, q), view, next)
    BY <1>1, <1>2, <2>2, <2>3, <2>4, TakeMessage
  <2>6. known[p] \in SUBSET Participants /\ known' \in [Participants -> SUBSET Participants]
    BY <1>1, <2>1
  <2>7. QED
    BY <1>1, <1>3, <2>1, <2>3, <2>5, <2>6, ProcessStep
<1>9. CASE ReceiveAbortSimulation(p, q)
  <2>1. LifecycleTypes' /\ chan' = Taken(p, q)
        /\ UNCHANGED <<cur, next, dur, hoppedOn, step, lastSent, viewVars>>
    BY <1>1, <1>9 DEF ReceiveAbortSimulation, timeVars, LifecycleTypes, Phases
  <2>2. jobs' = jobs \/ jobs' = Post(jobs, p, "Abort")
    BY <1>9 DEF ReceiveAbortSimulation
  <2>3. jobs' \in JobsType
    BY <1>1, <2>2, PostType DEF Jobs
  <2>4. QED
    BY <1>1, <1>3, <2>1, <2>3, QuietStep DEF QueueTypes, TimeTypes
<1>10. ASSUME NEW kind, OnPeerShutdown(p, q, kind) PROVE Inv'
  <2> DEFINE view == [other EXCEPT ![p][q] = NoTask]
             kn == known[p] \ {q}
  <2>1. /\ LifecycleTypes' /\ known' = [known EXCEPT ![p] = kn] /\ other' = view
        /\ IF q \in known[p]
           THEN ProcessSimulationTimeUpdate(p, kn, view[p], Taken(p, q), jobs)
           ELSE chan' = Taken(p, q) /\ UNCHANGED <<jobs, timeVars>>
    BY <1>1, <1>10 DEF OnPeerShutdown, BarrierWithout, LifecycleTypes, Phases
  <2>2. view \in ViewType
    BY <1>1, <1>4 DEF ViewType
  <2>3. /\ \A x, y \in Participants : x # p \/ y # q => view[x][y] = other[x][y]
        /\ view[p][q] = NoTask
    BY <1>1 DEF ViewType
  <2> HIDE DEF view
  <2>4. ChronologyOf(Taken(p, q), view, next)
    BY <1>1, <1>2, <2>2, <2>3, TakeMessage
  <2>5. kn \in SUBSET Participants /\ known' \in [Participants -> SUBSET Participants]
    BY <1>1, <2>1
  <2>6. CASE q \in known[p]
    BY <1>1, <1>3, <2>1, <2>2, <2>4, <2>5, <2>6, ProcessStep
  <2>7. CASE q \notin known[p]
    <3>1. QueueTypes' /\ ViewTypes' /\ ChronologyOf(chan', other', next')
      BY <1>1, <1>3, <2>1, <2>2, <2>4, <2>5, <2>7 DEF QueueTypes, ViewTypes, timeVars
    <3>2. TimeTypes' /\ OwnTime'
      BY <2>1, <2>7 DEF Inv, TimeTypes, OwnTime, timeVars
    <3>3. QED
      BY <2>1, <3>1, <3>2 DEF Inv
  <2>8. QED
    BY <2>6, <2>7
<1>11. QED
  BY <1>5, <1>6, <1>7, <1>8, <1>9, <1>10
  DEF Receive, ReceiveDisconnect, ReceiveConnectionLost

(* The queues at the end of a participant. *)
LEMMA DisconnectQueues ==
  ASSUME chan \in ChanType, other \in ViewType, NEW nx \in [Participants -> Nat],
         ChronologyOf(chan, other, nx),
         NEW p \in Participants, NEW kind \in Kinds \ {"Next"},
         NEW kept \in [Participants -> Nat],
         \A q \in Participants : kept[q] <= Len(chan[p][q]),
         Disconnect(p, kind, kept)
  PROVE  chan' \in ChanType /\ ChronologyOf(chan', other, nx)
<1>3. Signal(kind) \in Message /\ Signal(kind).kind # "Next"
  BY Messages
<1> DEFINE cut(b) == SubSeq(chan[p][b], 1, kept[b])
<1>4. \A b \in Participants :
        /\ cut(b) \in Seq(Message)
        /\ Chronological(cut(b), other[b][p].tp, nx[p])
  <2>1. SUFFICES ASSUME NEW b \in Participants
                 PROVE  /\ cut(b) \in Seq(Message)
                        /\ Chronological(cut(b), other[b][p].tp, nx[p])
    OBVIOUS
  <2>2. /\ chan[p][b] \in Seq(Message) /\ nx[p] \in Nat /\ other[b][p].tp \in Int
        /\ Chronological(chan[p][b], other[b][p].tp, nx[p])
    BY OneQueue
  <2>3. kept[b] \in 0..Len(chan[p][b])
    BY <2>2
  <2>4. QED
    BY <2>2, <2>3, PrefixChronological
<1>5. chan' = [a \in Participants |-> [b \in Participants |->
                IF b = p THEN <<>>
                ELSE IF a = p /\ phase[b] # "Off" THEN Append(cut(b), Signal(kind))
                ELSE chan[a][b]]]
  BY DEF Disconnect
<1> HIDE DEF cut
<1>6. \A b \in Participants : Append(cut(b), Signal(kind)) \in Seq(Message)
  BY <1>3, <1>4
<1>7. chan' \in ChanType
  BY <1>5, <1>6 DEF ChanType
<1>8. ChronologyOf(chan', other, nx)
  <2>1. SUFFICES ASSUME NEW x \in Participants, NEW y \in Participants
                 PROVE  Chronological(chan'[y][x], other[x][y].tp, nx[y])
    BY DEF ChronologyOf
  <2>2. /\ chan[y][x] \in Seq(Message) /\ nx[y] \in Nat /\ other[x][y].tp \in Int
        /\ Chronological(chan[y][x], other[x][y].tp, nx[y])
    BY OneQueue
  <2>3. \/ chan'[y][x] = <<>>
        \/ y = p /\ chan'[y][x] = Append(cut(x), Signal(kind))
        \/ chan'[y][x] = chan[y][x]
    BY <1>5
  <2>4. CASE chan'[y][x] = <<>>
    <3>1. other[x][y].tp <= nx[y]
      BY <2>2 DEF Chronological
    <3>2. Chronological(<<>>, other[x][y].tp, nx[y])
      BY <3>1 DEF Chronological
    <3>3. QED
      BY <2>4, <3>2
  <2>5. CASE y = p /\ chan'[y][x] = Append(cut(x), Signal(kind))
    <3>1. cut(x) \in Seq(Message) /\ Chronological(cut(x), other[x][y].tp, nx[y])
      BY <1>4, <2>5
    <3>2. Chronological(Append(cut(x), Signal(kind)), other[x][y].tp, nx[y])
      BY <1>3, <2>2, <3>1, AppendSignal
    <3>3. QED
      BY <2>5, <3>2
  <2>6. QED
    BY <2>2, <2>3, <2>4, <2>5
<1>9. QED
  BY <1>7, <1>8

(* The end of a participant. *)
LEMMA DisconnectInv ==
  ASSUME Inv, NEW p \in Participants, NEW kind \in Kinds \ {"Next"},
         NEW kept \in [Participants -> Nat],
         \A q \in Participants : kept[q] <= Len(chan[p][q]),
         Disconnect(p, kind, kept)
  PROVE  Inv'
<1>1. /\ LifecycleTypes /\ TimeTypes
      /\ chan \in ChanType /\ jobs \in JobsType /\ other \in ViewType
      /\ next \in [Participants -> Nat] /\ ChronologyOf(chan, other, next)
  BY DEF Inv, TimeTypes, QueueTypes, ViewTypes
<1>2. /\ LifecycleTypes' /\ jobs' \in JobsType
      /\ UNCHANGED <<cur, next, dur, hoppedOn, step, lastSent, viewVars>>
  BY <1>1 DEF Disconnect, LifecycleTypes, Phases, JobsType, timeVars
<1>3. chan' \in ChanType /\ ChronologyOf(chan', other, next)
  BY <1>1, DisconnectQueues
<1>4. QED
  BY <1>1, <1>2, <1>3, QuietStep DEF QueueTypes, TimeTypes

(* The calls of the user. *)
LEMMA UserInv ==
  ASSUME Inv, NEW p \in Participants, User(p)
  PROVE  Inv'
<1>1. /\ LifecycleTypes /\ TimeTypes
      /\ chan \in ChanType /\ jobs \in JobsType /\ other \in ViewType
      /\ next \in [Participants -> Nat] /\ dur \in [Participants -> Nat \ {0}]
      /\ ChronologyOf(chan, other, next)
      /\ step \in [Participants -> StepStates]
  BY DEF Inv, TimeTypes, QueueTypes, ViewTypes
<1>2. CASE StartLifecycle(p)
  <2>1. LifecycleTypes' /\ jobs' = jobs
        /\ UNCHANGED <<cur, next, dur, hoppedOn, step, lastSent, viewVars>>
    BY <1>1, <1>2 DEF StartLifecycle, LifecycleTypes, Phases, timeVars
  <2>2. Signal("Created") \in Message /\ Signal("Created").kind # "Next"
    BY Messages DEF Kinds
  <2>3. chan' = Broadcast(chan, p, Signal("Created"))
    BY <1>2 DEF StartLifecycle
  <2>4. chan' \in ChanType
    BY <1>1, <2>2, <2>3, BroadcastQueues
  <2>5. ChronologyOf(chan', other, next)
    BY <1>1, <2>2, <2>3, BroadcastSignal
  <2>6. QED
    BY <1>1, <2>1, <2>4, <2>5, QuietStep DEF QueueTypes, TimeTypes
<1>3. CASE SetPeriod(p)
  <2>1. LifecycleTypes' /\ UNCHANGED <<chan, jobs, cur, next, hoppedOn, step, lastSent, viewVars>>
    BY <1>1, <1>3 DEF SetPeriod, LifecycleTypes, lifecycleVars
  <2>2. dur' \in [Participants -> Nat \ {0}]
    BY <1>1, <1>3, ParticipantsAssumption DEF SetPeriod
  <2>3. QED
    BY <1>1, <2>1, <2>2, QuietStep DEF QueueTypes, TimeTypes
<1>4. CASE Pause(p) \/ Continue(p) \/ Stop(p)
  <2>1. LifecycleTypes'
    <3>1. CASE Pause(p)
      BY <1>1, <3>1 DEF Pause, LifecycleTypes
    <3>2. CASE Continue(p)
      BY <1>1, <3>2 DEF Continue, LifecycleTypes
    <3>3. CASE Stop(p)
      BY <1>1, <3>3 DEF Stop, LifecycleTypes
    <3>4. QED
      BY <1>4, <3>1, <3>2, <3>3
  <2>2. \E job \in Jobs : jobs' = Post(jobs, p, job)
    BY <1>4 DEF Pause, Continue, Stop, Jobs
  <2>3. jobs' \in JobsType
    BY <1>1, <2>2, PostType
  <2>4. UNCHANGED <<chan, cur, next, dur, hoppedOn, step, lastSent, viewVars>>
    BY <1>4 DEF Pause, Continue, Stop, timeVars
  <2>5. QED
    BY <1>1, <2>1, <2>3, <2>4, LocalStep
<1>5. CASE ReturnFromTask(p)
  <2>1. LifecycleTypes'
    BY <1>1, <1>5 DEF ReturnFromTask, LifecycleTypes, lifecycleVars
  <2>2. /\ RequestNextStep(p, chan, jobs, next[p], phase[p])
        /\ UNCHANGED <<cur, next, dur, hoppedOn, viewVars>>
    BY <1>5 DEF ReturnFromTask
  <2>3. step' \in [Participants -> StepStates]
    BY <1>1, <1>5 DEF ReturnFromTask, StepStates
  <2>4. QED
    BY <1>1, <2>1, <2>2, <2>3, RequestStep
<1>6. CASE CompleteSimulationStep(p)
  <2>1. LifecycleTypes' /\ jobs' = Post(jobs, p, "Complete")
        /\ UNCHANGED <<chan, cur, next, dur, hoppedOn, lastSent, viewVars>>
    BY <1>1, <1>6 DEF CompleteSimulationStep, LifecycleTypes, lifecycleVars
  <2>2. jobs' \in JobsType
    BY <1>1, <2>1, PostType DEF Jobs
  <2>3. step' \in [Participants -> StepStates]
    BY <1>1, <1>6 DEF CompleteSimulationStep, StepStates
  <2>4. QED
    BY <2>1, <2>2, <2>3, LocalStep
<1>7. \A q \in Participants : Everything(p)[q] = Len(chan[p][q]) /\ Len(chan[p][q]) \in Nat
  BY <1>1 DEF Everything, ChanType
<1>8. CASE Leave(p)
  <2> DEFINE kind == IF phase[p] = "Error" THEN "Lost" ELSE "Bye"
  <2>1. Disconnect(p, kind, Everything(p)) /\ kind \in Kinds \ {"Next"}
    BY <1>8 DEF Leave, Kinds
  <2>2. Everything(p) \in [Participants -> Nat]
    BY <1>7 DEF Everything
  <2>3. \A q \in Participants : Everything(p)[q] <= Len(chan[p][q])
    BY <1>7
  <2> HIDE DEF kind
  <2>4. QED
    BY <2>1, <2>2, <2>3, DisconnectInv
<1>9. CASE Crash(p)
  <2> DEFINE kind == IF phase[p] \in {"None", "Stopped"} THEN "Bye" ELSE "Lost"
  <2>1. PICK lossy \in SUBSET Participants :
          Disconnect(p, kind, [q \in Participants |-> IF q \in lossy THEN 0 ELSE Everything(p)[q]])
    BY <1>9 DEF Crash
  <2> DEFINE kept == [q \in Participants |-> IF q \in lossy THEN 0 ELSE Everything(p)[q]]
  <2>2. kind \in Kinds \ {"Next"}
    BY DEF Kinds
  <2>3. kept \in [Participants -> Nat] /\ \A q \in Participants : kept[q] <= Len(chan[p][q])
    BY <1>7
  <2>4. Disconnect(p, kind, kept)
    BY <2>1
  <2> HIDE DEF kind, kept
  <2>5. QED
    BY <2>2, <2>3, <2>4, DisconnectInv
<1>10. QED
  BY <1>2, <1>3, <1>4, <1>5, <1>6, <1>8, <1>9 DEF User

(* Every step keeps the invariant. *)
LEMMA NextInv == Inv /\ [Next]_vars => Inv'
<1>1. ASSUME Inv, UNCHANGED vars PROVE Inv'
  <2>1. /\ UNCHANGED <<chan, jobs, cur, next, dur, hoppedOn, step, lastSent, known, other>>
        /\ UNCHANGED <<phase, stopRequested, pauseRequested, waiting, sysError, pauses>>
    BY <1>1 DEF vars, lifecycleVars, timeVars, viewVars
  <2>2. LifecycleTypes' /\ QueueTypes' /\ TimeTypes' /\ ViewTypes' /\ OwnTime'
    BY <1>1, <2>1 DEF Inv, LifecycleTypes, QueueTypes, TimeTypes, ViewTypes, OwnTime
  <2>3. ChronologyOf(chan', other', next')
    BY <1>1, <2>1 DEF Inv
  <2>4. QED
    BY <2>2, <2>3 DEF Inv
<1>2. QED
  BY <1>1, IoThreadInv, UserInv, ReceiveInv DEF Next

(* The invariant holds in every reachable state. *)
LEMMA InvHolds == Spec => []Inv
BY InitInv, NextInv, PTL DEF Spec

-----------------------------------------------------------------------------
(* Every variable keeps its type, for any participants, step sizes and       *)
(* bounds: in particular the time of the next step stays a proper point in   *)
(* time, whoever hops on, and every queue holds only messages.               *)
THEOREM TypeCorrect == Spec => []TypeOK
BY InvHolds, InvImplies, PTL

(* No participant ever receives a NextSimTask that lies before the one it    *)
(* has stored: the "Chonology error" of OnReceiveNextSimStep is unreachable  *)
(* in a group of any size, whoever joins, hops on, pauses or crashes.        *)
THEOREM ChronologyHolds == Spec => []Chronology
BY InvHolds, InvImplies, PTL

-----------------------------------------------------------------------------
(* The steps. *)

(* What is known when an update lets the handler of p be called. *)
LEMMA ProcessStarts ==
  ASSUME TimeTypes, OwnTime, NEW r \in Participants, NEW kn \in SUBSET Participants,
         NEW oth \in [Participants -> Task], NEW ch, NEW js,
         ProcessSimulationTimeUpdate(r, kn, oth, ch, js),
         NEW p \in Participants, StepStarts(p)
  PROVE  /\ p = r
         /\ \A q \in kn : next[p] <= oth[q].tp
         /\ next[p] <= cur'[p] /\ cur'[p] \in Nat
         /\ hoppedOn'[p] = hoppedOn[p] => cur'[p] = next[p]
         /\ \A q \in Participants \ {p} : next'[q] = next[q]
<1> DEFINE hop == HandleHopOn(r, kn, oth)
<1>1. CASE ~(IsTimeAdvancePossible(r, kn, oth) /\ ~IsExecutingSimStep(r))
  <2>1. step' = step
    BY <1>1 DEF ProcessSimulationTimeUpdate
  <2>2. QED
    BY <2>1 DEF StepStarts
<1>2. CASE IsTimeAdvancePossible(r, kn, oth) /\ ~IsExecutingSimStep(r)
  <2>1. PICK t : /\ IsStepTime(r, kn, oth, t)
                 /\ IF hop /\ r \in Coordinated
                    THEN AbortHopOnForCoordinatedParticipants(r, t, ch, js)
                    ELSE AdvanceTimeStep(r, t, ch, js)
    BY <1>2 DEF ProcessSimulationTimeUpdate
  <2>2. t \in Nat /\ next[r] <= t
    BY <2>1, StepTime
  <2>3. CASE hop /\ r \in Coordinated
    <3>1. step' = step \/ step' = [step EXCEPT ![r] = "stuck"]
      BY <2>1, <2>3 DEF AbortHopOnForCoordinatedParticipants
    <3>2. QED
      BY <3>1 DEF StepStarts, TimeTypes
  <2>4. CASE ~(hop /\ r \in Coordinated)
    <3>1. /\ step' = [step EXCEPT ![r] = IF r \in Blocking THEN "task" ELSE "open"]
          /\ cur' = [cur EXCEPT ![r] = t] /\ next' = [next EXCEPT ![r] = t + dur[r]]
      BY <2>1, <2>4 DEF AdvanceTimeStep
    <3>2. p = r
      BY <3>1 DEF StepStarts, TimeTypes
    <3>3. cur'[p] = t /\ \A q \in Participants \ {p} : next'[q] = next[q]
      BY <3>1, <3>2 DEF TimeTypes
    <3>4. \A q \in kn : next[p] <= oth[q].tp
      <4>1. \A q \in kn : ~(oth[q].tp < next[p])
        BY <1>2, <3>2 DEF IsTimeAdvancePossible, OtherParticipantHasLowerTimepoint
      <4>2. \A q \in kn : oth[q].tp \in Int
        BY DEF Task
      <4>3. next[p] \in Nat
        BY DEF TimeTypes
      <4>4. QED
        BY <4>1, <4>2, <4>3
    <3>5. hoppedOn'[p] = hoppedOn[p] => cur'[p] = next[p]
      <4>1. hoppedOn' = [hoppedOn EXCEPT ![r] = @ \/ hop]
        BY <1>2 DEF ProcessSimulationTimeUpdate
      <4>2. hoppedOn'[p] = (hoppedOn[p] \/ hop)
        BY <3>2, <4>1 DEF TimeTypes
      <4>3. hop => ~hoppedOn[p]
        BY <3>2 DEF HandleHopOn
      <4>4. ~hop => t = next[p]
        BY <2>1, <3>2 DEF IsStepTime
      <4>5. QED
        BY <3>3, <4>2, <4>3, <4>4
    <3>6. QED
      BY <2>2, <3>2, <3>3, <3>4, <3>5
  <2>5. QED
    BY <2>3, <2>4
<1>3. QED
  BY <1>1, <1>2

(* What is known when any step of the system calls the handler of p. *)
LEMMA StepFacts ==
  ASSUME Inv, Inv', Next, NEW p \in Participants, StepStarts(p)
  PROVE  /\ cur[p] < cur'[p]
         /\ hoppedOn'[p] = hoppedOn[p] => \A q \in known'[p] : cur'[p] <= next[q]
<1>1. TimeTypes /\ OwnTime /\ step \in [Participants -> StepStates]
  BY DEF Inv, TimeTypes
<1>2. other' \in ViewType /\ known' \in [Participants -> SUBSET Participants]
  BY DEF Inv, ViewTypes
<1>3. ASSUME NEW r \in Participants, NEW ch, NEW js,
             ProcessSimulationTimeUpdate(r, known'[r], other'[r], ch, js)
      PROVE  /\ cur[p] < cur'[p]
             /\ hoppedOn'[p] = hoppedOn[p] => \A q \in known'[p] : cur'[p] <= next[q]
  <2>1. known'[r] \in SUBSET Participants /\ other'[r] \in [Participants -> Task]
    BY <1>2 DEF ViewType
  <2>2. /\ p = r
        /\ \A q \in known'[r] : next[p] <= other'[r][q].tp
        /\ next[p] <= cur'[p] /\ cur'[p] \in Nat
        /\ hoppedOn'[p] = hoppedOn[p] => cur'[p] = next[p]
        /\ \A q \in Participants \ {p} : next'[q] = next[q]
    BY <1>1, <1>3, <2>1, ProcessStarts
  <2>3. cur[p] < cur'[p]
    BY <1>1, <2>2 DEF OwnTime, TimeTypes
  <2>4. ASSUME NEW q \in known'[p] PROVE next[p] <= next[q]
    <3>1. CASE q = p
      BY <1>1, <3>1 DEF TimeTypes
    <3>2. CASE q # p
      <4>1. q \in Participants /\ next'[q] = next[q]
        BY <2>1, <2>2, <3>2
      <4>2. other'[p][q] \in Task /\ next[p] <= other'[p][q].tp
        BY <2>1, <2>2, <4>1
      <4>3. other'[p][q].tp <= next'[q]
        BY <4>1 DEF Inv, ChronologyOf, Chronological
      <4>4. other'[p][q].tp \in Int /\ next[p] \in Nat /\ next[q] \in Nat
        BY <1>1, <4>1, <4>2 DEF Task, TimeTypes
      <4>5. QED
        BY <4>1, <4>2, <4>3, <4>4
    <3>3. QED
      BY <3>1, <3>2
  <2>5. QED
    BY <2>2, <2>3, <2>4
<1>4. ASSUME NEW r \in Participants, IoThread(r)
      PROVE  \/ step'[p] \notin {"task", "open"}
             \/ step' = step
             \/ \E ch, js : ProcessSimulationTimeUpdate(r, known'[r], other'[r], ch, js)
  <2>1. CASE ProcessJob(r)
    BY <2>1 DEF ProcessJob, viewVars
  <2>2. CASE CompleteJob(r)
    BY <1>1, <2>2 DEF CompleteJob, StepStarts
  <2>3. CASE ~ProcessJob(r) /\ ~CompleteJob(r)
    BY <1>4, <2>3 DEF IoThread, RequestJob, PauseJob, ContinueJob, StopJob, AbortJob, ErrorJob,
       CallAfterAllParticipantsReplied, StartTime, timeVars
  <2>4. QED
    BY <2>1, <2>2, <2>3
<1>5. ASSUME NEW r \in Participants, User(r)
      PROVE  step'[p] \notin {"task", "open"} \/ step' = step
  BY <1>1, <1>5 DEF User, StartLifecycle, SetPeriod, Pause, Continue, Stop, ReturnFromTask,
     CompleteSimulationStep, Leave, Crash, Disconnect, timeVars, StepStarts
<1>6. ASSUME NEW r \in Participants, NEW q \in Participants, Receive(r, q)
      PROVE  \/ step' = step
             \/ \E ch, js : ProcessSimulationTimeUpdate(r, known'[r], other'[r], ch, js)
  <2>1. CASE ReceiveNextSimTask(r, q)
    BY <2>1 DEF ReceiveNextSimTask
  <2>2. CASE ReceiveDisconnect(r, q) \/ ReceiveConnectionLost(r, q)
    BY <2>2 DEF ReceiveDisconnect, ReceiveConnectionLost, OnPeerShutdown, timeVars
  <2>3. CASE ReceiveServiceCreated(r, q) \/ ReceiveCall(r, q) \/ ReceiveCallReturn(r, q)
             \/ ReceiveAbortSimulation(r, q)
    BY <2>3 DEF ReceiveServiceCreated, ReceiveCall, ReceiveCallReturn,
       ReceiveAbortSimulation, timeVars
  <2>4. QED
    BY <1>6, <2>1, <2>2, <2>3 DEF Receive
<1>7. ~(step' = step) /\ step'[p] \in {"task", "open"}
  BY DEF StepStarts
<1>8. \E r \in Participants :
        \E ch, js : ProcessSimulationTimeUpdate(r, known'[r], other'[r], ch, js)
  BY <1>4, <1>5, <1>6, <1>7 DEF Next
<1>9. QED
  BY <1>3, <1>8

(* The virtual time of every participant only increases. *)
THEOREM TimeIncreases == Spec => TimeOnlyIncreases
<1>1. Inv /\ Inv' /\ [Next]_vars =>
        [\A p \in Participants : StepStarts(p) => cur'[p] > cur[p]]_vars
  <2>1. ASSUME Inv, Inv', Next, NEW p \in Participants, StepStarts(p)
        PROVE  cur'[p] > cur[p]
    BY <2>1, StepFacts
  <2>2. QED
    BY <2>1
<1>2. QED
  BY <1>1, InvHolds, PTL DEF Spec, TimeOnlyIncreases

(* The rule of conservative synchronization: in a group of any size, with    *)
(* messages that are arbitrarily late, no participant starts a step while    *)
(* another one it knows still has an earlier one ahead, unless it hops on.   *)
THEOREM StepsWait == Spec => StepWaitsForOthers
<1>1. Inv /\ Inv' /\ [Next]_vars =>
        [\A p \in Participants :
           StepStarts(p) /\ hoppedOn'[p] = hoppedOn[p] =>
             \A q \in known'[p] : cur'[p] <= next[q]]_vars
  <2>1. ASSUME Inv, Inv', Next, NEW p \in Participants, StepStarts(p),
               hoppedOn'[p] = hoppedOn[p]
        PROVE  \A q \in known'[p] : cur'[p] <= next[q]
    BY <2>1, StepFacts
  <2>2. QED
    BY <2>1
<1>2. QED
  BY <1>1, InvHolds, PTL DEF Spec, StepWaitsForOthers
=============================================================================
