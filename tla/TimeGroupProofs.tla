-------------------------- MODULE TimeGroupProofs --------------------------
(***************************************************************************)
(* More theorems about TimeSync: what the barrier of ServicesCreatedState  *)
(* achieves, for any number of participants, whoever joins or leaves; that *)
(* participants that start together implement ConservativeTime; and that a *)
(* late joiner starts at the advanced time.                                *)
(***************************************************************************)
EXTENDS TimeSyncProofs

-----------------------------------------------------------------------------
(* What is under way on a connection. *)

Says(s, kind) == \E i \in 1..Len(s) : s[i].kind = kind

(* The announcement of the service is ahead of any call.                   *)
GreetsFirst(s) ==
  \E i \in 1..Len(s) :
    s[i].kind = "Created" /\ \A j \in 1..Len(s) : s[j].kind = "Call" => i < j

(* The connection goes from s to t, as far as the barrier depends on it.   *)
Grows(s, t) ==
  /\ Says(t, "Call") => Says(s, "Call")
  /\ Says(t, "Reply") => Says(s, "Reply")
  /\ Says(t, "Bye") => Says(s, "Bye")
  /\ Says(t, "Lost") => Says(s, "Lost")
  /\ Says(s, "Created") => Says(t, "Created")
  /\ GreetsFirst(s) => GreetsFirst(t)

LEMMA GrowsTransitive ==
  /\ \A s : Grows(s, s)
  /\ \A s, t, u : Grows(s, t) /\ Grows(t, u) => Grows(s, u)
BY DEF Grows

LEMMA AppendSays ==
  ASSUME NEW s \in Seq(Message), NEW m \in Message
  PROVE  /\ \A k : Says(Append(s, m), k) <=> Says(s, k) \/ m.kind = k
         /\ GreetsFirst(s) => GreetsFirst(Append(s, m))
         /\ Says(s, "Created") /\ ~Says(s, "Call") /\ m.kind = "Call" => GreetsFirst(Append(s, m))
<1> DEFINE t == Append(s, m)
<1>1. /\ Len(s) \in Nat /\ Len(t) = Len(s) + 1 /\ t[Len(s) + 1] = m
      /\ \A i \in 1..Len(s) : t[i] = s[i]
  OBVIOUS
<1>2. \A i : i \in 1..(Len(s) + 1) <=> i = Len(s) + 1 \/ i \in 1..Len(s)
  BY <1>1
<1> HIDE DEF t
<1>3. \A k : Says(t, k) <=> Says(s, k) \/ m.kind = k
  BY <1>1, <1>2 DEF Says
<1>4. ASSUME GreetsFirst(s) PROVE GreetsFirst(t)
  <2>1. PICK i \in 1..Len(s) :
          s[i].kind = "Created" /\ \A j \in 1..Len(s) : s[j].kind = "Call" => i < j
    BY <1>4 DEF GreetsFirst
  <2>2. i \in 1..Len(t) /\ t[i].kind = "Created" /\ i < Len(s) + 1
    BY <1>1, <1>2, <2>1
  <2>3. \A j \in 1..Len(t) : t[j].kind = "Call" => i < j
    BY <1>1, <1>2, <2>1, <2>2
  <2> QED BY <2>2, <2>3 DEF GreetsFirst
<1>5. ASSUME Says(s, "Created"), ~Says(s, "Call") PROVE GreetsFirst(t)
  <2>1. PICK i \in 1..Len(s) : s[i].kind = "Created"
    BY <1>5 DEF Says
  <2>2. i \in 1..Len(t) /\ t[i].kind = "Created" /\ i < Len(s) + 1
    BY <1>1, <1>2, <2>1
  <2>3. \A j \in 1..Len(t) : t[j].kind = "Call" => i < j
    BY <1>1, <1>2, <1>5, <2>2 DEF Says
  <2> QED BY <2>2, <2>3 DEF GreetsFirst
<1> QED BY <1>3, <1>4, <1>5 DEF t

(* Whatever p sends besides the call and its replies. *)
LEMMA AppendGrows ==
  ASSUME NEW s \in Seq(Message), NEW m \in Message,
         m.kind \in {"Created", "Next", "Abort"}
  PROVE  Grows(s, Append(s, m))
BY AppendSays DEF Grows

LEMMA TailGrows ==
  ASSUME NEW s \in Seq(Message), s # <<>>
  PROVE  /\ \A k : Says(Tail(s), k) => Says(s, k)
         /\ Says(s, Head(s).kind)
         /\ Head(s).kind = "Call" => ~GreetsFirst(s)
         /\ Head(s).kind # "Created" => Grows(s, Tail(s))
<1> DEFINE t == Tail(s)
<1>1. /\ Len(s) \in Nat /\ Len(s) >= 1 /\ Len(t) = Len(s) - 1 /\ Head(s) = s[1]
      /\ \A i \in 1..Len(t) : t[i] = s[i + 1] /\ i + 1 \in 1..Len(s)
  OBVIOUS
<1>2. \A i \in 1..Len(s) : i = 1 \/ (i - 1 \in 1..Len(t) /\ t[i - 1] = s[i])
  <2> SUFFICES ASSUME NEW i \in 1..Len(s), i # 1 PROVE i - 1 \in 1..Len(t) /\ t[i - 1] = s[i]
    OBVIOUS
  <2>1. i - 1 \in 1..Len(t) /\ (i - 1) + 1 = i
    BY <1>1
  <2> QED BY <1>1, <2>1
<1> HIDE DEF t
<1>3. \A k : Says(t, k) => Says(s, k)
  BY <1>1 DEF Says
<1>4. Says(s, Head(s).kind)
  BY <1>1 DEF Says
<1>5. Head(s).kind = "Call" => ~GreetsFirst(s)
  BY <1>1 DEF GreetsFirst
<1>6. ASSUME Head(s).kind # "Created" PROVE Grows(s, t)
  <2>1. Says(s, "Created") => Says(t, "Created")
    BY <1>1, <1>2, <1>6 DEF Says
  <2>2. ASSUME GreetsFirst(s) PROVE GreetsFirst(t)
    <3>1. PICK i \in 1..Len(s) :
            s[i].kind = "Created" /\ \A j \in 1..Len(s) : s[j].kind = "Call" => i < j
      BY <2>2 DEF GreetsFirst
    <3>2. i - 1 \in 1..Len(t) /\ t[i - 1].kind = "Created"
      BY <1>1, <1>2, <1>6, <3>1
    <3>3. ASSUME NEW j \in 1..Len(t), t[j].kind = "Call" PROVE i - 1 < j
      <4>1. j + 1 \in 1..Len(s) /\ s[j + 1].kind = "Call"
        BY <1>1, <3>3
      <4> QED BY <3>1, <4>1
    <3> QED BY <3>2, <3>3 DEF GreetsFirst
  <2> QED BY <1>3, <2>1, <2>2 DEF Grows
<1> QED BY <1>3, <1>4, <1>5, <1>6 DEF t

-----------------------------------------------------------------------------
(* The barrier. *)

(* A participant that is in state ph, awaits the replies w and is not      *)
(* known to q, with out and in under way to and from q, last announcement  *)
(* ls and time c: it has never run, and q's reply is still outstanding, or *)
(* not yet asked for.                                                      *)
Stranger(ph, w, q, out, in, ls, c) ==
  /\ ph \notin {"Ready", "Running", "Paused"} /\ ls = -1 /\ c = -1
  /\ ~Says(in, "Reply")
  /\ \/ /\ w = {} /\ ph # "Barrier" /\ ~Says(out, "Call")
        /\ ph = "Created" => Says(out, "Created")
     \/ q \in w /\ ph \notin {"None", "Created"} /\ GreetsFirst(out)

Introduced ==
  /\ \A p, q \in Participants :
       p # q /\ phase[p] # "Off" /\ phase[q] # "Off" /\ p \notin known[q] =>
         Stranger(phase[p], waiting[p], q, chan[p][q], chan[q][p], lastSent[p], cur[p])
  /\ \A p, q \in Participants :
       Says(chan[p][q], "Bye") \/ Says(chan[p][q], "Lost") => phase[p] = "Off"

(* The steps that neither announce a service, nor call, nor reply, nor end *)
(* a connection.                                                           *)
LEMMA IntroducedStep ==
  ASSUME Introduced,
         \A p, q \in Participants : Grows(chan[p][q], chan'[p][q]),
         \A p, q \in Participants : p \in known[q] /\ phase[p] # "Off" => p \in known'[q],
         \A p \in Participants :
           \/ phase'[p] = phase[p]
           \/ phase'[p] \in {"Stopped", "Error"} /\ phase[p] # "Off"
           \/ phase[p] \in {"Ready", "Running", "Paused"} /\ phase'[p] # "Off"
           \/ waiting[p] # {} /\ waiting'[p] = {} /\ phase[p] # "Off" /\ phase'[p] # "Off",
         \A p \in Participants :
           \/ waiting'[p] = waiting[p]
           \/ \E q \in Participants :
                /\ waiting'[p] = waiting[p] \ {q}
                /\ Says(chan[q][p], "Reply") \/ phase[q] = "Off",
         \A p \in Participants :
           \/ lastSent'[p] = lastSent[p] /\ cur'[p] = cur[p]
           \/ phase[p] \in {"Ready", "Running", "Paused"}
  PROVE  Introduced'
<1>1. \A p \in Participants : phase[p] = "Off" <=> phase'[p] = "Off"
  OBVIOUS
<1>2. ASSUME NEW p \in Participants, NEW q \in Participants,
             p # q, phase'[p] # "Off", phase'[q] # "Off", p \notin known'[q]
      PROVE  Stranger(phase'[p], waiting'[p], q, chan'[p][q], chan'[q][p], lastSent'[p], cur'[p])
  <2>1. phase[p] # "Off" /\ phase[q] # "Off" /\ p \notin known[q]
    BY <1>1, <1>2
  <2>2. Stranger(phase[p], waiting[p], q, chan[p][q], chan[q][p], lastSent[p], cur[p])
    BY <1>2, <2>1 DEF Introduced
  <2>3. Grows(chan[p][q], chan'[p][q]) /\ Grows(chan[q][p], chan'[q][p])
    OBVIOUS
  <2>4. phase[p] \notin {"Ready", "Running", "Paused"} /\ ~Says(chan[q][p], "Reply")
    BY <2>2 DEF Stranger
  <2>5. lastSent'[p] = lastSent[p] /\ cur'[p] = cur[p]
    BY <2>4
  <2>6. waiting'[p] = {} <=> waiting[p] = {}
    <3>1. CASE waiting'[p] = waiting[p]
      BY <3>1
    <3>2. CASE waiting'[p] # waiting[p]
      <4>1. PICK r \in Participants : /\ waiting'[p] = waiting[p] \ {r}
                                      /\ Says(chan[r][p], "Reply") \/ phase[r] = "Off"
        BY <3>2
      <4>2. r # q
        BY <2>1, <2>4, <4>1
      <4>3. waiting[p] = {} \/ q \in waiting[p]
        BY <2>2 DEF Stranger
      <4> QED BY <4>1, <4>2, <4>3
    <3> QED BY <3>1, <3>2
  <2>7. q \in waiting[p] => q \in waiting'[p]
    BY <2>1, <2>4
  <2>8. phase'[p] = phase[p] \/ phase'[p] \in {"Stopped", "Error"}
    BY <2>4, <2>6
  <2>9. ~Says(chan'[q][p], "Reply")
    BY <2>3, <2>4 DEF Grows
  <2> QED BY <2>2, <2>3, <2>5, <2>6, <2>7, <2>8, <2>9 DEF Stranger, Grows
<1>3. ASSUME NEW p \in Participants, NEW q \in Participants,
             Says(chan'[p][q], "Bye") \/ Says(chan'[p][q], "Lost")
      PROVE  phase'[p] = "Off"
  <2>1. Says(chan[p][q], "Bye") \/ Says(chan[p][q], "Lost")
    BY <1>3 DEF Grows
  <2> QED BY <1>1, <2>1 DEF Introduced
<1> QED BY <1>2, <1>3 DEF Introduced

-----------------------------------------------------------------------------
(* The connections. *)

LEMMA BroadcastGrows ==
  ASSUME NEW ch \in ChanType, NEW p \in Participants, NEW m \in Message,
         m.kind \in {"Created", "Next", "Abort"}
  PROVE  /\ Broadcast(ch, p, m) \in ChanType
         /\ \A x, y \in Participants : Grows(ch[x][y], Broadcast(ch, p, m)[x][y])
<1>1. \A x, y \in Participants : ch[x][y] \in Seq(Message)
  BY DEF ChanType
<1>2. \A x, y \in Participants : Grows(ch[x][y], ch[x][y]) /\ Grows(ch[x][y], Append(ch[x][y], m))
  BY <1>1, AppendGrows, GrowsTransitive
<1>3. \A x, y \in Participants :
        \/ Broadcast(ch, p, m)[x][y] = ch[x][y]
        \/ Broadcast(ch, p, m)[x][y] = Append(ch[x][y], m)
  BY BroadcastQueues
<1> QED BY <1>2, <1>3, BroadcastQueues, ZenonT(30)

LEMMA RequestGrows ==
  ASSUME TimeTypes, NEW ch \in ChanType, NEW js, NEW p \in Participants, NEW nx \in Nat, NEW ph,
         RequestNextStep(p, ch, js, nx, ph)
  PROVE  /\ \A x, y \in Participants : Grows(ch[x][y], chan'[x][y])
         /\ \A x \in Participants : lastSent'[x] = lastSent[x] \/ (x = p /\ ph = "Running")
<1>1. dur[p] \in Nat /\ lastSent \in [Participants -> Nat \cup {-1}]
  BY DEF TimeTypes
<1>2. PICK m : m = NextSimTask(nx, dur[p])
  OBVIOUS
<1>3. m \in Message /\ m.kind = "Next"
  BY <1>1, <1>2, Messages DEF NextSimTask
<1>4. chan' = ch \/ chan' = Broadcast(ch, p, m)
  BY <1>2 DEF RequestNextStep
<1>5. \A x, y \in Participants : Grows(ch[x][y], chan'[x][y])
  BY <1>3, <1>4, BroadcastGrows, GrowsTransitive
<1>6. \A x \in Participants : lastSent'[x] = lastSent[x] \/ (x = p /\ ph = "Running")
  BY <1>1 DEF RequestNextStep
<1> QED BY <1>5, <1>6

LEMMA ProcessGrows ==
  ASSUME TimeTypes, OwnTime, NEW ch \in ChanType, NEW js, NEW p \in Participants,
         NEW kn \in SUBSET Participants, NEW oth \in [Participants -> Task],
         ProcessSimulationTimeUpdate(p, kn, oth, ch, js)
  PROVE  /\ \A x, y \in Participants : Grows(ch[x][y], chan'[x][y])
         /\ \A x \in Participants :
              (lastSent'[x] = lastSent[x] /\ cur'[x] = cur[x]) \/ phase[x] = "Running"
<1>1. CASE ~(IsTimeAdvancePossible(p, kn, oth) /\ ~IsExecutingSimStep(p))
  <2>1. chan' = ch /\ UNCHANGED <<cur, lastSent>>
    BY <1>1 DEF ProcessSimulationTimeUpdate
  <2> QED BY <2>1, GrowsTransitive
<1>2. CASE IsTimeAdvancePossible(p, kn, oth) /\ ~IsExecutingSimStep(p)
  <2>1. phase[p] = "Running"
    BY <1>2 DEF IsTimeAdvancePossible, MayAdvance
  <2>2. PICK t : /\ IsStepTime(p, kn, oth, t)
                 /\ \/ AbortHopOnForCoordinatedParticipants(p, t, ch, js)
                    \/ AdvanceTimeStep(p, t, ch, js)
    BY <1>2 DEF ProcessSimulationTimeUpdate
  <2>3. t \in Nat /\ next[p] <= t
    BY <2>2, StepTime
  <2>4. CASE AdvanceTimeStep(p, t, ch, js)
    <3>1. chan' = ch /\ lastSent' = lastSent /\ \A x \in Participants : cur'[x] = cur[x] \/ x = p
      BY <2>4 DEF AdvanceTimeStep, TimeTypes
    <3> QED BY <2>1, <3>1, GrowsTransitive
  <2>5. CASE AbortHopOnForCoordinatedParticipants(p, t, ch, js)
    <3>1. PICK m : m = Signal("Abort")
      OBVIOUS
    <3>2. m \in Message /\ m.kind = "Abort"
      BY <3>1, Messages DEF Kinds
    <3>3. PICK chA : chA = Broadcast(ch, p, m)
      OBVIOUS
    <3>4. chA \in ChanType /\ \A x, y \in Participants : Grows(ch[x][y], chA[x][y])
      BY <3>2, <3>3, BroadcastGrows
    <3>5. PICK jsA : jsA = Post(js, p, "Abort")
      OBVIOUS
    <3>6. /\ cur' = cur
          /\ RequestNextStep(p, chA, jsA, t, "Running") \/ (chan' = chA /\ lastSent' = lastSent)
      BY <2>5, <3>1, <3>3, <3>5 DEF AbortHopOnForCoordinatedParticipants
    <3>7. CASE chan' = chA /\ lastSent' = lastSent
      BY <3>4, <3>6, <3>7
    <3>8. CASE RequestNextStep(p, chA, jsA, t, "Running")
      <4>1. /\ \A x, y \in Participants : Grows(chA[x][y], chan'[x][y])
            /\ \A x \in Participants : lastSent'[x] = lastSent[x] \/ x = p
        <5>1. TimeTypes /\ chA \in ChanType /\ t \in Nat
          BY <2>3, <3>4
        <5>2. PICK ph : ph = "Running"
          OBVIOUS
        <5>3. RequestNextStep(p, chA, jsA, t, ph)
          BY <3>8, <5>2
        <5>4. \A x, y \in Participants : Grows(chA[x][y], chan'[x][y])
          BY <5>1, <5>3, RequestGrows
        <5>5. \A x \in Participants : lastSent'[x] = lastSent[x] \/ (x = p /\ ph = "Running")
          BY <5>1, <5>3, RequestGrows
        <5> QED BY <5>4, <5>5
      <4>2. \A x, y \in Participants : Grows(ch[x][y], chan'[x][y])
        BY <3>4, <4>1, GrowsTransitive
      <4> QED BY <2>1, <3>6, <4>1, <4>2
    <3> QED BY <3>6, <3>7, <3>8
  <2> QED BY <2>2, <2>4, <2>5
<1> QED BY <1>1, <1>2

LEMMA TakenGrows ==
  ASSUME chan \in ChanType, NEW p \in Participants, NEW q \in Participants, NEW kind,
         Receives(p, q, kind)
  PROVE  /\ Taken(p, q) \in ChanType
         /\ Says(chan[q][p], kind)
         /\ Taken(p, q)[q][p] = Tail(chan[q][p])
         /\ \A x, y \in Participants : x # q \/ y # p => Taken(p, q)[x][y] = chan[x][y]
         /\ kind # "Created" => \A x, y \in Participants : Grows(chan[x][y], Taken(p, q)[x][y])
<1>1. chan[q][p] \in Seq(Message) /\ chan[q][p] # <<>> /\ Head(chan[q][p]).kind = kind
  BY DEF Receives, ChanType
<1>2. /\ Taken(p, q)[q][p] = Tail(chan[q][p])
      /\ \A x, y \in Participants : x # q \/ y # p => Taken(p, q)[x][y] = chan[x][y]
  BY DEF Taken, ChanType
<1>3. Taken(p, q) \in ChanType
  BY <1>1 DEF Taken, ChanType
<1>4. /\ Says(chan[q][p], kind)
      /\ kind # "Created" => Grows(chan[q][p], Tail(chan[q][p]))
  BY <1>1, TailGrows
<1> QED BY <1>2, <1>3, <1>4, GrowsTransitive

-----------------------------------------------------------------------------
(* The steps. *)

LEMMA Typing ==
  ASSUME Inv
  PROVE  /\ phase \in [Participants -> Phases] /\ waiting \in [Participants -> SUBSET Participants]
         /\ known \in [Participants -> SUBSET Participants] /\ other \in ViewType
         /\ lastSent \in [Participants -> Nat \cup {-1}] /\ cur \in [Participants -> Nat \cup {-1}]
         /\ next \in [Participants -> Nat] /\ dur \in [Participants -> Nat \ {0}]
         /\ chan \in ChanType /\ jobs \in JobsType
         /\ TimeTypes /\ OwnTime
         /\ \A x, y \in Participants : chan[x][y] \in Seq(Message)
BY DEF Inv, LifecycleTypes, QueueTypes, TimeTypes, ViewTypes, ChanType

LEMMA IntroducedInit == Init => Introduced
<1> SUFFICES ASSUME Init PROVE Introduced
  OBVIOUS
<1>1. \A k : ~Says(<<>>, k)
  BY DEF Says
<1>2. \A p, q \in Participants :
        /\ phase[p] = "None" /\ waiting[p] = {} /\ chan[p][q] = <<>> /\ chan[q][p] = <<>>
        /\ lastSent[p] = -1 /\ cur[p] = -1
  BY DEF Init
<1> QED BY <1>1, <1>2 DEF Introduced, Stranger

LEMMA IntroducedIo ==
  ASSUME Inv, Introduced, NEW p \in Participants, IoThread(p)
  PROVE  Introduced'
<1>1. /\ phase \in [Participants -> Phases] /\ waiting \in [Participants -> SUBSET Participants]
      /\ known \in [Participants -> SUBSET Participants] /\ other \in ViewType
      /\ lastSent \in [Participants -> Nat \cup {-1}] /\ cur \in [Participants -> Nat \cup {-1}]
      /\ next \in [Participants -> Nat]
      /\ chan \in ChanType /\ TimeTypes /\ OwnTime
      /\ \A x, y \in Participants : chan[x][y] \in Seq(Message)
  BY Typing
<1>2. CASE ProcessJob(p)
  <2>1. known[p] \in SUBSET Participants /\ other[p] \in [Participants -> Task]
    BY <1>1 DEF ViewType
  <2>2. /\ ProcessSimulationTimeUpdate(p, known[p], other[p], chan, Rest(p))
        /\ UNCHANGED <<phase, waiting, known>>
    BY <1>2 DEF ProcessJob, lifecycleVars, viewVars
  <2>3. /\ \A x, y \in Participants : Grows(chan[x][y], chan'[x][y])
        /\ \A x \in Participants :
             (lastSent'[x] = lastSent[x] /\ cur'[x] = cur[x]) \/ phase[x] = "Running"
    BY <1>1, <2>1, <2>2, ProcessGrows
  <2> QED BY <2>2, <2>3, IntroducedStep
<1>3. CASE RequestJob(p) \/ CompleteJob(p)
  <2>1. PICK ph : ph = phase[p]
    OBVIOUS
  <2>2. RequestNextStep(p, chan, Rest(p), next[p], ph) /\ UNCHANGED <<phase, waiting, known, cur>>
    BY <1>3, <2>1 DEF RequestJob, CompleteJob, lifecycleVars, viewVars
  <2>3. next[p] \in Nat
    BY <1>1
  <2>4. /\ \A x, y \in Participants : Grows(chan[x][y], chan'[x][y])
        /\ \A x \in Participants : lastSent'[x] = lastSent[x] \/ (x = p /\ ph = "Running")
    <3>1. PICK nx \in Nat : nx = next[p]
      BY <2>3
    <3>2. RequestNextStep(p, chan, Rest(p), nx, ph) /\ TimeTypes /\ chan \in ChanType
      BY <1>1, <2>2, <3>1
    <3>3. \A x, y \in Participants : Grows(chan[x][y], chan'[x][y])
      BY <3>2, RequestGrows
    <3>4. \A x \in Participants : lastSent'[x] = lastSent[x] \/ (x = p /\ ph = "Running")
      BY <3>2, RequestGrows
    <3> QED BY <3>3, <3>4
  <2> QED BY <2>1, <2>2, <2>4, IntroducedStep
<1>4. CASE PauseJob(p) \/ ContinueJob(p)
  <2>1. /\ UNCHANGED <<chan, waiting, known, lastSent, cur>>
        /\ \A x \in Participants :
             \/ phase'[x] = phase[x]
             \/ phase[x] \in {"Running", "Paused"} /\ phase'[x] # "Off"
    BY <1>1, <1>4 DEF PauseJob, ContinueJob, viewVars, timeVars
  <2> QED BY <2>1, GrowsTransitive, IntroducedStep
<1>5. CASE StopJob(p) \/ AbortJob(p) \/ ErrorJob(p)
  <2>1. /\ UNCHANGED <<chan, waiting, known, lastSent, cur>>
        /\ \A x \in Participants :
             \/ phase'[x] = phase[x]
             \/ phase'[x] \in {"Stopped", "Error"} /\ phase[x] # "Off"
    BY <1>1, <1>5 DEF StopJob, AbortJob, ErrorJob, NextJob, IoThreadIsFree, viewVars, timeVars
  <2> QED BY <2>1, GrowsTransitive, IntroducedStep
<1>6. CASE StartTime(p)
  <2>1. RequestNextStep(p, chan, jobs, next[p], "Running") /\ UNCHANGED <<waiting, known, cur>>
    BY <1>6 DEF StartTime, viewVars
  <2>2. PICK ph : ph = "Running"
    OBVIOUS
  <2>3. RequestNextStep(p, chan, jobs, next[p], ph) /\ next[p] \in Nat
    BY <1>1, <2>1, <2>2
  <2>4. /\ \A x, y \in Participants : Grows(chan[x][y], chan'[x][y])
        /\ \A x \in Participants : lastSent'[x] = lastSent[x] \/ (x = p /\ ph = "Running")
    <3>1. PICK nx \in Nat : nx = next[p]
      BY <2>3
    <3>2. RequestNextStep(p, chan, jobs, nx, ph) /\ TimeTypes /\ chan \in ChanType
      BY <1>1, <2>3, <3>1
    <3>3. \A x, y \in Participants : Grows(chan[x][y], chan'[x][y])
      BY <3>2, RequestGrows
    <3>4. \A x \in Participants : lastSent'[x] = lastSent[x] \/ (x = p /\ ph = "Running")
      BY <3>2, RequestGrows, SMTT(30)
    <3> QED BY <3>3, <3>4
  <2>5. /\ phase[p] = "Ready" /\ phase'[p] = "Running"
        /\ \A x \in Participants \ {p} : phase'[x] = phase[x]
    BY <1>1, <1>6 DEF StartTime
  <2> QED BY <2>1, <2>4, <2>5, IntroducedStep
<1>7. CASE CallAfterAllParticipantsReplied(p)
  <2>1. PICK m : m = Signal("Call")
    OBVIOUS
  <2>2. m \in Message /\ m.kind = "Call"
    BY <2>1, Messages DEF Kinds
  <2>3. /\ phase[p] = "Created" /\ UNCHANGED <<known, lastSent, cur>>
        /\ waiting'[p] = Peers(p) /\ \A x \in Participants \ {p} : waiting'[x] = waiting[x]
        /\ phase'[p] = IF Peers(p) = {} THEN "Ready" ELSE "Barrier"
        /\ \A x \in Participants \ {p} : phase'[x] = phase[x]
        /\ chan' = Broadcast(chan, p, m)
    BY <1>1, <1>7, <2>1 DEF CallAfterAllParticipantsReplied, viewVars, timeVars
  <2>4. \A x, y \in Participants :
          chan'[x][y] = IF x = p /\ y # p /\ phase[y] # "Off" THEN Append(chan[x][y], m) ELSE chan[x][y]
    BY <1>1, <2>3 DEF Broadcast, ChanType
  <2>5. ASSUME NEW x \in Participants, NEW y \in Participants,
               x # y, phase'[x] # "Off", phase'[y] # "Off", x \notin known'[y]
        PROVE  Stranger(phase'[x], waiting'[x], y, chan'[x][y], chan'[y][x], lastSent'[x], cur'[x])
    <3>1. phase[x] # "Off" /\ phase[y] # "Off"
      BY <2>3, <2>5
    <3>2. Stranger(phase[x], waiting[x], y, chan[x][y], chan[y][x], lastSent[x], cur[x])
      BY <2>3, <2>5, <3>1 DEF Introduced
    <3>3. CASE x = p
      <4>1. y \in Peers(p)
        BY <2>5, <3>1, <3>3 DEF Peers
      <4>2. phase'[x] = "Barrier" /\ y \in waiting'[x]
        BY <2>3, <3>3, <4>1
      <4>3. chan'[x][y] = Append(chan[x][y], m) /\ chan'[y][x] = chan[y][x]
        BY <2>4, <2>5, <3>1, <3>3
      <4>4. Says(chan[x][y], "Created") /\ ~Says(chan[x][y], "Call") /\ ~Says(chan[y][x], "Reply")
        BY <2>3, <3>2, <3>3 DEF Stranger
      <4>5. GreetsFirst(chan'[x][y])
        BY <1>1, <2>2, <4>3, <4>4, AppendSays
      <4>6. lastSent'[x] = -1 /\ cur'[x] = -1
        BY <2>3, <3>2 DEF Stranger
      <4> QED BY <4>2, <4>3, <4>4, <4>5, <4>6 DEF Stranger
    <3>4. CASE x # p
      <4>1. phase'[x] = phase[x] /\ waiting'[x] = waiting[x] /\ chan'[x][y] = chan[x][y]
        BY <2>3, <2>4, <3>4
      <4>2. ~Says(chan'[y][x], "Reply")
        <5>1. ~Says(chan[y][x], "Reply")
          BY <3>2 DEF Stranger
        <5>2. chan'[y][x] \in {chan[y][x], Append(chan[y][x], m)}
          BY <2>4
        <5> QED BY <1>1, <2>2, <5>1, <5>2, AppendSays, ZenonT(30)
      <4>3. lastSent'[x] = lastSent[x] /\ cur'[x] = cur[x]
        BY <2>3
      <4> QED BY <3>2, <4>1, <4>2, <4>3 DEF Stranger
    <3> QED BY <3>3, <3>4
  <2>6. ASSUME NEW x \in Participants, NEW y \in Participants,
               Says(chan'[x][y], "Bye") \/ Says(chan'[x][y], "Lost")
        PROVE  phase'[x] = "Off"
    <3>1. Says(chan[x][y], "Bye") \/ Says(chan[x][y], "Lost")
      <4>1. chan'[x][y] \in {chan[x][y], Append(chan[x][y], m)}
        BY <2>4
      <4> QED BY <1>1, <2>2, <2>6, <4>1, AppendSays, ZenonT(30)
    <3>2. phase[x] = "Off"
      BY <3>1 DEF Introduced
    <3> QED BY <2>3, <3>2
  <2> QED BY <2>5, <2>6 DEF Introduced
<1> QED BY <1>2, <1>3, <1>4, <1>5, <1>6, <1>7 DEF IoThread

(* One peer less to wait for. *)
LEMMA BarrierStep ==
  ASSUME Inv, NEW p \in Participants, NEW q \in Participants, phase[p] # "Off",
         BarrierWithout(p, q), Says(chan[q][p], "Reply") \/ phase[q] = "Off"
  PROVE  /\ \A x \in Participants :
              \/ phase'[x] = phase[x]
              \/ waiting[x] # {} /\ waiting'[x] = {} /\ phase[x] # "Off" /\ phase'[x] # "Off"
         /\ \A x \in Participants :
              \/ waiting'[x] = waiting[x]
              \/ \E y \in Participants :
                   /\ waiting'[x] = waiting[x] \ {y}
                   /\ Says(chan[y][x], "Reply") \/ phase[y] = "Off"
<1>1. phase \in [Participants -> Phases] /\ waiting \in [Participants -> SUBSET Participants]
  BY Typing
<1>2. waiting'[p] = waiting[p] \ {q} /\ \A x \in Participants \ {p} : waiting'[x] = waiting[x]
  BY <1>1 DEF BarrierWithout
<1>3. /\ phase'[p] = phase[p] \/ (waiting[p] # {} /\ waiting'[p] = {} /\ phase'[p] = "Ready")
      /\ \A x \in Participants \ {p} : phase'[x] = phase[x]
  BY <1>1, <1>2 DEF BarrierWithout
<1> QED BY <1>2, <1>3

LEMMA IntroducedReceive ==
  ASSUME Inv, Introduced, NEW p \in Participants, NEW q \in Participants, Receive(p, q)
  PROVE  Introduced'
<1>1. /\ phase \in [Participants -> Phases] /\ waiting \in [Participants -> SUBSET Participants]
      /\ known \in [Participants -> SUBSET Participants] /\ other \in ViewType
      /\ next \in [Participants -> Nat] /\ dur \in [Participants -> Nat \ {0}]
      /\ chan \in ChanType /\ TimeTypes /\ OwnTime
      /\ \A x, y \in Participants : chan[x][y] \in Seq(Message)
  BY Typing
<1>2. ASSUME NEW kind, Receives(p, q, kind)
      PROVE  /\ phase[p] # "Off" /\ Taken(p, q) \in ChanType /\ Says(chan[q][p], kind)
             /\ Taken(p, q)[q][p] = Tail(chan[q][p])
             /\ \A x, y \in Participants : x # q \/ y # p => Taken(p, q)[x][y] = chan[x][y]
             /\ kind # "Created" => \A x, y \in Participants : Grows(chan[x][y], Taken(p, q)[x][y])
  <2>1. phase[p] # "Off"
    BY <1>2 DEF Receives, IoThreadIsFree
  <2> QED BY <1>1, <1>2, <2>1, TakenGrows
<1>3. CASE ReceiveServiceCreated(p, q)
  <2>1. Receives(p, q, "Created") /\ UNCHANGED <<phase, waiting, lastSent, cur>>
    BY <1>3 DEF ReceiveServiceCreated, lifecycleVars, timeVars
  <2>2. known'[p] = known[p] \cup {q} /\ \A x \in Participants \ {p} : known'[x] = known[x]
    BY <1>1, <1>3 DEF ReceiveServiceCreated
  <2>3. PICK ch \in ChanType : ch = Taken(p, q)
    BY <1>2, <2>1
  <2>4. PICK m : m = NextSimTask(next[p], dur[p])
    OBVIOUS
  <2>5. m \in Message /\ m.kind = "Next"
    BY <1>1, <2>4, Messages DEF NextSimTask
  <2>6. chan' = ch \/ chan' = Broadcast(ch, p, m)
    BY <1>3, <2>3, <2>4 DEF ReceiveServiceCreated
  <2>7. \A x, y \in Participants : Grows(ch[x][y], chan'[x][y])
    BY <2>5, <2>6, BroadcastGrows, GrowsTransitive
  <2>8. \A x, y \in Participants : x # q \/ y # p => Grows(chan[x][y], chan'[x][y])
    BY <1>2, <2>1, <2>3, <2>7
  <2>9. \A k : Says(Tail(chan[q][p]), k) => Says(chan[q][p], k)
    BY <1>1, <2>1, TailGrows DEF Receives
  <2>10. /\ Says(chan'[q][p], "Reply") => Says(chan[q][p], "Reply")
         /\ Says(chan'[q][p], "Bye") => Says(chan[q][p], "Bye")
         /\ Says(chan'[q][p], "Lost") => Says(chan[q][p], "Lost")
    <3>1. ch[q][p] = Tail(chan[q][p]) /\ Grows(ch[q][p], chan'[q][p])
      BY <1>2, <2>1, <2>3, <2>7
    <3> QED BY <2>9, <3>1 DEF Grows
  <2>11. ASSUME NEW x \in Participants, NEW y \in Participants,
                x # y, phase'[x] # "Off", phase'[y] # "Off", x \notin known'[y]
         PROVE  Stranger(phase'[x], waiting'[x], y, chan'[x][y], chan'[y][x], lastSent'[x], cur'[x])
    <3>1. x \notin known[y] /\ ~(x = q /\ y = p)
      BY <2>2, <2>11
    <3>2. Stranger(phase[x], waiting[x], y, chan[x][y], chan[y][x], lastSent[x], cur[x])
      BY <2>1, <2>11, <3>1 DEF Introduced
    <3>3. Grows(chan[x][y], chan'[x][y])
      BY <2>8, <3>1
    <3>4. Says(chan'[y][x], "Reply") => Says(chan[y][x], "Reply")
      BY <2>8, <2>10 DEF Grows
    <3>5. phase'[x] = phase[x] /\ waiting'[x] = waiting[x] /\ lastSent'[x] = lastSent[x] /\ cur'[x] = cur[x]
      BY <2>1
    <3> QED BY <3>2, <3>3, <3>4, <3>5 DEF Stranger, Grows
  <2>12. ASSUME NEW x \in Participants, NEW y \in Participants,
                Says(chan'[x][y], "Bye") \/ Says(chan'[x][y], "Lost")
         PROVE  phase'[x] = "Off"
    <3>1. Says(chan[x][y], "Bye") \/ Says(chan[x][y], "Lost")
      BY <2>8, <2>10, <2>12 DEF Grows
    <3> QED BY <2>1, <3>1 DEF Introduced
  <2> QED BY <2>11, <2>12 DEF Introduced
<1>4. CASE ReceiveCall(p, q)
  <2>1. Receives(p, q, "Call") /\ UNCHANGED <<phase, waiting, known, lastSent, cur>>
    BY <1>4 DEF ReceiveCall, lifecycleVars, viewVars, timeVars
  <2>2. PICK m : m = Signal("Reply")
    OBVIOUS
  <2>3. m \in Message /\ m.kind = "Reply"
    BY <2>2, Messages DEF Kinds
  <2>4. PICK ch \in ChanType : ch = Taken(p, q)
    BY <1>2, <2>1
  <2>5. chan' = ch \/ (phase[q] # "Off" /\ chan' = [ch EXCEPT ![p][q] = Append(@, m)])
    BY <1>4, <2>2, <2>4 DEF ReceiveCall
  <2>6. \A x, y \in Participants : x # p \/ y # q => chan'[x][y] = ch[x][y]
    BY <2>5, SMTT(30) DEF ChanType
  <2>7. chan'[p][q] = ch[p][q] \/ (phase[q] # "Off" /\ chan'[p][q] = Append(ch[p][q], m))
    BY <2>5 DEF ChanType
  <2>8. \A x, y \in Participants : Grows(chan[x][y], ch[x][y])
    BY <1>2, <2>1, <2>4
  <2>9. ch[p][q] \in Seq(Message)
    BY DEF ChanType
  <2>10. \A k : k # "Reply" => (Says(chan'[p][q], k) <=> Says(ch[p][q], k))
    <3> SUFFICES ASSUME NEW k, k # "Reply" PROVE Says(chan'[p][q], k) <=> Says(ch[p][q], k)
      OBVIOUS
    <3>1. PICK s \in Seq(Message) : s = ch[p][q]
      BY <2>9
    <3>2. Says(Append(s, m), k) <=> Says(s, k) \/ m.kind = k
      BY <2>3, AppendSays
    <3> QED BY <2>3, <2>7, <3>1, <3>2
  <2>11. GreetsFirst(ch[p][q]) => GreetsFirst(chan'[p][q])
    BY <2>3, <2>7, <2>9, AppendSays
  <2>12. \A x, y \in Participants :
           /\ Says(chan'[x][y], "Call") => Says(chan[x][y], "Call")
           /\ Says(chan[x][y], "Created") => Says(chan'[x][y], "Created")
           /\ Says(chan'[x][y], "Bye") => Says(chan[x][y], "Bye")
           /\ Says(chan'[x][y], "Lost") => Says(chan[x][y], "Lost")
           /\ GreetsFirst(chan[x][y]) => GreetsFirst(chan'[x][y])
    BY <2>6, <2>8, <2>10, <2>11 DEF Grows
  <2>13. \A x, y \in Participants : x # p \/ y # q =>
           (Says(chan'[x][y], "Reply") => Says(chan[x][y], "Reply"))
    BY <2>6, <2>8 DEF Grows
  <2>14. ASSUME NEW x \in Participants, NEW y \in Participants,
                x # y, phase'[x] # "Off", phase'[y] # "Off", x \notin known'[y]
         PROVE  Stranger(phase'[x], waiting'[x], y, chan'[x][y], chan'[y][x], lastSent'[x], cur'[x])
    <3>1. Stranger(phase[x], waiting[x], y, chan[x][y], chan[y][x], lastSent[x], cur[x])
      BY <2>1, <2>14 DEF Introduced
    <3>2. phase'[x] = phase[x] /\ waiting'[x] = waiting[x] /\ lastSent'[x] = lastSent[x] /\ cur'[x] = cur[x]
      BY <2>1
    <3>3. ~(x = q /\ y = p)
      <4>1. Says(chan[q][p], "Call") /\ ~GreetsFirst(chan[q][p])
        BY <1>1, <2>1, TailGrows DEF Receives
      <4> QED BY <3>1, <4>1 DEF Stranger
    <3>4. ~Says(chan'[y][x], "Reply")
      BY <2>13, <3>1, <3>3 DEF Stranger
    <3> QED BY <2>12, <3>1, <3>2, <3>4 DEF Stranger
  <2>15. ASSUME NEW x \in Participants, NEW y \in Participants,
                Says(chan'[x][y], "Bye") \/ Says(chan'[x][y], "Lost")
         PROVE  phase'[x] = "Off"
    <3>1. Says(chan[x][y], "Bye") \/ Says(chan[x][y], "Lost")
      BY <2>12, <2>15
    <3> QED BY <2>1, <3>1 DEF Introduced
  <2> QED BY <2>14, <2>15 DEF Introduced
<1>5. CASE ReceiveCallReturn(p, q)
  <2>1. /\ Receives(p, q, "Reply") /\ BarrierWithout(p, q) /\ chan' = Taken(p, q)
        /\ UNCHANGED <<known, lastSent, cur>>
    BY <1>5 DEF ReceiveCallReturn, viewVars, timeVars
  <2>2. /\ phase[p] # "Off" /\ Says(chan[q][p], "Reply")
        /\ \A x, y \in Participants : Grows(chan[x][y], chan'[x][y])
    BY <1>2, <2>1
  <2>3. /\ \A x \in Participants :
             \/ phase'[x] = phase[x]
             \/ waiting[x] # {} /\ waiting'[x] = {} /\ phase[x] # "Off" /\ phase'[x] # "Off"
        /\ \A x \in Participants :
             \/ waiting'[x] = waiting[x]
             \/ \E y \in Participants :
                  /\ waiting'[x] = waiting[x] \ {y}
                  /\ Says(chan[y][x], "Reply") \/ phase[y] = "Off"
    BY <2>1, <2>2, BarrierStep
  <2> QED BY <2>1, <2>2, <2>3, IntroducedStep
<1>6. CASE ReceiveNextSimTask(p, q)
  <2>1. /\ Receives(p, q, "Next") /\ UNCHANGED <<phase, waiting, known>>
        /\ ProcessSimulationTimeUpdate(p, known[p], other'[p], Taken(p, q), jobs)
    BY <1>6 DEF ReceiveNextSimTask, lifecycleVars
  <2>2. PICK ch \in ChanType : ch = Taken(p, q)
    BY <1>2, <2>1
  <2>3. \A x, y \in Participants : Grows(chan[x][y], ch[x][y])
    BY <1>2, <2>1, <2>2
  <2>4. other'[p] \in [Participants -> Task] /\ known[p] \in SUBSET Participants
    <3>1. PICK task \in Task : task = Head(chan[q][p]).task
      <4>1. Head(chan[q][p]) \in Message
        BY <1>1, <2>1 DEF Receives
      <4> QED BY <4>1 DEF Message
    <3>2. other' = [other EXCEPT ![p][q] = IF phase[p] # "None" /\ q \in known[p] THEN task ELSE @]
      BY <1>6, <3>1 DEF ReceiveNextSimTask
    <3> QED BY <1>1, <3>1, <3>2 DEF ViewType
  <2>5. PICK oth \in [Participants -> Task] : oth = other'[p]
    BY <2>4
  <2>6. ProcessSimulationTimeUpdate(p, known[p], oth, ch, jobs)
    BY <2>1, <2>2, <2>5
  <2>7. /\ \A x, y \in Participants : Grows(ch[x][y], chan'[x][y])
        /\ \A x \in Participants :
             (lastSent'[x] = lastSent[x] /\ cur'[x] = cur[x]) \/ phase[x] = "Running"
    BY <1>1, <2>4, <2>6, ProcessGrows
  <2>8. \A x, y \in Participants : Grows(chan[x][y], chan'[x][y])
    BY <2>3, <2>7, GrowsTransitive
  <2> QED BY <2>1, <2>7, <2>8, IntroducedStep
<1>7. CASE ReceiveAbortSimulation(p, q)
  <2>1. /\ Receives(p, q, "Abort") /\ chan' = Taken(p, q)
        /\ UNCHANGED <<waiting, known, lastSent, cur>>
    BY <1>7 DEF ReceiveAbortSimulation, viewVars, timeVars
  <2>2. \A x \in Participants :
          phase'[x] = phase[x] \/ (phase'[x] = "Stopped" /\ phase[x] = "None")
    BY <1>1, <1>7 DEF ReceiveAbortSimulation
  <2>3. \A x, y \in Participants : Grows(chan[x][y], chan'[x][y])
    BY <1>2, <2>1
  <2> QED BY <2>1, <2>2, <2>3, IntroducedStep
<1>8. ASSUME NEW kind \in {"Bye", "Lost"}, OnPeerShutdown(p, q, kind) PROVE Introduced'
  <2>1. /\ Receives(p, q, kind) /\ BarrierWithout(p, q)
        /\ known' = [known EXCEPT ![p] = @ \ {q}]
        /\ other' = [other EXCEPT ![p][q] = NoTask]
    BY <1>8 DEF OnPeerShutdown
  <2>2. /\ phase[p] # "Off" /\ Taken(p, q) \in ChanType /\ Says(chan[q][p], kind)
        /\ \A x, y \in Participants : Grows(chan[x][y], Taken(p, q)[x][y])
    BY <1>2, <2>1
  <2>3. phase[q] = "Off"
    BY <2>2 DEF Introduced
  <2>4. \A x, y \in Participants : x \in known[y] /\ phase[x] # "Off" => x \in known'[y]
    BY <1>1, <2>1, <2>3
  <2>5. /\ \A x \in Participants :
             \/ phase'[x] = phase[x]
             \/ waiting[x] # {} /\ waiting'[x] = {} /\ phase[x] # "Off" /\ phase'[x] # "Off"
        /\ \A x \in Participants :
             \/ waiting'[x] = waiting[x]
             \/ \E y \in Participants :
                  /\ waiting'[x] = waiting[x] \ {y}
                  /\ Says(chan[y][x], "Reply") \/ phase[y] = "Off"
    BY <2>1, <2>2, <2>3, BarrierStep
  <2>6. PICK ch \in ChanType : ch = Taken(p, q)
    BY <2>2
  <2>7. /\ \A x, y \in Participants : Grows(ch[x][y], chan'[x][y])
        /\ \A x \in Participants :
             (lastSent'[x] = lastSent[x] /\ cur'[x] = cur[x]) \/ phase[x] = "Running"
    <3>1. CASE q \in known[p]
      <4>1. PICK oth : oth = other'[p]
        OBVIOUS
      <4>2. oth \in [Participants -> Task]
        BY <1>1, <2>1, <4>1, Messages DEF ViewType
      <4>3. PICK kn : kn = known'[p]
        OBVIOUS
      <4>4. kn \in SUBSET Participants
        BY <1>1, <2>1, <4>3
      <4>5. ProcessSimulationTimeUpdate(p, kn, oth, ch, jobs)
        BY <1>8, <2>6, <3>1, <4>1, <4>3 DEF OnPeerShutdown
      <4> QED BY <1>1, <4>2, <4>4, <4>5, ProcessGrows
    <3>2. CASE q \notin known[p]
      <4>1. chan' = ch /\ UNCHANGED <<lastSent, cur>>
        BY <1>8, <2>6, <3>2 DEF OnPeerShutdown, timeVars
      <4> QED BY <4>1, GrowsTransitive
    <3> QED BY <3>1, <3>2
  <2>8. \A x, y \in Participants : Grows(chan[x][y], chan'[x][y])
    BY <2>2, <2>6, <2>7, GrowsTransitive
  <2> QED BY <2>4, <2>5, <2>7, <2>8, IntroducedStep
<1> QED BY <1>3, <1>4, <1>5, <1>6, <1>7, <1>8
        DEF Receive, ReceiveDisconnect, ReceiveConnectionLost

LEMMA IntroducedEnd ==
  ASSUME Inv, Introduced, NEW p \in Participants, NEW kind, NEW kept, Disconnect(p, kind, kept)
  PROVE  Introduced'
<1>1. /\ phase \in [Participants -> Phases] /\ chan \in ChanType
  BY Typing
<1>2. /\ phase'[p] = "Off" /\ \A x \in Participants \ {p} : phase'[x] = phase[x]
      /\ UNCHANGED <<waiting, known, lastSent, cur>>
  BY <1>1 DEF Disconnect, viewVars, timeVars
<1>3. /\ \A x \in Participants : chan'[x][p] = <<>>
      /\ \A x, y \in Participants \ {p} : chan'[x][y] = chan[x][y]
  BY DEF Disconnect
<1>4. \A k : ~Says(<<>>, k)
  BY DEF Says
<1>5. ASSUME NEW x \in Participants, NEW y \in Participants,
             x # y, phase'[x] # "Off", phase'[y] # "Off", x \notin known'[y]
      PROVE  Stranger(phase'[x], waiting'[x], y, chan'[x][y], chan'[y][x], lastSent'[x], cur'[x])
  <2>1. x # p /\ y # p
    BY <1>2, <1>5
  <2>2. Stranger(phase[x], waiting[x], y, chan[x][y], chan[y][x], lastSent[x], cur[x])
    BY <1>2, <1>5, <2>1 DEF Introduced
  <2> QED BY <1>2, <1>3, <2>1, <2>2
<1>6. ASSUME NEW x \in Participants, NEW y \in Participants,
             Says(chan'[x][y], "Bye") \/ Says(chan'[x][y], "Lost")
      PROVE  phase'[x] = "Off"
  <2>1. CASE x = p
    BY <1>2, <2>1
  <2>2. CASE x # p
    <3>1. y # p
      BY <1>3, <1>4, <1>6
    <3>2. chan'[x][y] = chan[x][y]
      BY <1>3, <2>2, <3>1
    <3>3. phase[x] = "Off"
      BY <1>6, <3>2 DEF Introduced
    <3> QED BY <1>2, <2>2, <3>3
  <2> QED BY <2>1, <2>2
<1> QED BY <1>5, <1>6 DEF Introduced

LEMMA IntroducedUser ==
  ASSUME Inv, Introduced, NEW p \in Participants, User(p)
  PROVE  Introduced'
<1>1. /\ phase \in [Participants -> Phases] /\ waiting \in [Participants -> SUBSET Participants]
      /\ next \in [Participants -> Nat] /\ chan \in ChanType /\ TimeTypes
      /\ \A x, y \in Participants : chan[x][y] \in Seq(Message)
  BY Typing
<1>2. CASE StartLifecycle(p)
  <2>1. PICK m : m = Signal("Created")
    OBVIOUS
  <2>2. m \in Message /\ m.kind = "Created"
    BY <2>1, Messages DEF Kinds
  <2>3. /\ phase[p] = "None" /\ phase'[p] = "Created"
        /\ \A x \in Participants \ {p} : phase'[x] = phase[x]
        /\ chan' = Broadcast(chan, p, m) /\ UNCHANGED <<waiting, known, lastSent, cur>>
    BY <1>1, <1>2, <2>1 DEF StartLifecycle, viewVars, timeVars
  <2>4. \A x, y \in Participants : Grows(chan[x][y], chan'[x][y])
    BY <1>1, <2>2, <2>3, BroadcastGrows
  <2>5. \A y \in Participants \ {p} : phase[y] # "Off" => chan'[p][y] = Append(chan[p][y], m)
    BY <1>1, <2>3 DEF Broadcast, ChanType
  <2>6. ASSUME NEW x \in Participants, NEW y \in Participants,
               x # y, phase'[x] # "Off", phase'[y] # "Off", x \notin known'[y]
        PROVE  Stranger(phase'[x], waiting'[x], y, chan'[x][y], chan'[y][x], lastSent'[x], cur'[x])
    <3>1. phase[x] # "Off" /\ phase[y] # "Off"
      BY <2>3, <2>6
    <3>2. Stranger(phase[x], waiting[x], y, chan[x][y], chan[y][x], lastSent[x], cur[x])
      BY <2>3, <2>6, <3>1 DEF Introduced
    <3>3. Grows(chan[x][y], chan'[x][y]) /\ Grows(chan[y][x], chan'[y][x])
      BY <2>4
    <3>4. waiting'[x] = waiting[x] /\ lastSent'[x] = lastSent[x] /\ cur'[x] = cur[x]
      BY <2>3
    <3>5. CASE x = p
      <4>1. Says(chan'[x][y], "Created")
        <5>1. PICK s \in Seq(Message) : s = chan[x][y]
          BY <1>1
        <5>2. chan'[x][y] = Append(s, m)
          BY <2>5, <2>6, <3>1, <3>5, <5>1
        <5>3. Says(Append(s, m), "Created") <=> Says(s, "Created") \/ m.kind = "Created"
          BY <2>2, AppendSays
        <5> QED BY <2>2, <5>2, <5>3
      <4> QED BY <2>3, <3>2, <3>3, <3>4, <3>5, <4>1 DEF Stranger, Grows
    <3>6. CASE x # p
      <4>1. phase'[x] = phase[x]
        BY <2>3, <3>6
      <4> QED BY <3>2, <3>3, <3>4, <4>1 DEF Stranger, Grows
    <3> QED BY <3>5, <3>6
  <2>7. ASSUME NEW x \in Participants, NEW y \in Participants,
               Says(chan'[x][y], "Bye") \/ Says(chan'[x][y], "Lost")
        PROVE  phase'[x] = "Off"
    <3>1. Says(chan[x][y], "Bye") \/ Says(chan[x][y], "Lost")
      BY <2>4, <2>7 DEF Grows
    <3>2. phase[x] = "Off"
      BY <3>1 DEF Introduced
    <3> QED BY <2>3, <3>2
  <2> QED BY <2>6, <2>7 DEF Introduced
<1>3. CASE ReturnFromTask(p)
  <2>1. PICK nx \in Nat : nx = next[p]
    BY <1>1
  <2>2. PICK ph : ph = phase[p]
    OBVIOUS
  <2>3. RequestNextStep(p, chan, jobs, nx, ph) /\ UNCHANGED <<phase, waiting, known, cur>>
    BY <1>3, <2>1, <2>2 DEF ReturnFromTask, lifecycleVars, viewVars
  <2>4. \A x, y \in Participants : Grows(chan[x][y], chan'[x][y])
    BY <1>1, <2>3, RequestGrows
  <2>5. \A x \in Participants : lastSent'[x] = lastSent[x] \/ (x = p /\ ph = "Running")
    BY <1>1, <2>3, RequestGrows
  <2> QED BY <2>2, <2>3, <2>4, <2>5, IntroducedStep
<1>4. CASE \/ SetPeriod(p) \/ Pause(p) \/ Continue(p) \/ Stop(p) \/ CompleteSimulationStep(p)
  <2>1. UNCHANGED <<phase, waiting, known, chan, lastSent, cur>>
    BY <1>4 DEF SetPeriod, Pause, Continue, Stop, CompleteSimulationStep, lifecycleVars, viewVars,
                timeVars
  <2> QED BY <2>1, GrowsTransitive, IntroducedStep
<1>5. CASE Leave(p) \/ Crash(p)
  <2>1. \E kind, kept : Disconnect(p, kind, kept)
    BY <1>5 DEF Leave, Crash
  <2> QED BY <2>1, IntroducedEnd
<1> QED BY <1>2, <1>3, <1>4, <1>5 DEF User

LEMMA IntroducedNext == Inv /\ Introduced /\ [Next]_vars => Introduced'
<1> SUFFICES ASSUME Inv, Introduced, [Next]_vars PROVE Introduced'
  OBVIOUS
<1>1. CASE UNCHANGED vars
  <2>1. UNCHANGED <<phase, waiting, known, chan, lastSent, cur>>
    BY <1>1 DEF vars, lifecycleVars, viewVars, timeVars
  <2> QED BY <2>1, GrowsTransitive, IntroducedStep
<1>2. CASE Next
  BY <1>2, IntroducedIo, IntroducedReceive, IntroducedUser DEF Next
<1> QED BY <1>1, <1>2

LEMMA IntroducedHolds == Spec => []Introduced
BY InvHolds, IntroducedInit, IntroducedNext, PTL DEF Spec

(* Whoever runs, or is paused, is known to every participant that is still *)
(* there: the ServicesCreated barrier does its work in a group of any size *)
(* although it is not cancelled by an abort, and although peers that leave *)
(* or crash count as having replied.                                       *)
THEOREM RunningStaysKnown == Spec => []RunningIsKnown
<1>1. Introduced => RunningIsKnown
  BY DEF Introduced, Stranger, RunningIsKnown
<1> QED BY <1>1, IntroducedHolds, PTL

-----------------------------------------------------------------------------
(* Participants that start together.  All are coordinated, their steps     *)
(* have a fixed size, and whoever pauses executes its steps on the IO      *)
(* thread: what ImplementsConservativeTime needs.                          *)
Together ==
  /\ Coordinated = Participants
  /\ \A p \in Participants : \A d, e \in StepSizes[p] : d = e
  /\ Pausers \subseteq Blocking

(* A service is announced once. *)
HailsOnce(s) ==
  \A i, j \in 1..Len(s) : s[i].kind = "Created" /\ s[j].kind = "Created" => i = j

Hushes(s, t) ==
  /\ Says(t, "Created") => Says(s, "Created")
  /\ HailsOnce(s) => HailsOnce(t)

Hails ==
  \A x, y \in Participants :
    /\ phase[x] = "None" \/ x \in known[y] => ~Says(chan[x][y], "Created")
    /\ phase[x] = "None" => x \notin known[y]
    /\ HailsOnce(chan[x][y])
    /\ x = y => ~Says(chan[x][y], "Created")

(* Somebody has started; then everybody has been ready, and whoever is     *)
(* still there knows whoever is.                                           *)
Begun(x) == phase[x] \in {"Running", "Paused"} \/ lastSent[x] >= 0 \/ cur[x] >= 0

Assembled ==
  (\E r \in Participants : Begun(r)) =>
    \A x \in Participants :
      /\ phase[x] \notin {"None", "Created", "Barrier"}
      /\ \A y \in Participants :
           /\ ~Says(chan[x][y], "Created")
           /\ x # y /\ phase[x] # "Off" /\ phase[y] # "Off" => x \in known[y]

LEMMA HushesTransitive ==
  /\ \A s : Hushes(s, s)
  /\ \A s, t, u : Hushes(s, t) /\ Hushes(t, u) => Hushes(s, u)
BY DEF Hushes

LEMMA AppendHushes ==
  ASSUME NEW s \in Seq(Message), NEW m \in Message
  PROVE  /\ m.kind # "Created" => Hushes(s, Append(s, m))
         /\ ~Says(s, "Created") => HailsOnce(Append(s, m))
<1> DEFINE t == Append(s, m)
<1>1. /\ Len(s) \in Nat /\ Len(t) = Len(s) + 1 /\ t[Len(s) + 1] = m
      /\ \A i \in 1..Len(s) : t[i] = s[i]
  OBVIOUS
<1>2. \A i : i \in 1..(Len(s) + 1) <=> i = Len(s) + 1 \/ i \in 1..Len(s)
  BY <1>1
<1> HIDE DEF t
<1>3. m.kind # "Created" => Hushes(s, t)
  BY <1>1, <1>2 DEF Hushes, HailsOnce, Says
<1>4. ~Says(s, "Created") => HailsOnce(t)
  BY <1>1, <1>2 DEF HailsOnce, Says
<1> QED BY <1>3, <1>4 DEF t

LEMMA TailHushes ==
  ASSUME NEW s \in Seq(Message), s # <<>>
  PROVE  /\ Hushes(s, Tail(s))
         /\ HailsOnce(s) /\ Head(s).kind = "Created" => ~Says(Tail(s), "Created")
<1> DEFINE t == Tail(s)
<1>1. /\ Len(s) \in Nat /\ Len(s) >= 1 /\ Len(t) = Len(s) - 1 /\ Head(s) = s[1]
      /\ \A i \in 1..Len(t) : t[i] = s[i + 1] /\ i + 1 \in 1..Len(s) /\ i + 1 # 1
  OBVIOUS
<1>2. 1 \in 1..Len(s)
  BY <1>1
<1> HIDE DEF t
<1>3. Says(t, "Created") => Says(s, "Created")
  BY <1>1 DEF Says
<1>4. HailsOnce(s) => HailsOnce(t)
  <2> SUFFICES ASSUME HailsOnce(s), NEW i \in 1..Len(t), NEW j \in 1..Len(t),
                      t[i].kind = "Created", t[j].kind = "Created"
               PROVE  i = j
    BY DEF HailsOnce
  <2>1. i + 1 = j + 1
    BY <1>1 DEF HailsOnce
  <2> QED BY <2>1
<1>5. HailsOnce(s) /\ Head(s).kind = "Created" => ~Says(t, "Created")
  BY <1>1, <1>2 DEF HailsOnce, Says
<1> QED BY <1>3, <1>4, <1>5 DEF Hushes, t

LEMMA PrefixHushes ==
  ASSUME NEW s \in Seq(Message), NEW k \in 0..Len(s)
  PROVE  Hushes(s, SubSeq(s, 1, k)) /\ SubSeq(s, 1, k) \in Seq(Message)
<1>1. /\ SubSeq(s, 1, k) \in Seq(Message) /\ Len(SubSeq(s, 1, k)) = k
      /\ \A i \in 1..k : SubSeq(s, 1, k)[i] = s[i] /\ i \in 1..Len(s)
  OBVIOUS
<1> QED BY <1>1 DEF Hushes, HailsOnce, Says

LEMMA EmptyHushes == \A s : Hushes(s, <<>>)
BY DEF Hushes, HailsOnce, Says

LEMMA BroadcastHushes ==
  ASSUME NEW ch \in ChanType, NEW p \in Participants, NEW m \in Message, m.kind # "Created"
  PROVE  \A x, y \in Participants : Hushes(ch[x][y], Broadcast(ch, p, m)[x][y])
<1>1. \A x, y \in Participants : ch[x][y] \in Seq(Message)
  BY DEF ChanType
<1>2. \A x, y \in Participants : Hushes(ch[x][y], ch[x][y]) /\ Hushes(ch[x][y], Append(ch[x][y], m))
  BY <1>1, AppendHushes, HushesTransitive
<1>3. \A x, y \in Participants :
        \/ Broadcast(ch, p, m)[x][y] = ch[x][y]
        \/ Broadcast(ch, p, m)[x][y] = Append(ch[x][y], m)
  BY BroadcastQueues
<1> QED BY <1>2, <1>3

LEMMA RequestHushes ==
  ASSUME TimeTypes, NEW ch \in ChanType, NEW js, NEW p \in Participants, NEW nx \in Nat, NEW ph,
         RequestNextStep(p, ch, js, nx, ph)
  PROVE  \A x, y \in Participants : Hushes(ch[x][y], chan'[x][y])
<1>1. dur[p] \in Nat
  BY DEF TimeTypes
<1>2. PICK m : m = NextSimTask(nx, dur[p])
  OBVIOUS
<1>3. m \in Message /\ m.kind = "Next"
  BY <1>1, <1>2, Messages DEF NextSimTask
<1>4. chan' = ch \/ chan' = Broadcast(ch, p, m)
  BY <1>2 DEF RequestNextStep
<1> QED BY <1>3, <1>4, BroadcastHushes, HushesTransitive

(* The steps that announce no service and start nobody. *)
LEMMA HailsStep ==
  ASSUME Hails,
         \A x, y \in Participants : Hushes(chan[x][y], chan'[x][y]),
         \A x, y \in Participants : x \in known'[y] => x \in known[y],
         \A x \in Participants : phase'[x] = "None" => phase[x] = "None"
  PROVE  Hails'
BY DEF Hails, Hushes

LEMMA AssembledStep ==
  ASSUME Assembled,
         \A x, y \in Participants : Hushes(chan[x][y], chan'[x][y]),
         \A x, y \in Participants : x \in known[y] /\ phase[x] # "Off" => x \in known'[y],
         \A x \in Participants :
           phase'[x] \in {"None", "Created", "Barrier"} => phase[x] \in {"None", "Created", "Barrier"},
         \A x \in Participants : phase[x] = "Off" => phase'[x] = "Off",
         \E r \in Participants : Begun(r)
  PROVE  Assembled'
<1>1. Assembled'
  <2> SUFFICES ASSUME \E r \in Participants : Begun(r)', NEW x \in Participants
               PROVE  /\ phase'[x] \notin {"None", "Created", "Barrier"}
                      /\ \A y \in Participants :
                           /\ ~Says(chan'[x][y], "Created")
                           /\ x # y /\ phase'[x] # "Off" /\ phase'[y] # "Off" => x \in known'[y]
    BY DEF Assembled
  <2>1. /\ phase[x] \notin {"None", "Created", "Barrier"}
        /\ \A y \in Participants :
             /\ ~Says(chan[x][y], "Created")
             /\ x # y /\ phase[x] # "Off" /\ phase[y] # "Off" => x \in known[y]
    BY DEF Assembled
  <2>2. phase'[x] \notin {"None", "Created", "Barrier"}
    BY <2>1
  <2>3. \A y \in Participants : ~Says(chan'[x][y], "Created")
    BY <2>1 DEF Hushes
  <2>4. ASSUME NEW y \in Participants, x # y, phase'[x] # "Off", phase'[y] # "Off"
        PROVE  x \in known'[y]
    BY <2>1, <2>4
  <2> QED BY <2>2, <2>3, <2>4
<1> QED BY <1>1

-----------------------------------------------------------------------------
(* The time in such a group. *)

Urges(js) == \E i \in 1..Len(js) : js[i] \in {"Continue", "Request"}

(* Nobody executes a step before it has started, hops on, or announces the *)
(* next step in the middle of one.                                         *)
Calm(p) ==
  /\ phase[p] \in {"None", "Created", "Barrier", "Ready"} => step[p] = "none" /\ cur[p] = -1
  /\ step[p] \in {"task", "open"} => cur[p] >= 0
  /\ step[p] # "stuck" /\ ~hoppedOn[p]
  /\ p \in Blocking => step[p] \in {"none", "task"}
  /\ p \notin Blocking =>
       ~pauseRequested[p] /\ ~Urges(jobs[p])
  /\ dur[p] \in StepSizes[p]

(* Announcements bear the step size. *)
SteadyQueue(s, d) == \A i \in 1..Len(s) : s[i].kind = "Next" => s[i].task.dur = d

SteadyOf(ch, view, d) ==
  \A p, q \in Participants :
    /\ SteadyQueue(ch[q][p], d[q])
    /\ view[p][q].tp = -1 \/ view[p][q].dur = d[q]

Floors == [p \in Participants |-> Floor(p)]

(* What is announced is not later than what its sender may still do, and   *)
(* nobody gets beyond its second step before everybody has begun.          *)
Announced ==
  /\ ChronologyOf(chan, other, Floors)
  /\ SteadyOf(chan, other, dur)
  /\ \A p, q \in Participants : cur[p] = -1 /\ phase[p] # "Off" => next[q] <= dur[q]

GroupInv ==
  /\ Inv /\ Introduced /\ Hails /\ Assembled
  /\ \A p \in Participants : Calm(p)
  /\ Announced

LEMMA UrgesQueue ==
  ASSUME NEW js \in Seq(Jobs)
  PROVE  /\ \A j \in Jobs : Urges(Append(js, j)) => Urges(js) \/ j \in {"Continue", "Request"}
         /\ js # <<>> => (Urges(Tail(js)) => Urges(js))
         /\ js # <<>> /\ Head(js) \in {"Continue", "Request"} => Urges(js)
<1>1. ASSUME NEW j \in Jobs, Urges(Append(js, j)), j \notin {"Continue", "Request"} PROVE Urges(js)
  <2>1. /\ Len(js) \in Nat /\ Len(Append(js, j)) = Len(js) + 1 /\ Append(js, j)[Len(js) + 1] = j
        /\ \A i \in 1..Len(js) : Append(js, j)[i] = js[i]
    OBVIOUS
  <2>2. \A i : i \in 1..(Len(js) + 1) <=> i = Len(js) + 1 \/ i \in 1..Len(js)
    BY <2>1
  <2> QED BY <1>1, <2>1, <2>2 DEF Urges
<1>2. ASSUME js # <<>> PROVE (Urges(Tail(js)) => Urges(js)) /\ (Head(js) \in {"Continue", "Request"} => Urges(js))
  <2>1. /\ Len(js) \in Nat /\ Len(js) >= 1 /\ Len(Tail(js)) = Len(js) - 1 /\ Head(js) = js[1]
        /\ \A i \in 1..Len(Tail(js)) : Tail(js)[i] = js[i + 1] /\ i + 1 \in 1..Len(js)
    BY <1>2
  <2> QED BY <2>1 DEF Urges
<1> QED BY <1>1, <1>2

LEMMA AppendSteady ==
  ASSUME NEW s \in Seq(Message), NEW m \in Message, NEW d, SteadyQueue(s, d),
         m.kind # "Next" \/ m.task.dur = d
  PROVE  SteadyQueue(Append(s, m), d)
<1>1. /\ Len(s) \in Nat /\ Len(Append(s, m)) = Len(s) + 1 /\ Append(s, m)[Len(s) + 1] = m
      /\ \A i \in 1..Len(s) : Append(s, m)[i] = s[i]
  OBVIOUS
<1>2. \A i : i \in 1..(Len(s) + 1) <=> i = Len(s) + 1 \/ i \in 1..Len(s)
  BY <1>1
<1> QED BY <1>1, <1>2 DEF SteadyQueue

LEMMA TailSteady ==
  ASSUME NEW s \in Seq(Message), s # <<>>, NEW d, SteadyQueue(s, d)
  PROVE  SteadyQueue(Tail(s), d) /\ (Head(s).kind = "Next" => Head(s).task.dur = d)
<1>1. /\ Len(s) \in Nat /\ Len(s) >= 1 /\ Len(Tail(s)) = Len(s) - 1 /\ Head(s) = s[1]
      /\ \A i \in 1..Len(Tail(s)) : Tail(s)[i] = s[i + 1] /\ i + 1 \in 1..Len(s)
  OBVIOUS
<1> QED BY <1>1 DEF SteadyQueue

LEMMA PrefixSteady ==
  ASSUME NEW s \in Seq(Message), NEW k \in 0..Len(s), NEW d, SteadyQueue(s, d)
  PROVE  SteadyQueue(SubSeq(s, 1, k), d)
<1>1. /\ Len(SubSeq(s, 1, k)) = k
      /\ \A i \in 1..k : SubSeq(s, 1, k)[i] = s[i] /\ i \in 1..Len(s)
  OBVIOUS
<1> QED BY <1>1 DEF SteadyQueue

LEMMA BroadcastSteady ==
  ASSUME NEW ch \in ChanType, NEW view, NEW p \in Participants, NEW d, NEW m \in Message,
         m.kind # "Next" \/ m.task.dur = d[p], SteadyOf(ch, view, d)
  PROVE  SteadyOf(Broadcast(ch, p, m), view, d)
<1>1. ASSUME NEW x \in Participants, NEW y \in Participants
      PROVE  SteadyQueue(Broadcast(ch, p, m)[x][y], d[x])
  <2>1. ch[x][y] \in Seq(Message) /\ SteadyQueue(ch[x][y], d[x])
    BY DEF ChanType, SteadyOf
  <2>2. \/ Broadcast(ch, p, m)[x][y] = ch[x][y]
        \/ x = p /\ Broadcast(ch, p, m)[x][y] = Append(ch[x][y], m)
    BY BroadcastQueues
  <2> QED BY <2>1, <2>2, AppendSteady
<1> QED BY <1>1 DEF SteadyOf

LEMMA TakeSteady ==
  ASSUME chan \in ChanType, NEW view, NEW d,
         NEW p \in Participants, NEW q \in Participants, chan[q][p] # <<>>,
         SteadyOf(chan, other, d),
         \A x, y \in Participants : x # p \/ y # q => view[x][y] = other[x][y],
         \/ view[p][q] = other[p][q]
         \/ view[p][q] = NoTask
         \/ Head(chan[q][p]).kind = "Next" /\ view[p][q] = Head(chan[q][p]).task
  PROVE  SteadyOf(Taken(p, q), view, d)
<1>1. chan[q][p] \in Seq(Message) /\ SteadyQueue(chan[q][p], d[q])
  BY DEF ChanType, SteadyOf
<1>2. /\ SteadyQueue(Tail(chan[q][p]), d[q])
      /\ Head(chan[q][p]).kind = "Next" => Head(chan[q][p]).task.dur = d[q]
  BY <1>1, TailSteady
<1>3. /\ Taken(p, q)[q][p] = Tail(chan[q][p])
      /\ \A x, y \in Participants : x # q \/ y # p => Taken(p, q)[x][y] = chan[x][y]
  BY DEF Taken, ChanType
<1>4. \A x, y \in Participants : SteadyQueue(Taken(p, q)[y][x], d[y])
  BY <1>2, <1>3 DEF SteadyOf
<1>5. view[p][q].tp = -1 \/ view[p][q].dur = d[q]
  BY <1>2 DEF SteadyOf, NoTask
<1>6. \A x, y \in Participants : view[x][y].tp = -1 \/ view[x][y].dur = d[y]
  BY <1>5 DEF SteadyOf
<1> QED BY <1>4, <1>6 DEF SteadyOf

LEMMA RequestSteady ==
  ASSUME TimeTypes, NEW ch \in ChanType, NEW view, NEW js, NEW p \in Participants, NEW nx \in Nat,
         NEW ph, SteadyOf(ch, view, dur), RequestNextStep(p, ch, js, nx, ph)
  PROVE  SteadyOf(chan', view, dur)
<1>1. dur[p] \in Nat
  BY DEF TimeTypes
<1>2. PICK m : m = NextSimTask(nx, dur[p])
  OBVIOUS
<1>3. m \in Message /\ m.task.dur = dur[p]
  <2>1. m \in Message /\ m.task = [tp |-> nx, dur |-> dur[p]]
    BY <1>1, <1>2, Messages
  <2> QED BY <2>1
<1>4. chan' = ch \/ chan' = Broadcast(ch, p, m)
  BY <1>2 DEF RequestNextStep
<1> QED BY <1>3, <1>4, BroadcastSteady

-----------------------------------------------------------------------------
(* The steps of such a group. *)

Sim == Conservative!CNext \/ UNCHANGED Conservative!cvars

Kept ==
  /\ Hails' /\ Assembled'
  /\ \A x \in Participants : Calm(x)'
  /\ Announced'
  /\ Sim

LEMMA FloorTyping ==
  ASSUME Inv, \A x \in Participants : Calm(x)
  PROVE  /\ Floors \in [Participants -> Nat]
         /\ \A x \in Participants : /\ Floors[x] = Floor(x) /\ Floors[x] <= next[x]
                                    /\ step[x] \notin {"task", "open"} => Floors[x] = next[x]
<1>1. /\ next \in [Participants -> Nat] /\ cur \in [Participants -> Nat \cup {-1}]
      /\ \A x \in Participants : cur[x] < next[x]
  BY Typing DEF OwnTime
<1>2. \A x \in Participants : step[x] \in {"task", "open"} => cur[x] \in Nat
  BY <1>1 DEF Calm
<1>3. \A x \in Participants : Floor(x) \in Nat /\ Floor(x) <= next[x]
  BY <1>1, <1>2 DEF Floor
<1> QED BY <1>3 DEF Floors, Floor

(* A step ends, or nothing happens that ConservativeTime speaks of. *)
LEMMA EndOrNothing ==
  ASSUME Inv, NEW p \in Participants, UNCHANGED <<cur, next>>,
         \A x \in Participants : phase'[x] = "Off" <=> phase[x] = "Off",
         \/ step' = step
         \/ step' = [step EXCEPT ![p] = "none"] \/ step' = [step EXCEPT ![p] = "completing"]
  PROVE  Sim
<1>1. /\ step \in [Participants -> StepStates] /\ cur \in [Participants -> Nat \cup {-1}]
      /\ next \in [Participants -> Nat] /\ OwnTime
  BY Typing DEF TimeTypes
<1>2. {x \in Participants : phase'[x] = "Off"} = {x \in Participants : phase[x] = "Off"}
  OBVIOUS
<1>3. CASE step[p] \in {"task", "open"} /\ step' # step
  <2>1. /\ step'[p] \notin {"task", "open"}
        /\ \A x \in Participants \ {p} : step'[x] = step[x]
    BY <1>1, <1>3
  <2>2. [x \in Participants |-> Floor(x)]' = [[x \in Participants |-> Floor(x)] EXCEPT ![p] = next[p]]
    BY <1>1, <2>1 DEF Floor
  <2>3. next[p] > cur[p] /\ next[p] \in Nat
    BY <1>1 DEF OwnTime
  <2>4. {x \in Participants : step'[x] \in {"task", "open"}} =
          {x \in Participants : step[x] \in {"task", "open"}} \ {p}
    BY <1>1, <2>1
  <2>5. Conservative!End(p)
    BY <1>1, <1>2, <1>3, <2>2, <2>3, <2>4 DEF Conservative!End
  <2> QED BY <2>5 DEF Sim, Conservative!CNext
<1>4. CASE step[p] \notin {"task", "open"} \/ step' = step
  <2>1. \A x \in Participants : step'[x] \in {"task", "open"} <=> step[x] \in {"task", "open"}
    BY <1>1, <1>4
  <2>2. {x \in Participants : step'[x] \in {"task", "open"}} =
          {x \in Participants : step[x] \in {"task", "open"}}
    BY <2>1
  <2>3. [x \in Participants |-> Floor(x)]' = [x \in Participants |-> Floor(x)]
    BY <2>1 DEF Floor
  <2> QED BY <1>2, <2>2, <2>3 DEF Sim, Conservative!cvars
<1> QED BY <1>3, <1>4

LEMMA FloorsRise ==
  ASSUME Inv, \A x \in Participants : Calm(x), NEW p \in Participants, UNCHANGED <<cur, next>>,
         \/ step' = step
         \/ step' = [step EXCEPT ![p] = "none"] \/ step' = [step EXCEPT ![p] = "completing"]
  PROVE  /\ Floors' \in [Participants -> Nat]
         /\ \A x \in Participants : Floors[x] <= Floors'[x]
         /\ step' # step => Floors'[p] = next[p]
         /\ step' = step => Floors' = Floors
<1>1. /\ step \in [Participants -> StepStates] /\ cur \in [Participants -> Nat \cup {-1}]
      /\ next \in [Participants -> Nat] /\ OwnTime
  BY Typing DEF TimeTypes
<1>2. /\ Floors \in [Participants -> Nat]
      /\ \A x \in Participants : Floors[x] = Floor(x) /\ Floors[x] <= next[x]
  BY FloorTyping
<1>3. Floors' = [x \in Participants |-> IF step'[x] \in {"task", "open"} THEN cur[x] ELSE next[x]]
  BY DEF Floors, Floor
<1>4. Floors = [x \in Participants |-> IF step[x] \in {"task", "open"} THEN cur[x] ELSE next[x]]
  BY DEF Floors, Floor
<1>5. CASE step' = step
  BY <1>2, <1>3, <1>4, <1>5
<1>6. CASE step' # step
  <2>1. step'[p] \notin {"task", "open"} /\ \A x \in Participants \ {p} : step'[x] = step[x]
    BY <1>1, <1>6
  <2>2. Floors' = [Floors EXCEPT ![p] = next[p]]
    BY <1>3, <1>4, <2>1
  <2> QED BY <1>1, <1>2, <1>6, <2>2
<1> QED BY <1>5, <1>6

(* Steps in which nobody's time advances. *)
LEMMA QuietTime ==
  ASSUME GroupInv, NEW p \in Participants, UNCHANGED <<cur, next, dur, hoppedOn>>,
         \A x \in Participants :
           \/ phase'[x] = phase[x]
           \/ phase'[x] \notin {"None", "Created", "Barrier", "Ready", "Off"} /\ phase[x] # "Off"
           \/ phase'[x] \in {"Created", "Barrier", "Ready"} /\ phase[x] \in {"None", "Created", "Barrier"},
         \/ step' = step
         \/ step' = [step EXCEPT ![p] = "none"]
         \/ step[p] = "open" /\ step' = [step EXCEPT ![p] = "completing"],
         \A x \in Participants \ Blocking :
           ~pauseRequested[x] /\ ~Urges(jobs[x]) => ~pauseRequested'[x] /\ ~Urges(jobs'[x]),
         ChronologyOf(chan', other', Floors'), SteadyOf(chan', other', dur)
  PROVE  /\ \A x \in Participants : Calm(x)'
         /\ Announced'
         /\ Sim
<1>1. Inv /\ (\A x \in Participants : Calm(x)) /\ Announced
  BY DEF GroupInv
<1>2. /\ step \in [Participants -> StepStates] /\ phase \in [Participants -> Phases]
  BY <1>1, Typing DEF TimeTypes
<1>3. \A x \in Participants : phase'[x] = "Off" <=> phase[x] = "Off"
  OBVIOUS
<1>5. ASSUME NEW x \in Participants PROVE Calm(x)'
  <2>1. Calm(x)
    BY <1>1
  <2>2. \/ step'[x] = step[x] \/ step'[x] = "none"
        \/ step[x] = "open" /\ step'[x] = "completing"
    BY <1>2
  <2>3. phase'[x] \in {"None", "Created", "Barrier", "Ready"} =>
          phase[x] \in {"None", "Created", "Barrier", "Ready"}
    OBVIOUS
  <2>4. cur'[x] = cur[x] /\ hoppedOn'[x] = hoppedOn[x] /\ dur'[x] = dur[x]
    OBVIOUS
  <2> QED BY <2>1, <2>2, <2>3, <2>4 DEF Calm
<1>6. Announced'
  <2>1. \A x, y \in Participants : cur[x] = -1 /\ phase[x] # "Off" => next[y] <= dur[y]
    BY <1>1 DEF Announced
  <2>2. \A x, y \in Participants : cur'[x] = -1 /\ phase'[x] # "Off" => next'[y] <= dur'[y]
    BY <1>3, <2>1
  <2>3. SteadyOf(chan', other', dur')
    OBVIOUS
  <2> QED BY <2>2, <2>3 DEF Announced, ChronologyOf, SteadyOf
<1>7. Sim
  BY <1>1, <1>3, EndOrNothing
<1> QED BY <1>5, <1>6, <1>7

(* Steps in which no service is announced either. *)
LEMMA QuietKept ==
  ASSUME GroupInv, NEW p \in Participants, UNCHANGED <<cur, next, dur, hoppedOn>>,
         \A x, y \in Participants : Hushes(chan[x][y], chan'[x][y]),
         \A x, y \in Participants : x \in known'[y] => x \in known[y],
         \A x, y \in Participants : x \in known[y] /\ phase[x] # "Off" => x \in known'[y],
         \A x \in Participants :
           \/ phase'[x] = phase[x]
           \/ phase'[x] \notin {"None", "Created", "Barrier", "Ready", "Off"} /\ phase[x] # "Off"
           \/ phase'[x] \in {"Created", "Barrier", "Ready"} /\ phase[x] \in {"None", "Created", "Barrier"},
         (\A x \in Participants : Begun(x)' => Begun(x)) \/ Assembled',
         \/ step' = step
         \/ step' = [step EXCEPT ![p] = "none"]
         \/ step[p] = "open" /\ step' = [step EXCEPT ![p] = "completing"],
         \A x \in Participants \ Blocking :
           ~pauseRequested[x] /\ ~Urges(jobs[x]) => ~pauseRequested'[x] /\ ~Urges(jobs'[x]),
         ChronologyOf(chan', other', Floors'), SteadyOf(chan', other', dur)
  PROVE  Kept
<1>1. Hails /\ Assembled
  BY DEF GroupInv
<1>2. /\ \A x \in Participants : phase'[x] = "None" => phase[x] = "None"
      /\ \A x \in Participants :
           phase'[x] \in {"None", "Created", "Barrier"} => phase[x] \in {"None", "Created", "Barrier"}
      /\ \A x \in Participants : phase[x] = "Off" => phase'[x] = "Off"
  OBVIOUS
<1>3. Hails'
  BY <1>1, <1>2, HailsStep
<1>4. ASSUME \A x \in Participants : Begun(x)' => Begun(x) PROVE Assembled'
  <2>1. CASE \E r \in Participants : Begun(r)
    BY <1>1, <1>2, <2>1, AssembledStep
  <2>2. CASE \A r \in Participants : ~Begun(r)
    BY <1>4, <2>2 DEF Assembled
  <2> QED BY <2>1, <2>2
<1>5. (\A x \in Participants : Calm(x)') /\ Announced' /\ Sim
  BY QuietTime
<1> QED BY <1>3, <1>4, <1>5 DEF Kept

LEMMA GroupTyping ==
  ASSUME GroupInv
  PROVE  /\ Inv /\ Introduced /\ Hails /\ Assembled /\ Announced
         /\ \A x \in Participants : Calm(x)
         /\ phase \in [Participants -> Phases] /\ step \in [Participants -> StepStates]
         /\ known \in [Participants -> SUBSET Participants] /\ other \in ViewType
         /\ lastSent \in [Participants -> Nat \cup {-1}] /\ cur \in [Participants -> Nat \cup {-1}]
         /\ next \in [Participants -> Nat] /\ dur \in [Participants -> Nat \ {0}]
         /\ pauseRequested \in [Participants -> BOOLEAN]
         /\ chan \in ChanType /\ jobs \in JobsType /\ TimeTypes /\ OwnTime
         /\ \A x, y \in Participants : chan[x][y] \in Seq(Message)
         /\ \A x \in Participants : jobs[x] \in Seq(Jobs)
         /\ Floors \in [Participants -> Nat]
         /\ ChronologyOf(chan, other, Floors) /\ SteadyOf(chan, other, dur)
<1>1. Inv /\ Introduced /\ Hails /\ Assembled /\ Announced /\ \A x \in Participants : Calm(x)
  BY DEF GroupInv
<1>2. step \in [Participants -> StepStates] /\ pauseRequested \in [Participants -> BOOLEAN]
      /\ \A x \in Participants : jobs[x] \in Seq(Jobs)
  BY <1>1 DEF Inv, TimeTypes, LifecycleTypes, QueueTypes, JobsType
<1>3. ChronologyOf(chan, other, Floors) /\ SteadyOf(chan, other, dur)
  BY <1>1 DEF Announced
<1> QED BY <1>1, <1>2, <1>3, Typing, FloorTyping

(* Jobs and calls of the user that send nothing. *)
LEMMA LocalKept ==
  ASSUME Together, GroupInv, NEW p \in Participants,
         \/ PauseJob(p) \/ ContinueJob(p) \/ StopJob(p) \/ AbortJob(p) \/ ErrorJob(p)
         \/ Pause(p) \/ Continue(p) \/ Stop(p) \/ CompleteSimulationStep(p)
  PROVE  Kept
<1>1. /\ \A x \in Participants : Calm(x)
      /\ phase \in [Participants -> Phases] /\ step \in [Participants -> StepStates]
      /\ pauseRequested \in [Participants -> BOOLEAN]
      /\ jobs \in JobsType /\ \A x \in Participants : jobs[x] \in Seq(Jobs)
      /\ Floors \in [Participants -> Nat] /\ other \in ViewType /\ chan \in ChanType
      /\ ChronologyOf(chan, other, Floors) /\ SteadyOf(chan, other, dur) /\ Inv
  BY GroupTyping
<1>2. UNCHANGED <<cur, next, dur, hoppedOn, lastSent, chan, known, other>>
  BY DEF PauseJob, ContinueJob, StopJob, AbortJob, ErrorJob, Pause, Continue, Stop,
         CompleteSimulationStep, timeVars, viewVars
<1>3. \A x \in Participants :
        \/ phase'[x] = phase[x]
        \/ /\ phase'[x] \notin {"None", "Created", "Barrier", "Ready", "Off"} /\ phase[x] # "Off"
           /\ phase'[x] \in {"Running", "Paused"} => phase[x] \in {"Running", "Paused"}
  BY <1>1 DEF PauseJob, ContinueJob, StopJob, AbortJob, ErrorJob, Pause, Continue, Stop,
         CompleteSimulationStep, lifecycleVars, NextJob, IoThreadIsFree
<1>4. \A x \in Participants : Begun(x)' => Begun(x)
  BY <1>2, <1>3 DEF Begun
<1>5. \/ step' = step
      \/ step[p] = "open" /\ step' = [step EXCEPT ![p] = "completing"]
  BY DEF PauseJob, ContinueJob, StopJob, AbortJob, ErrorJob, Pause, Continue, Stop,
         CompleteSimulationStep, timeVars
<1>6. ASSUME NEW x \in Participants \ Blocking, ~pauseRequested[x], ~Urges(jobs[x])
      PROVE  ~pauseRequested'[x] /\ ~Urges(jobs'[x])
  <2>1. CASE x # p
    <3>1. pauseRequested'[x] = pauseRequested[x] /\ jobs'[x] = jobs[x]
      BY <1>1, <2>1 DEF PauseJob, ContinueJob, StopJob, AbortJob, ErrorJob, Pause, Continue, Stop,
         CompleteSimulationStep, lifecycleVars, Rest, Post, JobsType
    <3> QED BY <1>6, <3>1
  <2>2. CASE x = p
    <3>1. jobs[p] # <<>> => (Head(jobs[p]) \notin {"Continue", "Request"} /\ ~Urges(Tail(jobs[p])))
      BY <1>1, <1>6, <2>2, UrgesQueue
    <3>2. ~ContinueJob(p) /\ ~Continue(p) /\ ~Pause(p)
      BY <1>6, <2>2, <3>1 DEF ContinueJob, NextJob, Continue, Pause, Together
    <3>3. pauseRequested'[p] = pauseRequested[p]
      BY <3>2 DEF PauseJob, ContinueJob, StopJob, AbortJob, ErrorJob, Stop,
         CompleteSimulationStep, lifecycleVars
    <3>4. \/ jobs[p] # <<>> /\ jobs'[p] = Tail(jobs[p])
          \/ jobs[p] # <<>> /\ jobs'[p] = Append(Tail(jobs[p]), "Error")
          \/ jobs'[p] = Append(jobs[p], "Stop") \/ jobs'[p] = Append(jobs[p], "Complete")
      BY <1>1, <3>2 DEF PauseJob, StopJob, AbortJob, ErrorJob, Stop,
         CompleteSimulationStep, Rest, Post, JobsType, NextJob
    <3>5. /\ ~Urges(Append(jobs[p], "Stop")) /\ ~Urges(Append(jobs[p], "Complete"))
          /\ jobs[p] # <<>> => ~Urges(Append(Tail(jobs[p]), "Error"))
      <4>1. "Stop" \in Jobs /\ "Complete" \in Jobs /\ "Error" \in Jobs
        BY DEF Jobs
      <4>2. jobs[p] # <<>> => Tail(jobs[p]) \in Seq(Jobs)
        BY <1>1
      <4> QED BY <1>1, <1>6, <2>2, <3>1, <4>1, <4>2, UrgesQueue
    <3> QED BY <1>6, <2>2, <3>1, <3>3, <3>4, <3>5
  <2> QED BY <2>1, <2>2
<1>7. ChronologyOf(chan', other', Floors')
  <2>1. Floors' \in [Participants -> Nat] /\ \A x \in Participants : Floors[x] <= Floors'[x]
    BY <1>1, <1>2, <1>5, FloorsRise
  <2>2. PICK nx \in [Participants -> Nat] : nx = Floors'
    BY <2>1
  <2>3. ChronologyOf(chan, other, nx)
    BY <1>1, <2>1, <2>2, RaiseNext
  <2> QED BY <1>2, <2>2, <2>3
<1>8. SteadyOf(chan', other', dur)
  BY <1>1, <1>2
<1>9. /\ \A x, y \in Participants : Hushes(chan[x][y], chan'[x][y])
      /\ known' = known
  BY <1>2, HushesTransitive
<1> QED BY <1>2, <1>3, <1>4, <1>5, <1>6, <1>7, <1>8, <1>9, QuietKept

(* Steps that request the next step. *)
LEMMA RequestKept ==
  ASSUME GroupInv, NEW p \in Participants, NEW js \in JobsType, NEW ph,
         RequestNextStep(p, chan, js, next[p], ph),
         UNCHANGED <<cur, next, dur, hoppedOn, pauseRequested, known, other>>,
         \A x \in Participants :
           phase'[x] = phase[x] \/ (phase'[x] = "Running" /\ phase[x] = "Ready"),
         \/ /\ ph = "Running" => Begun(p)
            /\ \A x \in Participants : phase'[x] = phase[x]
         \/ Assembled',
         \/ step' = step /\ step[p] \notin {"task", "open"}
         \/ step' = [step EXCEPT ![p] = "none"],
         \A x \in Participants : ~Urges(jobs[x]) => ~Urges(js[x])
  PROVE  Kept
<1>1. /\ Inv /\ \A x \in Participants : Calm(x)
      /\ phase \in [Participants -> Phases] /\ step \in [Participants -> StepStates]
      /\ next \in [Participants -> Nat] /\ TimeTypes
      /\ Floors \in [Participants -> Nat] /\ other \in ViewType /\ chan \in ChanType
      /\ ChronologyOf(chan, other, Floors) /\ SteadyOf(chan, other, dur)
  BY GroupTyping
<1>2. /\ Floors' \in [Participants -> Nat] /\ \A x \in Participants : Floors[x] <= Floors'[x]
  BY <1>1, FloorsRise
<1>3. PICK nx \in [Participants -> Nat] : nx = Floors'
  BY <1>2
<1>4. nx[p] = next[p]
  <2>1. step'[p] \notin {"task", "open"}
    BY <1>1
  <2>2. Floors'[p] = IF step'[p] \in {"task", "open"} THEN cur'[p] ELSE next'[p]
    BY DEF Floors, Floor
  <2> QED BY <1>3, <2>1, <2>2
<1>5. ChronologyOf(chan, other, nx)
  BY <1>1, <1>2, <1>3, RaiseNext
<1>6. RequestNextStep(p, chan, js, nx[p], ph)
  BY <1>4
<1>7. ChronologyOf(chan', other, nx)
  BY <1>1, <1>5, <1>6, RequestLemma
<1>8. PICK n \in Nat : n = next[p]
  BY <1>1
<1>9. RequestNextStep(p, chan, js, n, ph)
  BY <1>8
<1>10. SteadyOf(chan', other, dur)
  BY <1>1, <1>9, RequestSteady
<1>11. \A x, y \in Participants : Hushes(chan[x][y], chan'[x][y])
  BY <1>1, <1>9, RequestHushes
<1>12. \A x \in Participants : lastSent'[x] = lastSent[x] \/ (x = p /\ ph = "Running")
  <2>1. TimeTypes /\ chan \in ChanType
    BY <1>1
  <2> QED BY <1>9, <2>1, RequestGrows
<1>13. (\A x \in Participants : Begun(x)' => Begun(x)) \/ Assembled'
  <2>1. CASE (ph = "Running" => Begun(p)) /\ \A x \in Participants : phase'[x] = phase[x]
    BY <1>12, <2>1 DEF Begun
  <2> QED BY <2>1
<1>14. ASSUME NEW x \in Participants \ Blocking, ~pauseRequested[x], ~Urges(jobs[x])
       PROVE  ~pauseRequested'[x] /\ ~Urges(jobs'[x])
  <2>1. js[x] \in Seq(Jobs) /\ "Process" \in Jobs
    BY DEF JobsType, Jobs
  <2>2. jobs'[x] = js[x] \/ jobs'[x] = Append(js[x], "Process")
    BY DEF RequestNextStep, Post, JobsType
  <2>3. ~Urges(js[x]) /\ ~Urges(Append(js[x], "Process"))
    BY <1>14, <2>1, UrgesQueue
  <2> QED BY <1>14, <2>2, <2>3
<1>15. ChronologyOf(chan', other', Floors') /\ SteadyOf(chan', other', dur)
  BY <1>3, <1>7, <1>10
<1>16. \A x \in Participants :
         \/ phase'[x] = phase[x]
         \/ phase'[x] \notin {"None", "Created", "Barrier", "Ready", "Off"} /\ phase[x] # "Off"
  OBVIOUS
<1>17. known' = known /\ UNCHANGED <<cur, next, dur, hoppedOn>>
  OBVIOUS
<1>18. step' = step \/ step' = [step EXCEPT ![p] = "none"]
  OBVIOUS
<1> QED BY <1>11, <1>13, <1>14, <1>15, <1>16, <1>17, <1>18, QuietKept

LEMMA RequestsKept ==
  ASSUME GroupInv, NEW p \in Participants, RequestJob(p) \/ CompleteJob(p) \/ ReturnFromTask(p)
  PROVE  Kept
<1>1. /\ \A x \in Participants : Calm(x)
      /\ jobs \in JobsType /\ \A x \in Participants : jobs[x] \in Seq(Jobs)
      /\ step \in [Participants -> StepStates]
  BY GroupTyping
<1>2. ASSUME jobs[p] # <<>>
      PROVE  Rest(p) \in JobsType /\ \A x \in Participants : ~Urges(jobs[x]) => ~Urges(Rest(p)[x])
  <2>1. Rest(p) \in JobsType
    BY <1>1, <1>2, RestType
  <2>2. \A x \in Participants : Rest(p)[x] = IF x = p THEN Tail(jobs[x]) ELSE jobs[x]
    BY <1>1 DEF Rest, JobsType
  <2>3. Urges(Tail(jobs[p])) => Urges(jobs[p])
    BY <1>1, <1>2, UrgesQueue
  <2> QED BY <2>1, <2>2, <2>3
<1>3. PICK ph : ph = phase[p]
  OBVIOUS
<1>4. ph = "Running" => Begun(p)
  BY <1>3 DEF Begun
<1>5. UNCHANGED <<cur, next, dur, hoppedOn, pauseRequested, known, other, phase>>
  BY DEF RequestJob, CompleteJob, ReturnFromTask, lifecycleVars, viewVars
<1>6. CASE ReturnFromTask(p)
  <2>1. RequestNextStep(p, chan, jobs, next[p], ph) /\ step' = [step EXCEPT ![p] = "none"]
    BY <1>3, <1>6 DEF ReturnFromTask
  <2> QED BY <1>1, <1>4, <1>5, <2>1, RequestKept
<1>7. CASE CompleteJob(p)
  <2>1. RequestNextStep(p, chan, Rest(p), next[p], ph) /\ step' = [step EXCEPT ![p] = "none"]
    BY <1>3, <1>7 DEF CompleteJob
  <2>2. PICK js \in JobsType :
          js = Rest(p) /\ \A x \in Participants : ~Urges(jobs[x]) => ~Urges(js[x])
    BY <1>2, <1>7 DEF CompleteJob, NextJob
  <2> QED BY <1>4, <1>5, <2>1, <2>2, RequestKept
<1>8. CASE RequestJob(p)
  <2>1. /\ RequestNextStep(p, chan, Rest(p), next[p], ph) /\ step' = step
        /\ jobs[p] # <<>> /\ Head(jobs[p]) = "Request" /\ step[p] # "task"
    BY <1>3, <1>8 DEF RequestJob, NextJob, IoThreadIsFree
  <2>2. PICK js \in JobsType :
          js = Rest(p) /\ \A x \in Participants : ~Urges(jobs[x]) => ~Urges(js[x])
    BY <1>2, <2>1
  <2>3. Urges(jobs[p])
    BY <1>1, <2>1, UrgesQueue
  <2>4. p \in Blocking
    BY <1>1, <2>3 DEF Calm
  <2>5. step[p] = "none"
    BY <1>1, <2>1, <2>4 DEF Calm
  <2> QED BY <1>4, <1>5, <2>1, <2>2, <2>5, RequestKept
<1> QED BY <1>6, <1>7, <1>8

LEMMA StartKept ==
  ASSUME Together, GroupInv, NEW p \in Participants, StartTime(p)
  PROVE  Kept
<1>1. /\ \A x \in Participants : Calm(x)
      /\ Hails /\ Introduced /\ Assembled /\ TimeTypes /\ chan \in ChanType
      /\ jobs \in JobsType /\ phase \in [Participants -> Phases] /\ next \in [Participants -> Nat]
      /\ cur \in [Participants -> Nat \cup {-1}] /\ lastSent \in [Participants -> Nat \cup {-1}]
  BY GroupTyping
<1>2. PICK ph : ph = "Running"
  OBVIOUS
<1>3. /\ RequestNextStep(p, chan, jobs, next[p], ph)
      /\ UNCHANGED <<cur, next, dur, hoppedOn, pauseRequested, known, other, step>>
      /\ phase[p] = "Ready" /\ phase' = [phase EXCEPT ![p] = "Running"]
      /\ \A q \in Participants : phase[q] = "Ready" \/ lastSent[q] >= 0
  BY <1>2 DEF StartTime, Together, viewVars
<1>4. PICK n \in Nat : n = next[p]
  BY <1>1
<1>5. \A x, y \in Participants : Hushes(chan[x][y], chan'[x][y])
  <2>1. RequestNextStep(p, chan, jobs, n, ph)
    BY <1>3, <1>4
  <2> QED BY <1>1, <2>1, RequestHushes
<1>6. step[p] = "none"
  BY <1>1, <1>3 DEF Calm
<1>7. \A x \in Participants :
        phase'[x] = phase[x] \/ (phase'[x] = "Running" /\ phase[x] = "Ready")
  BY <1>1, <1>3
<1>8. Assembled'
  <2>1. CASE \E r \in Participants : Begun(r)
    BY <1>1, <1>3, <1>5, <1>7, <2>1, AssembledStep
  <2>2. CASE \A r \in Participants : ~Begun(r)
    <3>1. \A x \in Participants : phase[x] = "Ready"
      BY <1>3, <2>2 DEF Begun
    <3>2. \A x, y \in Participants : x # y => x \in known[y]
      BY <1>1, <3>1 DEF Introduced, Stranger
    <3>3. \A x, y \in Participants : x # y => ~Says(chan[x][y], "Created")
      BY <1>1, <3>2 DEF Hails
    <3>4. \A x, y \in Participants : ~Says(chan[x][y], "Created")
      BY <1>1, <3>3 DEF Hails
    <3>5. \A x, y \in Participants : ~Says(chan'[x][y], "Created")
      BY <1>5, <3>4 DEF Hushes
    <3>6. \A x \in Participants : phase'[x] \in {"Ready", "Running"}
      BY <1>7, <3>1
    <3> QED BY <1>3, <3>2, <3>5, <3>6 DEF Assembled
  <2> QED BY <2>1, <2>2
<1> QED BY <1>1, <1>3, <1>6, <1>7, <1>8, RequestKept

-----------------------------------------------------------------------------
(* Messages in such a group. *)

(* A message is taken from its connection. *)
LEMMA TakeGroup ==
  ASSUME GroupInv, NEW p \in Participants, NEW q \in Participants, NEW kind,
         Receives(p, q, kind), NEW view \in ViewType,
         \A x, y \in Participants : x # p \/ y # q => view[x][y] = other[x][y],
         \/ view[p][q] = other[p][q]
         \/ view[p][q] = NoTask
         \/ kind = "Next" /\ view[p][q] = Head(chan[q][p]).task
  PROVE  /\ Taken(p, q) \in ChanType
         /\ ChronologyOf(Taken(p, q), view, Floors)
         /\ SteadyOf(Taken(p, q), view, dur)
         /\ \A x, y \in Participants : Hushes(chan[x][y], Taken(p, q)[x][y])
<1>1. /\ chan \in ChanType /\ other \in ViewType /\ Floors \in [Participants -> Nat]
      /\ ChronologyOf(chan, other, Floors) /\ SteadyOf(chan, other, dur)
      /\ \A x, y \in Participants : chan[x][y] \in Seq(Message)
  BY GroupTyping
<1>2. /\ chan[q][p] # <<>> /\ Head(chan[q][p]).kind = kind
  BY DEF Receives
<1>3. \/ view[p][q] = other[p][q]
      \/ view[p][q] = NoTask
      \/ Head(chan[q][p]).kind = "Next" /\ view[p][q] = Head(chan[q][p]).task
  BY <1>2
<1>4. PICK nx \in [Participants -> Nat] : nx = Floors
  BY <1>1
<1>5. Taken(p, q) \in ChanType /\ ChronologyOf(Taken(p, q), view, nx)
  <2>1. ChronologyOf(chan, other, nx)
    BY <1>1, <1>4
  <2> QED BY <1>1, <1>2, <1>3, <2>1, TakeMessage
<1>6. PICK d : d = dur
  OBVIOUS
<1>7. SteadyOf(Taken(p, q), view, d)
  <2>1. SteadyOf(chan, other, d)
    BY <1>1, <1>6
  <2> QED BY <1>1, <1>2, <1>3, <2>1, TakeSteady
<1>8. \A x, y \in Participants : Hushes(chan[x][y], Taken(p, q)[x][y])
  <2>1. /\ Taken(p, q)[q][p] = Tail(chan[q][p])
        /\ \A x, y \in Participants : x # q \/ y # p => Taken(p, q)[x][y] = chan[x][y]
    BY <1>1 DEF Taken, ChanType
  <2>2. Hushes(chan[q][p], Tail(chan[q][p]))
    BY <1>1, <1>2, TailHushes
  <2> QED BY <2>1, <2>2, HushesTransitive
<1> QED BY <1>4, <1>5, <1>6, <1>7, <1>8

(* A signal is sent to some peer. *)
LEMMA SendSignal ==
  ASSUME NEW ch \in ChanType, NEW view \in ViewType,
         NEW nx \in [Participants -> Nat], NEW d, NEW m \in Message,
         m.kind \notin {"Next", "Created"}, ChronologyOf(ch, view, nx), SteadyOf(ch, view, d),
         NEW ch2,
         \A x, y \in Participants : ch2[x][y] = ch[x][y] \/ ch2[x][y] = Append(ch[x][y], m)
  PROVE  /\ ChronologyOf(ch2, view, nx) /\ SteadyOf(ch2, view, d)
         /\ \A x, y \in Participants : Hushes(ch[x][y], ch2[x][y])
<1>1. \A x, y \in Participants : ch2[x][y] = ch[x][y] \/ ch2[x][y] = Append(ch[x][y], m)
  OBVIOUS
<1>2. \A x, y \in Participants :
        /\ ch[x][y] \in Seq(Message) /\ nx[x] \in Nat /\ view[y][x].tp \in Int
        /\ Chronological(ch[x][y], view[y][x].tp, nx[x])
  BY OneQueue
<1>3. \A x, y \in Participants : Chronological(Append(ch[x][y], m), view[y][x].tp, nx[x])
  BY <1>2, AppendSignal
<1>4. \A x, y \in Participants : SteadyQueue(ch[x][y], d[x]) /\ SteadyQueue(Append(ch[x][y], m), d[x])
  BY <1>2, AppendSteady DEF SteadyOf
<1>5. \A x, y \in Participants : Hushes(ch[x][y], ch[x][y]) /\ Hushes(ch[x][y], Append(ch[x][y], m))
  BY <1>2, AppendHushes, HushesTransitive
<1>6. ChronologyOf(ch2, view, nx)
  BY <1>1, <1>2, <1>3 DEF ChronologyOf
<1>7. SteadyOf(ch2, view, d)
  BY <1>1, <1>4 DEF SteadyOf
<1> QED BY <1>1, <1>5, <1>6, <1>7

(* Steps that send or take signals. *)
LEMMA SignalKept ==
  ASSUME GroupInv, NEW p \in Participants,
         UNCHANGED <<cur, next, dur, hoppedOn, step, lastSent, pauseRequested>>,
         \A x, y \in Participants : x \in known'[y] => x \in known[y],
         \A x, y \in Participants : x \in known[y] /\ phase[x] # "Off" => x \in known'[y],
         \A x \in Participants :
           \/ phase'[x] = phase[x]
           \/ phase'[x] = "Stopped" /\ phase[x] # "Off"
           \/ phase'[x] \in {"Barrier", "Ready"} /\ phase[x] \in {"Created", "Barrier"},
         \A x \in Participants : ~Urges(jobs[x]) => ~Urges(jobs'[x]),
         \A x, y \in Participants : Hushes(chan[x][y], chan'[x][y]),
         ChronologyOf(chan', other', Floors), SteadyOf(chan', other', dur)
  PROVE  Kept
<1>1. Floors' = Floors
  BY DEF Floors, Floor
<1>2. \A x \in Participants : Begun(x)' => Begun(x)
  BY DEF Begun
<1>3. /\ ChronologyOf(chan', other', Floors') /\ SteadyOf(chan', other', dur)
      /\ step' = step /\ UNCHANGED <<cur, next, dur, hoppedOn>>
  BY <1>1
<1>4. \A x \in Participants :
        \/ phase'[x] = phase[x]
        \/ phase'[x] \notin {"None", "Created", "Barrier", "Ready", "Off"} /\ phase[x] # "Off"
        \/ phase'[x] \in {"Created", "Barrier", "Ready"} /\ phase[x] \in {"None", "Created", "Barrier"}
  OBVIOUS
<1>5. \A x \in Participants \ Blocking :
        ~pauseRequested[x] /\ ~Urges(jobs[x]) => ~pauseRequested'[x] /\ ~Urges(jobs'[x])
  OBVIOUS
<1> QED BY <1>2, <1>3, <1>4, <1>5, QuietKept

LEMMA CallKept ==
  ASSUME GroupInv, NEW p \in Participants, CallAfterAllParticipantsReplied(p)
  PROVE  Kept
<1>1. /\ chan \in ChanType /\ other \in ViewType /\ Floors \in [Participants -> Nat]
      /\ ChronologyOf(chan, other, Floors) /\ SteadyOf(chan, other, dur)
      /\ phase \in [Participants -> Phases]
  BY GroupTyping
<1>2. UNCHANGED <<cur, next, dur, hoppedOn, step, lastSent, pauseRequested, jobs, known, other>>
  BY DEF CallAfterAllParticipantsReplied, timeVars, viewVars
<1>3. \A x \in Participants :
        \/ phase'[x] = phase[x]
        \/ phase'[x] \in {"Barrier", "Ready"} /\ phase[x] \in {"Created", "Barrier"}
  BY <1>1 DEF CallAfterAllParticipantsReplied
<1>4. PICK m : m = Signal("Call")
  OBVIOUS
<1>5. m \in Message /\ m.kind = "Call"
  BY <1>4, Messages DEF Kinds
<1>6. chan' = Broadcast(chan, p, m)
  BY <1>4 DEF CallAfterAllParticipantsReplied
<1>7. PICK nx \in [Participants -> Nat] : nx = Floors
  BY <1>1
<1>8. ChronologyOf(Broadcast(chan, p, m), other, nx)
  BY <1>1, <1>5, <1>7, BroadcastSignal
<1>9. PICK d : d = dur
  OBVIOUS
<1>10. SteadyOf(Broadcast(chan, p, m), other, d)
  BY <1>1, <1>5, <1>9, BroadcastSteady
<1>11. \A x, y \in Participants : Hushes(chan[x][y], Broadcast(chan, p, m)[x][y])
  BY <1>1, <1>5, BroadcastHushes
<1>12. /\ \A x, y \in Participants : Hushes(chan[x][y], chan'[x][y])
       /\ ChronologyOf(chan', other', Floors) /\ SteadyOf(chan', other', dur)
  BY <1>2, <1>6, <1>7, <1>8, <1>9, <1>10, <1>11
<1> QED BY <1>2, <1>3, <1>12, SignalKept

LEMMA ReceivesKept ==
  ASSUME Together, GroupInv, NEW p \in Participants, NEW q \in Participants,
         ReceiveCall(p, q) \/ ReceiveCallReturn(p, q) \/ ReceiveAbortSimulation(p, q)
  PROVE  Kept
<1>1. /\ chan \in ChanType /\ other \in ViewType /\ Floors \in [Participants -> Nat]
      /\ phase \in [Participants -> Phases] /\ jobs \in JobsType
      /\ \A x \in Participants : jobs[x] \in Seq(Jobs)
  BY GroupTyping
<1>2. PICK kind : Receives(p, q, kind)
  BY DEF ReceiveCall, ReceiveCallReturn, ReceiveAbortSimulation
<1>3. /\ Taken(p, q) \in ChanType
      /\ ChronologyOf(Taken(p, q), other, Floors)
      /\ SteadyOf(Taken(p, q), other, dur)
      /\ \A x, y \in Participants : Hushes(chan[x][y], Taken(p, q)[x][y])
  <2>1. PICK view \in ViewType : view = other
    BY <1>1
  <2>2. /\ Taken(p, q) \in ChanType
        /\ ChronologyOf(Taken(p, q), view, Floors)
        /\ SteadyOf(Taken(p, q), view, dur)
        /\ \A x, y \in Participants : Hushes(chan[x][y], Taken(p, q)[x][y])
    BY <1>2, <2>1, TakeGroup
  <2> QED BY <2>1, <2>2
<1>4. /\ UNCHANGED <<cur, next, dur, hoppedOn, step, lastSent, pauseRequested, known, other>>
      /\ phase[p] # "Off"
  BY DEF ReceiveCall, ReceiveCallReturn, ReceiveAbortSimulation, timeVars, viewVars, lifecycleVars,
         Receives, IoThreadIsFree
<1>5. \A x \in Participants :
        \/ phase'[x] = phase[x]
        \/ phase'[x] = "Stopped" /\ phase[x] # "Off"
        \/ phase'[x] \in {"Barrier", "Ready"} /\ phase[x] \in {"Created", "Barrier"}
  BY <1>1, <1>4 DEF ReceiveCall, ReceiveCallReturn, ReceiveAbortSimulation, lifecycleVars,
         BarrierWithout, Together
<1>6. \A x \in Participants : ~Urges(jobs[x]) => ~Urges(jobs'[x])
  <2>1. jobs' = jobs \/ jobs' = Post(jobs, p, "Abort")
    BY DEF ReceiveCall, ReceiveCallReturn, ReceiveAbortSimulation
  <2>2. \A x \in Participants : jobs'[x] = jobs[x] \/ jobs'[x] = Append(jobs[x], "Abort")
    BY <1>1, <2>1 DEF Post, JobsType
  <2>3. "Abort" \in Jobs
    BY DEF Jobs
  <2> QED BY <1>1, <2>2, <2>3, UrgesQueue
<1>7. /\ \A x, y \in Participants : Hushes(chan[x][y], chan'[x][y])
      /\ ChronologyOf(chan', other', Floors) /\ SteadyOf(chan', other', dur)
  <2>1. CASE chan' = Taken(p, q)
    BY <1>3, <1>4, <2>1
  <2>2. CASE ReceiveCall(p, q) /\ phase[q] # "Off"
    <3>1. PICK m : m = Signal("Reply")
      OBVIOUS
    <3>2. m \in Message /\ m.kind = "Reply"
      BY <3>1, Messages DEF Kinds
    <3>3. chan' = [Taken(p, q) EXCEPT ![p][q] = Append(@, m)]
      BY <2>2, <3>1 DEF ReceiveCall
    <3>4. PICK ch \in ChanType : ch = Taken(p, q)
      BY <1>3
    <3>5. PICK ch2 : ch2 = [ch EXCEPT ![p][q] = Append(@, m)]
      OBVIOUS
    <3>6. PICK nx \in [Participants -> Nat] : nx = Floors
      BY <1>1
    <3>7. PICK view \in ViewType : view = other
      BY <1>1
    <3>8. PICK d : d = dur
      OBVIOUS
    <3>9. ChronologyOf(ch, view, nx) /\ SteadyOf(ch, view, d)
      BY <1>3, <3>4, <3>6, <3>7, <3>8
    <3>13. /\ \A x, y \in Participants : ch2[x][y] = ch[x][y] \/ ch2[x][y] = Append(ch[x][y], m)
           /\ m.kind \notin {"Next", "Created"}
      BY <3>2, <3>5 DEF ChanType
    <3>10. /\ ChronologyOf(ch2, view, nx) /\ SteadyOf(ch2, view, d)
           /\ \A x, y \in Participants : Hushes(ch[x][y], ch2[x][y])
      BY <3>2, <3>9, <3>13, SendSignal
    <3>11. ch2 = chan'
      BY <3>3, <3>4, <3>5
    <3>12. \A x, y \in Participants : Hushes(chan[x][y], chan'[x][y])
      BY <1>3, <3>4, <3>10, <3>11, HushesTransitive
    <3> QED BY <1>4, <3>6, <3>7, <3>8, <3>10, <3>11, <3>12
  <2>3. chan' = Taken(p, q) \/ (ReceiveCall(p, q) /\ phase[q] # "Off")
    BY DEF ReceiveCall, ReceiveCallReturn, ReceiveAbortSimulation
  <2> QED BY <2>1, <2>2, <2>3
<1> QED BY <1>4, <1>5, <1>6, <1>7, SignalKept

(* The announcement of a service, and its discovery, precede any start. *)
LEMMA HailKept ==
  ASSUME GroupInv, NEW p \in Participants, StartLifecycle(p)
  PROVE  Kept
<1>1. /\ chan \in ChanType /\ other \in ViewType /\ Floors \in [Participants -> Nat]
      /\ ChronologyOf(chan, other, Floors) /\ SteadyOf(chan, other, dur)
      /\ phase \in [Participants -> Phases] /\ Hails /\ Assembled
      /\ \A x, y \in Participants : chan[x][y] \in Seq(Message)
  BY GroupTyping
<1>2. /\ UNCHANGED <<cur, next, dur, hoppedOn, step, lastSent, pauseRequested, jobs, known, other>>
      /\ phase[p] = "None" /\ phase' = [phase EXCEPT ![p] = "Created"]
  BY DEF StartLifecycle, timeVars, viewVars
<1>3. PICK m : m = Signal("Created")
  OBVIOUS
<1>4. m \in Message /\ m.kind = "Created"
  BY <1>3, Messages DEF Kinds
<1>5. chan' = Broadcast(chan, p, m)
  BY <1>3 DEF StartLifecycle
<1>6. \A x, y \in Participants :
        \/ chan'[x][y] = chan[x][y]
        \/ x = p /\ y # p /\ chan'[x][y] = Append(chan[x][y], m)
  BY <1>1, <1>5 DEF Broadcast, ChanType
<1>7. PICK nx \in [Participants -> Nat] : nx = Floors
  BY <1>1
<1>8. ChronologyOf(chan', other', Floors')
  <2>1. Floors' = Floors
    BY <1>2 DEF Floors, Floor
  <2>2. ChronologyOf(Broadcast(chan, p, m), other, nx)
    BY <1>1, <1>4, <1>7, BroadcastSignal
  <2> QED BY <1>2, <1>5, <1>7, <2>1, <2>2
<1>9. SteadyOf(chan', other', dur)
  <2>1. PICK d : d = dur
    OBVIOUS
  <2>2. SteadyOf(Broadcast(chan, p, m), other, d)
    BY <1>1, <1>4, <2>1, BroadcastSteady
  <2> QED BY <1>2, <1>5, <2>1, <2>2
<1>10. \A x \in Participants :
         phase'[x] = phase[x] \/ (phase'[x] = "Created" /\ phase[x] = "None" /\ x = p)
  BY <1>1, <1>2
<1>11. Hails'
  <2> SUFFICES ASSUME NEW x \in Participants, NEW y \in Participants
               PROVE  /\ phase'[x] = "None" \/ x \in known'[y] => ~Says(chan'[x][y], "Created")
                      /\ phase'[x] = "None" => x \notin known'[y]
                      /\ HailsOnce(chan'[x][y])
                      /\ x = y => ~Says(chan'[x][y], "Created")
    BY DEF Hails
  <2>1. /\ phase[x] = "None" \/ x \in known[y] => ~Says(chan[x][y], "Created")
        /\ phase[x] = "None" => x \notin known[y]
        /\ HailsOnce(chan[x][y])
        /\ x = y => ~Says(chan[x][y], "Created")
    BY <1>1 DEF Hails
  <2>2. CASE chan'[x][y] = chan[x][y]
    BY <1>2, <1>10, <2>1, <2>2
  <2>3. CASE x = p /\ y # p /\ chan'[x][y] = Append(chan[x][y], m)
    <3>1. HailsOnce(Append(chan[x][y], m))
      BY <1>1, <1>2, <1>4, <2>1, <2>3, AppendHushes
    <3>2. phase'[x] # "None" /\ x \notin known'[y]
      BY <1>1, <1>2, <2>1, <2>3
    <3> QED BY <2>3, <3>1, <3>2
  <2> QED BY <1>6, <2>2, <2>3
<1>12. Assembled'
  <2>1. \A r \in Participants : ~Begun(r)
    BY <1>1, <1>2 DEF Assembled
  <2>2. \A r \in Participants : ~Begun(r)'
    BY <1>2, <1>10, <2>1 DEF Begun
  <2> QED BY <2>2 DEF Assembled
<1>13. (\A x \in Participants : Calm(x)') /\ Announced' /\ Sim
  <2>1. /\ \A x \in Participants :
             \/ phase'[x] = phase[x]
             \/ phase'[x] \notin {"None", "Created", "Barrier", "Ready", "Off"} /\ phase[x] # "Off"
             \/ /\ phase'[x] \in {"Created", "Barrier", "Ready"}
                /\ phase[x] \in {"None", "Created", "Barrier"}
        /\ step' = step /\ UNCHANGED <<cur, next, dur, hoppedOn>>
        /\ \A x \in Participants \ Blocking :
             ~pauseRequested[x] /\ ~Urges(jobs[x]) => ~pauseRequested'[x] /\ ~Urges(jobs'[x])
    BY <1>2, <1>10
  <2> QED BY <1>8, <1>9, <2>1, QuietTime
<1> QED BY <1>11, <1>12, <1>13 DEF Kept

LEMMA DiscoveryKept ==
  ASSUME GroupInv, NEW p \in Participants, NEW q \in Participants, ReceiveServiceCreated(p, q)
  PROVE  Kept
<1>1. /\ chan \in ChanType /\ other \in ViewType /\ Floors \in [Participants -> Nat]
      /\ phase \in [Participants -> Phases] /\ Hails /\ Assembled
      /\ known \in [Participants -> SUBSET Participants]
      /\ cur \in [Participants -> Nat \cup {-1}]
      /\ \A x, y \in Participants : chan[x][y] \in Seq(Message)
  BY GroupTyping
<1>2. /\ chan[q][p] # <<>> /\ Head(chan[q][p]).kind = "Created"
      /\ UNCHANGED <<phase, cur, next, dur, hoppedOn, step, lastSent, pauseRequested, jobs>>
      /\ known' = [known EXCEPT ![p] = @ \cup {q}]
      /\ other' = [other EXCEPT ![p][q] = IF q \in known[p] THEN @ ELSE NoTask]
  BY DEF ReceiveServiceCreated, Receives, timeVars, lifecycleVars
<1>3. Says(chan[q][p], "Created")
  BY <1>1, <1>2, TailGrows
<1>4. \A r \in Participants : ~Begun(r)
  BY <1>1, <1>3 DEF Assembled
<1>5. chan' = Taken(p, q)
  <2>1. cur[p] = -1
    BY <1>1, <1>4 DEF Begun
  <2> QED BY <2>1 DEF ReceiveServiceCreated
<1>6. PICK kind : kind = "Created"
  OBVIOUS
<1>7. /\ ChronologyOf(chan', other', Floors) /\ SteadyOf(chan', other', dur)
      /\ \A x, y \in Participants : Hushes(chan[x][y], chan'[x][y])
  <2>1. other' \in ViewType
    BY <1>1, <1>2, Messages DEF ViewType
  <2>2. PICK view \in ViewType : view = other'
    BY <2>1
  <2>3. /\ \A x, y \in Participants : x # p \/ y # q => view[x][y] = other[x][y]
        /\ view[p][q] = other[p][q] \/ view[p][q] = NoTask
    BY <1>1, <1>2, <2>2 DEF ViewType
  <2>4. Receives(p, q, kind)
    BY <1>6 DEF ReceiveServiceCreated
  <2>5. /\ ChronologyOf(Taken(p, q), view, Floors)
        /\ SteadyOf(Taken(p, q), view, dur)
        /\ \A x, y \in Participants : Hushes(chan[x][y], Taken(p, q)[x][y])
    BY <2>3, <2>4, TakeGroup
  <2> QED BY <1>5, <2>2, <2>5
<1>8. /\ ChronologyOf(chan', other', Floors') /\ SteadyOf(chan', other', dur)
  <2>1. Floors' = Floors
    BY <1>2 DEF Floors, Floor
  <2> QED BY <1>7, <2>1
<1>9. ~Says(chan'[q][p], "Created")
  <2>1. HailsOnce(chan[q][p])
    BY <1>1 DEF Hails
  <2>2. ~Says(Tail(chan[q][p]), "Created")
    BY <1>1, <1>2, <2>1, TailHushes
  <2>3. chan'[q][p] = Tail(chan[q][p])
    BY <1>1, <1>5 DEF Taken, ChanType
  <2> QED BY <2>2, <2>3
<1>10. Hails'
  <2> SUFFICES ASSUME NEW x \in Participants, NEW y \in Participants
               PROVE  /\ phase'[x] = "None" \/ x \in known'[y] => ~Says(chan'[x][y], "Created")
                      /\ phase'[x] = "None" => x \notin known'[y]
                      /\ HailsOnce(chan'[x][y])
                      /\ x = y => ~Says(chan'[x][y], "Created")
    BY DEF Hails
  <2>1. /\ phase[x] = "None" \/ x \in known[y] => ~Says(chan[x][y], "Created")
        /\ phase[x] = "None" => x \notin known[y]
        /\ HailsOnce(chan[x][y])
        /\ x = y => ~Says(chan[x][y], "Created")
    BY <1>1 DEF Hails
  <2>2. phase'[x] = phase[x] /\ Hushes(chan[x][y], chan'[x][y])
    BY <1>2, <1>7
  <2>3. CASE x = q /\ y = p
    <3>1. phase[q] # "None"
      BY <1>3, <2>1, <2>3
    <3> QED BY <1>9, <2>1, <2>2, <2>3, <3>1 DEF Hushes
  <2>4. CASE x # q \/ y # p
    <3>1. x \in known'[y] <=> x \in known[y]
      BY <1>1, <1>2, <2>4
    <3> QED BY <2>1, <2>2, <3>1 DEF Hushes
  <2> QED BY <2>3, <2>4
<1>11. Assembled'
  <2>1. \A r \in Participants : ~Begun(r)'
    BY <1>2, <1>4 DEF Begun
  <2> QED BY <2>1 DEF Assembled
<1>12. (\A x \in Participants : Calm(x)') /\ Announced' /\ Sim
  <2>1. /\ \A x \in Participants : phase'[x] = phase[x]
        /\ step' = step /\ UNCHANGED <<cur, next, dur, hoppedOn>>
        /\ \A x \in Participants \ Blocking :
             ~pauseRequested[x] /\ ~Urges(jobs[x]) => ~pauseRequested'[x] /\ ~Urges(jobs'[x])
    BY <1>2
  <2> QED BY <1>8, <2>1, QuietTime
<1> QED BY <1>10, <1>11, <1>12 DEF Kept

(* A step size that is fixed is not changed. *)
LEMMA NoSetPeriod ==
  ASSUME Together, GroupInv, NEW p \in Participants
  PROVE  ~SetPeriod(p)
<1>1. dur[p] \in StepSizes[p]
  BY GroupTyping DEF Calm
<1> QED BY <1>1 DEF SetPeriod, Together

-----------------------------------------------------------------------------
(* The simulation step. *)

(* What p sees of the others when its own step may be due. *)
LEMMA ViewIsBehind ==
  ASSUME GroupInv, NEW ch \in ChanType, NEW view \in ViewType,
         ChronologyOf(ch, view, Floors), SteadyOf(ch, view, dur),
         NEW p \in Participants, NEW q \in Participants
  PROVE  /\ view[p][q].tp \in Int /\ view[p][q].tp <= Floor(q)
         /\ Floor(q) \in Nat /\ Floor(q) <= next[q]
         /\ cur[p] = -1 /\ phase[p] # "Off" => ~(view[p][q].tp > view[p][q].dur)
<1>1. /\ Inv /\ Announced /\ \A x \in Participants : Calm(x)
      /\ Floors \in [Participants -> Nat] /\ next[q] \in Nat /\ dur[q] \in Nat
  BY GroupTyping
<1>2. Floors[q] = Floor(q) /\ Floors[q] <= next[q] /\ Floors[q] \in Nat
  BY <1>1, FloorTyping
<1>3. view[p][q] \in Task
  BY DEF ViewType
<1>4. view[p][q].tp \in Int /\ view[p][q].dur \in Nat
  BY <1>3 DEF Task
<1>5. view[p][q].tp <= Floors[q]
  BY DEF ChronologyOf, Chronological
<1>6. ASSUME cur[p] = -1, phase[p] # "Off", view[p][q].tp > view[p][q].dur PROVE FALSE
  <2>1. view[p][q].tp # -1
    BY <1>4, <1>6
  <2>2. view[p][q].dur = dur[q]
    BY <2>1 DEF SteadyOf
  <2>3. next[q] <= dur[q]
    BY <1>1, <1>6 DEF Announced
  <2> QED BY <1>1, <1>2, <1>4, <1>5, <1>6, <2>2, <2>3
<1> QED BY <1>2, <1>4, <1>5, <1>6

LEMMA ProcessKept ==
  ASSUME GroupInv, NEW p \in Participants, NEW kn \in SUBSET Participants,
         NEW view \in ViewType, NEW ch \in ChanType, NEW js \in JobsType,
         ChronologyOf(ch, view, Floors), SteadyOf(ch, view, dur),
         \A x, y \in Participants : Hushes(chan[x][y], ch[x][y]),
         step[p] # "task", phase[p] # "Off",
         \A x \in Participants : x \in known[p] /\ phase[x] # "Off" => x \in kn,
         ProcessSimulationTimeUpdate(p, kn, view[p], ch, js),
         other' = view, pauseRequested' = pauseRequested,
         \A x, y \in Participants : x \in known'[y] => x \in known[y],
         \A x, y \in Participants : x \in known[y] /\ phase[x] # "Off" => x \in known'[y],
         \A x \in Participants :
           phase'[x] = phase[x] \/ (phase'[x] = "Ready" /\ phase[x] = "Barrier"),
         \A x \in Participants : ~Urges(jobs[x]) => ~Urges(js[x])
  PROVE  Kept
<1>1. /\ Inv /\ Hails /\ Assembled /\ Announced /\ OwnTime /\ TimeTypes
      /\ \A x \in Participants : Calm(x)
      /\ phase \in [Participants -> Phases] /\ step \in [Participants -> StepStates]
      /\ cur \in [Participants -> Nat \cup {-1}]
      /\ next \in [Participants -> Nat] /\ dur \in [Participants -> Nat \ {0}]
      /\ Floors \in [Participants -> Nat]
  BY GroupTyping
<1>2. CASE ~(IsTimeAdvancePossible(p, kn, view[p]) /\ ~IsExecutingSimStep(p))
  <2>1. chan' = ch /\ jobs' = js /\ UNCHANGED <<cur, next, dur, hoppedOn, step, lastSent>>
    BY <1>2 DEF ProcessSimulationTimeUpdate
  <2>2. /\ \A x, y \in Participants : Hushes(chan[x][y], chan'[x][y])
        /\ ChronologyOf(chan', other', Floors) /\ SteadyOf(chan', other', dur)
        /\ \A x \in Participants : ~Urges(jobs[x]) => ~Urges(jobs'[x])
        /\ UNCHANGED <<cur, next, dur, hoppedOn, step, lastSent, pauseRequested>>
    BY <2>1
  <2>3. \A x \in Participants :
          \/ phase'[x] = phase[x]
          \/ phase'[x] \in {"Barrier", "Ready"} /\ phase[x] \in {"Created", "Barrier"}
    OBVIOUS
  <2> QED BY <2>2, <2>3, SignalKept
<1>3. CASE IsTimeAdvancePossible(p, kn, view[p]) /\ ~IsExecutingSimStep(p)
  <2>1. phase[p] = "Running" /\ step[p] = "none"
    BY <1>1, <1>3 DEF IsTimeAdvancePossible, MayAdvance, IsExecutingSimStep, StepStates
  <2>2. \A x \in Participants : phase'[x] = "Off" <=> phase[x] = "Off"
    OBVIOUS
  <2>3. \A x \in Participants : x # p /\ phase[x] # "Off" => x \in kn
    <3>1. Begun(p)
      BY <2>1 DEF Begun
    <3> QED BY <1>1, <2>1, <3>1 DEF Assembled
  <2>4. \A x \in Participants :
          /\ view[p][x].tp \in Int /\ view[p][x].tp <= Floor(x)
          /\ Floor(x) \in Nat /\ Floor(x) <= next[x]
          /\ cur[p] = -1 => ~(view[p][x].tp > view[p][x].dur)
    BY ViewIsBehind
  <2>5. ~HandleHopOn(p, kn, view[p])
    BY <2>4 DEF HandleHopOn, AlreadyAdvanced
  <2>6. AdvanceTimeStep(p, next[p], ch, js) /\ UNCHANGED dur
    BY <1>3, <2>5 DEF ProcessSimulationTimeUpdate, IsStepTime
  <2>7. hoppedOn' = hoppedOn
    <3>1. hoppedOn' = [hoppedOn EXCEPT ![p] = @ \/ HandleHopOn(p, kn, view[p])]
      BY <1>3 DEF ProcessSimulationTimeUpdate
    <3>2. hoppedOn \in [Participants -> BOOLEAN]
      BY <1>1 DEF TimeTypes
    <3>3. (hoppedOn[p] \/ HandleHopOn(p, kn, view[p])) = hoppedOn[p]
      BY <2>5, <3>2
    <3> QED BY <3>1, <3>2, <3>3
  <2>8. /\ cur' = [cur EXCEPT ![p] = next[p]] /\ next' = [next EXCEPT ![p] = next[p] + dur[p]]
        /\ step' = [step EXCEPT ![p] = IF p \in Blocking THEN "task" ELSE "open"]
        /\ chan' = ch /\ jobs' = js /\ lastSent' = lastSent
    BY <2>6 DEF AdvanceTimeStep
  <2>9. \A q \in Participants : phase[q] # "Off" => next[p] <= Floor(q)
    <3> SUFFICES ASSUME NEW q \in Participants, phase[q] # "Off" PROVE next[p] <= Floor(q)
      OBVIOUS
    <3>1. CASE q = p
      BY <1>1, <2>1, <3>1 DEF Floor
    <3>2. CASE q # p
      <4>1. q \in kn
        BY <2>3, <3>2
      <4>2. ~(view[p][q].tp < next[p])
        BY <1>3, <4>1 DEF IsTimeAdvancePossible, OtherParticipantHasLowerTimepoint
      <4>3. next[p] \in Nat
        BY <1>1
      <4> QED BY <2>4, <4>2, <4>3
    <3> QED BY <3>1, <3>2
  <2>10. step'[p] \in {"task", "open"} /\ \A x \in Participants \ {p} : step'[x] = step[x]
    BY <1>1, <2>8
  <2>11. \A x \in Participants : Floor(x)' = Floor(x)
    <3>1. \A x \in Participants \ {p} : cur'[x] = cur[x] /\ next'[x] = next[x]
      BY <1>1, <2>8
    <3>2. cur'[p] = next[p]
      BY <1>1, <2>8
    <3> QED BY <2>1, <2>10, <3>1, <3>2 DEF Floor
  <2>12. Floors' = Floors
    BY <2>11 DEF Floors
  <2>13. Sim
    <3>1. {x \in Participants : phase'[x] = "Off"} = {x \in Participants : phase[x] = "Off"}
      BY <2>2
    <3>2. [x \in Participants |-> Floor(x)]' = [x \in Participants |-> Floor(x)]
      BY <2>11
    <3>3. {x \in Participants : step'[x] \in {"task", "open"}} =
            {x \in Participants : step[x] \in {"task", "open"}} \cup {p}
      BY <2>10
    <3>4. Floor(p) = next[p]
      BY <2>1 DEF Floor
    <3>5. Conservative!Begin(p)
      BY <2>1, <2>8, <2>9, <3>1, <3>2, <3>3, <3>4 DEF Conservative!Begin
    <3> QED BY <3>5 DEF Sim, Conservative!CNext
  <2>14. Hails'
    <3>1. /\ \A x \in Participants : phase'[x] = "None" => phase[x] = "None"
          /\ \A x, y \in Participants : Hushes(chan[x][y], chan'[x][y])
      BY <2>8
    <3> QED BY <1>1, <3>1, HailsStep
  <2>15. Assembled'
    <3>1. /\ \A x \in Participants :
               phase'[x] \in {"None", "Created", "Barrier"} =>
                 phase[x] \in {"None", "Created", "Barrier"}
          /\ \A x, y \in Participants : Hushes(chan[x][y], chan'[x][y])
          /\ \A x \in Participants : phase[x] = "Off" => phase'[x] = "Off"
      BY <2>8
    <3>2. \E r \in Participants : Begun(r)
      BY <2>1 DEF Begun
    <3> QED BY <1>1, <3>1, <3>2, AssembledStep
  <2>16. ASSUME NEW x \in Participants PROVE Calm(x)'
    <3>1. Calm(x) /\ hoppedOn'[x] = hoppedOn[x] /\ dur'[x] = dur[x] /\ pauseRequested'[x] = pauseRequested[x]
      BY <1>1, <2>6, <2>7
    <3>2. ~Urges(jobs[x]) => ~Urges(jobs'[x])
      BY <2>8
    <3>3. phase'[x] \in {"None", "Created", "Barrier", "Ready"} =>
            phase[x] \in {"None", "Created", "Barrier", "Ready"}
      OBVIOUS
    <3>4. CASE x = p
      <4>1. cur'[p] >= 0 /\ step'[p] = (IF p \in Blocking THEN "task" ELSE "open")
        BY <1>1, <2>8
      <4>2. phase'[p] = "Running"
        BY <2>1
      <4> QED BY <3>1, <3>2, <3>4, <4>1, <4>2 DEF Calm
    <3>5. CASE x # p
      <4>1. cur'[x] = cur[x] /\ step'[x] = step[x]
        BY <1>1, <2>8, <3>5
      <4> QED BY <3>1, <3>2, <3>3, <4>1 DEF Calm
    <3> QED BY <3>4, <3>5
  <2>17. ASSUME NEW x \in Participants, NEW y \in Participants, cur'[x] = -1, phase'[x] # "Off"
         PROVE  next'[y] <= dur'[y]
    <3>1. x # p
      <4>1. cur'[p] \in Nat
        BY <1>1, <2>8
      <4> QED BY <2>17, <4>1
    <3>2. cur[x] = -1 /\ phase[x] # "Off"
      BY <1>1, <2>2, <2>8, <2>17, <3>1
    <3>3. next[y] <= dur[y]
      BY <1>1, <3>2 DEF Announced
    <3>4. CASE y # p
      BY <1>1, <2>6, <2>8, <3>3, <3>4
    <3>5. CASE y = p
      <4>1. next[x] = 0
        BY <1>1, <3>2 DEF OwnTime, Calm
      <4>2. next[p] <= Floor(x) /\ Floor(x) \in Nat /\ Floor(x) <= next[x]
        BY <2>4, <2>9, <3>2
      <4>3. next[p] = 0
        BY <1>1, <4>1, <4>2
      <4>4. next'[p] = dur[p] /\ dur[p] \in Nat
        BY <1>1, <2>8, <4>3
      <4> QED BY <2>6, <3>5, <4>4
    <3> QED BY <3>4, <3>5
  <2>18. Announced'
    <3>1. ChronologyOf(chan', other', Floors') /\ SteadyOf(chan', other', dur')
      BY <2>6, <2>8, <2>12
    <3> QED BY <2>17, <3>1 DEF Announced, ChronologyOf, SteadyOf
  <2> QED BY <2>13, <2>14, <2>15, <2>16, <2>18 DEF Kept
<1> QED BY <1>2, <1>3

LEMMA ProcessJobKept ==
  ASSUME GroupInv, NEW p \in Participants, ProcessJob(p)
  PROVE  Kept
<1>1. /\ chan \in ChanType /\ jobs \in JobsType /\ other \in ViewType
      /\ known \in [Participants -> SUBSET Participants]
      /\ ChronologyOf(chan, other, Floors) /\ SteadyOf(chan, other, dur)
      /\ \A x \in Participants : jobs[x] \in Seq(Jobs)
  BY GroupTyping
<1>2. /\ jobs[p] # <<>> /\ step[p] # "task" /\ phase[p] # "Off"
      /\ UNCHANGED <<phase, pauseRequested, known, other>>
  BY DEF ProcessJob, NextJob, IoThreadIsFree, lifecycleVars, viewVars
<1>3. Rest(p) \in JobsType
  BY <1>1, <1>2, RestType
<1>4. PICK js \in JobsType : js = Rest(p)
  BY <1>3
<1>5. \A x \in Participants : ~Urges(jobs[x]) => ~Urges(js[x])
  <2>1. \A x \in Participants : js[x] = IF x = p THEN Tail(jobs[x]) ELSE jobs[x]
    BY <1>1, <1>4 DEF Rest, JobsType
  <2>2. Urges(Tail(jobs[p])) => Urges(jobs[p])
    BY <1>1, <1>2, UrgesQueue
  <2> QED BY <2>1, <2>2
<1>6. PICK view \in ViewType : view = other
  BY <1>1
<1>7. PICK ch \in ChanType : ch = chan
  BY <1>1
<1>8. PICK kn \in SUBSET Participants : kn = known[p]
  BY <1>1
<1>9. ProcessSimulationTimeUpdate(p, kn, view[p], ch, js)
  BY <1>4, <1>6, <1>7, <1>8 DEF ProcessJob
<1>10. /\ ChronologyOf(ch, view, Floors) /\ SteadyOf(ch, view, dur) /\ other' = view
       /\ \A x, y \in Participants : Hushes(chan[x][y], ch[x][y])
  BY <1>1, <1>2, <1>6, <1>7, HushesTransitive
<1>11. /\ \A x \in Participants : x \in known[p] /\ phase[x] # "Off" => x \in kn
       /\ known' = known /\ phase' = phase /\ pauseRequested' = pauseRequested
  BY <1>2, <1>8
<1>12. /\ \A x, y \in Participants : x \in known'[y] => x \in known[y]
       /\ \A x, y \in Participants : x \in known[y] /\ phase[x] # "Off" => x \in known'[y]
       /\ \A x \in Participants :
            phase'[x] = phase[x] \/ (phase'[x] = "Ready" /\ phase[x] = "Barrier")
  BY <1>11
<1>13. step[p] # "task" /\ phase[p] # "Off" /\ pauseRequested' = pauseRequested
  BY <1>2
<1>14. \A x \in Participants : x \in known[p] /\ phase[x] # "Off" => x \in kn
  BY <1>11
<1> QED BY <1>5, <1>9, <1>10, <1>12, <1>13, <1>14, ProcessKept

LEMMA ReceiveNextKept ==
  ASSUME GroupInv, NEW p \in Participants, NEW q \in Participants, ReceiveNextSimTask(p, q)
  PROVE  Kept
<1>1. /\ chan \in ChanType /\ jobs \in JobsType /\ other \in ViewType
      /\ known \in [Participants -> SUBSET Participants]
      /\ chan[q][p] \in Seq(Message)
  BY GroupTyping
<1>2. PICK kind : kind = "Next"
  OBVIOUS
<1>3. /\ Receives(p, q, kind) /\ chan[q][p] # <<>> /\ step[p] # "task" /\ phase[p] # "Off"
      /\ UNCHANGED <<phase, pauseRequested, known>>
  BY <1>2 DEF ReceiveNextSimTask, Receives, IoThreadIsFree, lifecycleVars
<1>4. Head(chan[q][p]).task \in Task
  <2>1. Head(chan[q][p]) \in Message
    BY <1>1, <1>3
  <2> QED BY <2>1 DEF Message
<1>5. other' = [other EXCEPT ![p][q] =
                 IF phase[p] # "None" /\ q \in known[p] THEN Head(chan[q][p]).task ELSE @]
  BY DEF ReceiveNextSimTask
<1>6. other' \in ViewType
  BY <1>1, <1>4, <1>5 DEF ViewType
<1>7. PICK view \in ViewType : view = other'
  BY <1>6
<1>8. /\ \A x, y \in Participants : x # p \/ y # q => view[x][y] = other[x][y]
      /\ view[p][q] = other[p][q] \/ (kind = "Next" /\ view[p][q] = Head(chan[q][p]).task)
  BY <1>1, <1>2, <1>5, <1>7 DEF ViewType
<1>9. /\ Taken(p, q) \in ChanType
      /\ ChronologyOf(Taken(p, q), view, Floors)
      /\ SteadyOf(Taken(p, q), view, dur)
      /\ \A x, y \in Participants : Hushes(chan[x][y], Taken(p, q)[x][y])
  BY <1>3, <1>8, TakeGroup
<1>10. PICK ch \in ChanType : ch = Taken(p, q)
  BY <1>9
<1>11. PICK js \in JobsType : js = jobs
  BY <1>1
<1>12. PICK kn \in SUBSET Participants : kn = known[p]
  BY <1>1
<1>13. ProcessSimulationTimeUpdate(p, kn, view[p], ch, js)
  BY <1>7, <1>10, <1>11, <1>12 DEF ReceiveNextSimTask
<1>14. /\ ChronologyOf(ch, view, Floors) /\ SteadyOf(ch, view, dur) /\ other' = view
       /\ \A x, y \in Participants : Hushes(chan[x][y], ch[x][y])
  BY <1>7, <1>9, <1>10
<1>15. /\ \A x \in Participants : x \in known[p] /\ phase[x] # "Off" => x \in kn
       /\ known' = known /\ phase' = phase /\ pauseRequested' = pauseRequested
       /\ \A x \in Participants : ~Urges(jobs[x]) => ~Urges(js[x])
  BY <1>3, <1>11, <1>12
<1> QED BY <1>3, <1>13, <1>14, <1>15, ProcessKept

LEMMA PeerShutdownKept ==
  ASSUME Together, GroupInv, NEW p \in Participants, NEW q \in Participants,
         NEW kind \in {"Bye", "Lost"}, OnPeerShutdown(p, q, kind)
  PROVE  Kept
<1>1. /\ chan \in ChanType /\ jobs \in JobsType /\ other \in ViewType
      /\ known \in [Participants -> SUBSET Participants]
      /\ phase \in [Participants -> Phases] /\ Introduced
      /\ chan[q][p] \in Seq(Message)
  BY GroupTyping
<1>2. /\ Receives(p, q, kind) /\ chan[q][p] # <<>> /\ step[p] # "task" /\ phase[p] # "Off"
      /\ pauseRequested' = pauseRequested
      /\ known' = [known EXCEPT ![p] = @ \ {q}]
      /\ other' = [other EXCEPT ![p][q] = NoTask]
  BY DEF OnPeerShutdown, Receives, IoThreadIsFree
<1>3. phase[q] = "Off"
  <2>1. Says(chan[q][p], kind)
    BY <1>1, <1>2, TakenGrows
  <2> QED BY <1>1, <2>1 DEF Introduced
<1>4. /\ \A x, y \in Participants : x \in known'[y] => x \in known[y]
      /\ \A x, y \in Participants : x \in known[y] /\ phase[x] # "Off" => x \in known'[y]
  BY <1>1, <1>2, <1>3
<1>5. \A x \in Participants :
        phase'[x] = phase[x] \/ (phase'[x] = "Ready" /\ phase[x] = "Barrier")
  BY <1>1 DEF OnPeerShutdown, BarrierWithout, Together
<1>6. other' \in ViewType
  BY <1>1, <1>2, Messages DEF ViewType
<1>7. PICK view \in ViewType : view = other'
  BY <1>6
<1>8. /\ \A x, y \in Participants : x # p \/ y # q => view[x][y] = other[x][y]
      /\ view[p][q] = NoTask
  BY <1>1, <1>2, <1>7 DEF ViewType
<1>9. /\ Taken(p, q) \in ChanType
      /\ ChronologyOf(Taken(p, q), view, Floors)
      /\ SteadyOf(Taken(p, q), view, dur)
      /\ \A x, y \in Participants : Hushes(chan[x][y], Taken(p, q)[x][y])
  BY <1>2, <1>8, TakeGroup
<1>10. CASE q \in known[p]
  <2>1. PICK ch \in ChanType : ch = Taken(p, q)
    BY <1>9
  <2>2. PICK js \in JobsType : js = jobs
    BY <1>1
  <2>3. known'[p] \in SUBSET Participants
    BY <1>1, <1>2
  <2>4. PICK kn \in SUBSET Participants : kn = known'[p]
    BY <2>3
  <2>5. ProcessSimulationTimeUpdate(p, kn, view[p], ch, js)
    BY <1>7, <1>10, <2>1, <2>2, <2>4 DEF OnPeerShutdown
  <2>6. /\ ChronologyOf(ch, view, Floors) /\ SteadyOf(ch, view, dur) /\ other' = view
        /\ \A x, y \in Participants : Hushes(chan[x][y], ch[x][y])
    BY <1>7, <1>9, <2>1
  <2>7. /\ \A x \in Participants : x \in known[p] /\ phase[x] # "Off" => x \in kn
        /\ \A x \in Participants : ~Urges(jobs[x]) => ~Urges(js[x])
    BY <1>4, <2>2, <2>4
  <2>8. step[p] # "task" /\ phase[p] # "Off" /\ pauseRequested' = pauseRequested
    BY <1>2
  <2>9. /\ \A x, y \in Participants : x \in known'[y] => x \in known[y]
        /\ \A x, y \in Participants : x \in known[y] /\ phase[x] # "Off" => x \in known'[y]
        /\ \A x \in Participants :
             phase'[x] = phase[x] \/ (phase'[x] = "Ready" /\ phase[x] = "Barrier")
    BY <1>4, <1>5
  <2>10. \A x \in Participants : ~Urges(jobs[x]) => ~Urges(js[x])
    BY <2>7
  <2>11. \A x \in Participants : x \in known[p] /\ phase[x] # "Off" => x \in kn
    BY <2>7
  <2> QED BY <2>5, <2>6, <2>8, <2>9, <2>10, <2>11, ProcessKept, ZenonT(30)
<1>11. CASE q \notin known[p]
  <2>1. /\ chan' = Taken(p, q)
        /\ UNCHANGED <<jobs, cur, next, dur, hoppedOn, step, lastSent, pauseRequested>>
    BY <1>2, <1>11 DEF OnPeerShutdown, timeVars
  <2>2. /\ \A x, y \in Participants : Hushes(chan[x][y], chan'[x][y])
        /\ ChronologyOf(chan', other', Floors) /\ SteadyOf(chan', other', dur)
        /\ \A x \in Participants : ~Urges(jobs[x]) => ~Urges(jobs'[x])
    BY <1>7, <1>9, <2>1
  <2>3. \A x \in Participants :
          \/ phase'[x] = phase[x]
          \/ phase'[x] \in {"Barrier", "Ready"} /\ phase[x] \in {"Created", "Barrier"}
    BY <1>5
  <2> QED BY <1>4, <2>1, <2>2, <2>3, SignalKept
<1> QED BY <1>10, <1>11

-----------------------------------------------------------------------------
(* The end of a participant. *)

LEMMA DisconnectKept ==
  ASSUME GroupInv, NEW p \in Participants, phase[p] # "Off", NEW kind \in {"Bye", "Lost"},
         NEW kept \in [Participants -> Nat],
         \A q \in Participants : kept[q] <= Len(chan[p][q]),
         Disconnect(p, kind, kept)
  PROVE  Kept
<1>1. /\ chan \in ChanType /\ jobs \in JobsType /\ other \in ViewType /\ Floors \in [Participants -> Nat]
      /\ phase \in [Participants -> Phases] /\ Hails /\ Assembled /\ Announced
      /\ ChronologyOf(chan, other, Floors) /\ SteadyOf(chan, other, dur)
      /\ \A x \in Participants : Calm(x)
      /\ \A x, y \in Participants : chan[x][y] \in Seq(Message)
  BY GroupTyping
<1>2. /\ UNCHANGED <<cur, next, dur, hoppedOn, step, lastSent, pauseRequested, known, other>>
      /\ phase' = [phase EXCEPT ![p] = "Off"] /\ jobs' = [jobs EXCEPT ![p] = <<>>]
  BY DEF Disconnect, timeVars, viewVars
<1>3. \A x \in Participants : phase'[x] = IF x = p THEN "Off" ELSE phase[x]
  BY <1>1, <1>2
<1>4. PICK m : m = Signal(kind)
  OBVIOUS
<1>5. m \in Message /\ m.kind \notin {"Next", "Created"} /\ kind \in Kinds \ {"Next"}
  <2>1. kind \in Kinds \ {"Next", "Created"}
    BY DEF Kinds
  <2> QED BY <1>4, <2>1, Messages
<1>6. \A x, y \in Participants :
        \/ chan'[x][y] = <<>>
        \/ x = p /\ chan'[x][y] = Append(SubSeq(chan[x][y], 1, kept[y]), m)
        \/ chan'[x][y] = chan[x][y]
  BY <1>4 DEF Disconnect
<1>7. \A y \in Participants : kept[y] \in 0..Len(chan[p][y])
  BY <1>1
<1>8. ASSUME NEW y \in Participants
      PROVE  /\ Hushes(chan[p][y], Append(SubSeq(chan[p][y], 1, kept[y]), m))
             /\ SteadyQueue(Append(SubSeq(chan[p][y], 1, kept[y]), m), dur[p])
  <2>1. PICK s \in Seq(Message) : s = chan[p][y]
    BY <1>1
  <2>2. PICK k \in 0..Len(s) : k = kept[y]
    BY <1>7, <2>1
  <2>3. SteadyQueue(s, dur[p])
    BY <1>1, <2>1 DEF SteadyOf
  <2>4. PICK t : t = SubSeq(s, 1, k)
    OBVIOUS
  <2>5. Hushes(s, t) /\ t \in Seq(Message)
    BY <2>4, PrefixHushes
  <2>6. SteadyQueue(t, dur[p])
    BY <2>3, <2>4, PrefixSteady
  <2>7. Hushes(t, Append(t, m))
    BY <1>5, <2>5, AppendHushes
  <2>8. SteadyQueue(Append(t, m), dur[p])
    BY <1>5, <2>5, <2>6, AppendSteady
  <2>9. Hushes(s, Append(t, m))
    BY <2>5, <2>7, HushesTransitive
  <2> QED BY <2>1, <2>2, <2>4, <2>8, <2>9
<1>9. \A x, y \in Participants : Hushes(chan[x][y], chan'[x][y])
  BY <1>6, <1>8, HushesTransitive, EmptyHushes
<1>10. SteadyOf(chan', other', dur')
  <2>1. \A d : SteadyQueue(<<>>, d)
    BY DEF SteadyQueue
  <2>2. ASSUME NEW x \in Participants, NEW y \in Participants
        PROVE  SteadyQueue(chan'[x][y], dur[x])
    <3>1. SteadyQueue(chan[x][y], dur[x])
      BY <1>1 DEF SteadyOf
    <3>2. x = p => SteadyQueue(Append(SubSeq(chan[x][y], 1, kept[y]), m), dur[x])
      BY <1>8
    <3> QED BY <1>6, <2>1, <3>1, <3>2
  <2> QED BY <1>1, <1>2, <2>2 DEF SteadyOf
<1>11. ChronologyOf(chan', other', Floors')
  <2>1. PICK nx \in [Participants -> Nat] : nx = Floors
    BY <1>1
  <2>2. ChronologyOf(chan, other, nx)
    BY <1>1, <2>1
  <2>3. ChronologyOf(chan', other, nx)
    BY <1>1, <1>5, <2>2, DisconnectQueues
  <2>4. Floors' = Floors
    BY <1>2 DEF Floors, Floor
  <2> QED BY <1>2, <2>1, <2>3, <2>4
<1>12. Announced'
  <2>1. \A x, y \in Participants : cur[x] = -1 /\ phase[x] # "Off" => next[y] <= dur[y]
    BY <1>1 DEF Announced
  <2>2. \A x, y \in Participants : cur'[x] = -1 /\ phase'[x] # "Off" => next'[y] <= dur'[y]
    BY <1>2, <1>3, <2>1
  <2> QED BY <1>10, <1>11, <2>2 DEF Announced, ChronologyOf, SteadyOf
<1>13. Hails'
  <2>1. \A x \in Participants : phase'[x] = "None" => phase[x] = "None"
    BY <1>3
  <2> QED BY <1>1, <1>2, <1>9, <2>1, HailsStep
<1>14. Assembled'
  <2>1. /\ \A x \in Participants :
             phase'[x] \in {"None", "Created", "Barrier"} =>
               phase[x] \in {"None", "Created", "Barrier"}
        /\ \A x \in Participants : phase[x] = "Off" => phase'[x] = "Off"
    BY <1>3
  <2>2. CASE \E r \in Participants : Begun(r)
    BY <1>1, <1>2, <1>9, <2>1, <2>2, AssembledStep
  <2>3. CASE \A r \in Participants : ~Begun(r)
    <3>1. \A r \in Participants : ~Begun(r)'
      BY <1>2, <1>3, <2>3 DEF Begun
    <3> QED BY <3>1 DEF Assembled
  <2> QED BY <2>2, <2>3
<1>15. ASSUME NEW x \in Participants PROVE Calm(x)'
  <2>1. Calm(x)
    BY <1>1
  <2>2. jobs'[x] = jobs[x] \/ jobs'[x] = <<>>
    BY <1>1, <1>2 DEF JobsType
  <2>3. ~Urges(<<>>)
    BY DEF Urges
  <2>4. phase'[x] \in {"None", "Created", "Barrier", "Ready"} =>
          phase[x] \in {"None", "Created", "Barrier", "Ready"}
    BY <1>3
  <2> QED BY <1>2, <2>1, <2>2, <2>3, <2>4 DEF Calm
<1>16. Sim
  <2>1. {x \in Participants : phase'[x] = "Off"} = {x \in Participants : phase[x] = "Off"} \cup {p}
    BY <1>3
  <2>2. Conservative!Quit(p)
    BY <1>2, <2>1 DEF Conservative!Quit, Floor
  <2> QED BY <2>2 DEF Sim, Conservative!CNext
<1> QED BY <1>12, <1>13, <1>14, <1>15, <1>16 DEF Kept

LEMMA EndKept ==
  ASSUME GroupInv, NEW p \in Participants, Leave(p) \/ Crash(p)
  PROVE  Kept
<1>1. \A q \in Participants : chan[p][q] \in Seq(Message)
  BY GroupTyping
<1>2. Everything(p) \in [Participants -> Nat]
      /\ \A q \in Participants : Everything(p)[q] = Len(chan[p][q]) /\ Len(chan[p][q]) \in Nat
  BY <1>1 DEF Everything
<1>3. CASE Leave(p)
  <2>1. PICK kind \in {"Bye", "Lost"} : Disconnect(p, kind, Everything(p))
    BY <1>3 DEF Leave
  <2>2. phase[p] # "Off"
    BY <1>3 DEF Leave
  <2>3. PICK kept \in [Participants -> Nat] : kept = Everything(p)
    BY <1>2
  <2>4. Disconnect(p, kind, kept) /\ \A q \in Participants : kept[q] <= Len(chan[p][q])
    BY <1>2, <2>1, <2>3
  <2> QED BY <2>2, <2>4, DisconnectKept
<1>4. CASE Crash(p)
  <2>1. PICK lossy \in SUBSET Participants :
          Disconnect(p, IF phase[p] \in {"None", "Stopped"} THEN "Bye" ELSE "Lost",
                     [q \in Participants |-> IF q \in lossy THEN 0 ELSE Everything(p)[q]])
    BY <1>4 DEF Crash
  <2>2. PICK kind \in {"Bye", "Lost"} :
          kind = IF phase[p] \in {"None", "Stopped"} THEN "Bye" ELSE "Lost"
    OBVIOUS
  <2>3. [q \in Participants |-> IF q \in lossy THEN 0 ELSE Everything(p)[q]] \in [Participants -> Nat]
    BY <1>2
  <2>4. PICK kept \in [Participants -> Nat] :
          kept = [q \in Participants |-> IF q \in lossy THEN 0 ELSE Everything(p)[q]]
    BY <2>3
  <2>5. Disconnect(p, kind, kept)
    BY <2>1, <2>2, <2>4
  <2>6. \A q \in Participants : kept[q] <= Len(chan[p][q])
    BY <1>2, <2>4
  <2>7. phase[p] # "Off"
    BY <1>4 DEF Crash
  <2> QED BY <2>5, <2>6, <2>7, DisconnectKept
<1> QED BY <1>3, <1>4

-----------------------------------------------------------------------------
(* The group as a whole. *)

LEMMA GroupInit == Together /\ Init => GroupInv
<1> SUFFICES ASSUME Together, Init PROVE GroupInv
  OBVIOUS
<1>1. Inv /\ Introduced
  BY InitInv, IntroducedInit
<1>2. \A x, y \in Participants : chan[x][y] = <<>> /\ other[x][y] = NoTask
  BY DEF Init
<1>3. \A k : ~Says(<<>>, k)
  BY DEF Says
<1>4. HailsOnce(<<>>) /\ ~Urges(<<>>) /\ \A d : SteadyQueue(<<>>, d)
  BY DEF HailsOnce, Urges, SteadyQueue
<1>5. Hails
  BY <1>2, <1>3, <1>4 DEF Hails, Init
<1>6. Assembled
  BY DEF Assembled, Begun, Init
<1>7. \A p \in Participants : Calm(p)
  BY <1>4 DEF Calm, Init
<1>8. Floors = next
  BY DEF Floors, Floor, Init
<1>9. Announced
  <2>1. ChronologyOf(chan, other, Floors)
    BY <1>1, <1>8 DEF Inv
  <2>2. SteadyOf(chan, other, dur)
    BY <1>2, <1>4 DEF SteadyOf, NoTask
  <2>3. dur \in [Participants -> Nat \ {0}]
    BY <1>1, Typing
  <2>4. \A p, q \in Participants : next[q] <= dur[q]
    BY <2>3 DEF Init
  <2> QED BY <2>1, <2>2, <2>4 DEF Announced
<1> QED BY <1>1, <1>5, <1>6, <1>7, <1>9 DEF GroupInv

LEMMA GroupStep ==
  ASSUME Together, GroupInv, [Next]_vars
  PROVE  GroupInv' /\ Sim
<1>1. Inv' /\ Introduced'
  BY NextInv, IntroducedNext DEF GroupInv
<1>2. ASSUME NEW p \in Participants, IoThread(p) PROVE Kept
  BY <1>2, LocalKept, RequestsKept, StartKept, CallKept, ProcessJobKept DEF IoThread
<1>3. ASSUME NEW p \in Participants, User(p) PROVE Kept
  BY <1>3, LocalKept, RequestsKept, HailKept, NoSetPeriod, EndKept DEF User
<1>4. ASSUME NEW p \in Participants, NEW q \in Participants, Receive(p, q) PROVE Kept
  <2>1. PICK bye : bye = "Bye"
    OBVIOUS
  <2>2. PICK lost : lost = "Lost"
    OBVIOUS
  <2>3. \/ ReceiveServiceCreated(p, q) \/ ReceiveNextSimTask(p, q)
        \/ ReceiveCall(p, q) \/ ReceiveCallReturn(p, q) \/ ReceiveAbortSimulation(p, q)
        \/ OnPeerShutdown(p, q, bye) \/ OnPeerShutdown(p, q, lost)
    BY <1>4, <2>1, <2>2 DEF Receive, ReceiveDisconnect, ReceiveConnectionLost
  <2>4. bye \in {"Bye", "Lost"} /\ lost \in {"Bye", "Lost"}
    BY <2>1, <2>2
  <2> QED BY <2>3, <2>4, DiscoveryKept, ReceiveNextKept, ReceivesKept, PeerShutdownKept
<1>5. CASE UNCHANGED vars
  <2>1. /\ UNCHANGED <<phase, stopRequested, pauseRequested, waiting, sysError, jobs, chan>>
        /\ UNCHANGED <<cur, next, dur, hoppedOn, step, lastSent, known, other, pauses>>
    BY <1>5 DEF vars, lifecycleVars, timeVars, viewVars
  <2>2. Floors' = Floors
    BY <2>1 DEF Floors, Floor
  <2>3. Hails /\ Assembled /\ Announced /\ \A x \in Participants : Calm(x)
    BY GroupTyping
  <2>4. Hails'
    BY <2>1, <2>3 DEF Hails
  <2>5. Assembled'
    BY <2>1, <2>3 DEF Assembled, Begun
  <2>6. \A x \in Participants : Calm(x)'
    BY <2>1, <2>3 DEF Calm
  <2>7. Announced'
    BY <2>1, <2>2, <2>3 DEF Announced
  <2>8. UNCHANGED Conservative!cvars
    BY <2>1 DEF Conservative!cvars, Floor
  <2> QED BY <1>1, <2>4, <2>5, <2>6, <2>7, <2>8 DEF GroupInv, Sim
<1>6. Kept => GroupInv' /\ Sim
  BY <1>1 DEF Kept, GroupInv
<1> QED BY <1>2, <1>3, <1>4, <1>5, <1>6 DEF Next

(* Participants that start together keep the promise of ConservativeTime,   *)
(* however many they are and whatever is delayed, paused, stopped, lost or  *)
(* crashed: every call of a simulation step handler is a Begin, which takes *)
(* place at a time before which nobody can still act, every return from it  *)
(* or CompleteSimulationStep an End, every lost or closed connection a      *)
(* Quit, and everything else the SynchronizedPolicy does is invisible.      *)
THEOREM GroupKeepsConservativeTime ==
  ASSUME Together PROVE Spec => ImplementsConservativeTime
<1>1. Init => Conservative!CInit
  BY DEF Init, Conservative!CInit, Floor
<1>2. Init => GroupInv
  BY GroupInit
<1>3. GroupInv /\ [Next]_vars => GroupInv' /\ [Conservative!CNext]_(Conservative!cvars)
  BY GroupStep DEF Sim
<1> QED BY <1>1, <1>2, <1>3, PTL DEF Spec, ImplementsConservativeTime, Conservative!CSpec

-----------------------------------------------------------------------------
(* A late joiner.  At most one participant is autonomous, step sizes are   *)
(* fixed, and nobody is paused, stopped or lost: what JoinsAtAdvancedTime  *)
(* needs.  Aborts, and the ends that follow them, remain.                  *)
OneJoins ==
  /\ \A x, y \in Participants \ Coordinated : x = y
  /\ \A p \in Participants : \A d, e \in StepSizes[p] : d = e
  /\ Pausers = {} /\ Stoppers = {} /\ Crashers = {}

Present(p) == phase[p] # "Off"
Fresh(p) == cur[p] = -1 /\ ~hoppedOn[p]
Outside == \A x \in Participants \ Coordinated : cur[x] = -1

(* p has asked all for a reply. *)
Called(p) == phase[p] \in {"Barrier", "Ready", "Running", "Paused"} \/ waiting[p] # {}

Calls == {"Pause", "Continue", "Request", "Stop", "Error"}

Orderly(p) ==
  /\ \A i \in 1..Len(jobs[p]) : jobs[p][i] \notin Calls
  /\ ~pauseRequested[p] /\ ~stopRequested[p]
  /\ phase[p] \in {"Ready", "Running", "Paused"} => waiting[p] = {}
  /\ phase[p] \in {"Running", "Paused"} \/ hoppedOn[p] \/ cur[p] >= 0 => lastSent[p] >= 0
  /\ cur[p] >= 0 => next[p] = cur[p] + dur[p]
  /\ hoppedOn[p] => next[p] > 0
  /\ dur[p] \in StepSizes[p]

(* Nobody knows who has not started. *)
Unseen ==
  \A x, y \in Participants : phase[x] = "None" => x \notin known[y] /\ ~Says(chan[x][y], "Created")

(* When one coordinated participant runs, all of them are known to all. *)
Gathered ==
  (\E g \in Coordinated : lastSent[g] >= 0) =>
    \A x \in Coordinated, y \in Participants :
      x # y /\ Present(x) /\ Present(y) => x \in known[y]

(* Before the latecomer executes a step nobody hops on or is aborted, and  *)
(* the others keep pace.                                                   *)
Peace ==
  Outside =>
    /\ \A p \in Participants :
         /\ ~hoppedOn[p] /\ phase[p] \notin {"Stopped", "Error", "Off"}
         /\ \A i \in 1..Len(jobs[p]) : jobs[p][i] # "Abort"
         /\ \A q \in Participants : ~Says(chan[p][q], "Abort")
    /\ \A q, r \in Coordinated : cur[q] <= next[r]

(* A coordinated participant that has not executed a step keeps the others *)
(* from executing their second one.                                        *)
Waits ==
  \A p \in Coordinated : Present(p) /\ Fresh(p) =>
    \A r \in Coordinated :
      /\ cur[r] <= 0
      /\ hoppedOn[r] =>
           /\ cur[r] = -1
           /\ \A x \in Participants \ Coordinated : Present(x) => cur[x] <= next[r]

(* Who has hopped on in vain has done so to a time nobody has passed. *)
Hopped ==
  \A p \in Coordinated : hoppedOn[p] /\ cur[p] = -1 /\ Present(p) =>
    \A q \in Participants : Present(q) => cur[q] <= next[p]

(* What is announced before the first step. *)
HoversIn(s, v) == \A i \in 1..Len(s) : s[i].kind = "Next" => s[i].task.tp \in {0, v}
Hovers ==
  \A r, y \in Participants : cur[r] = -1 =>
    other[y][r].tp \in {-1, 0, next[r]} /\ HoversIn(chan[r][y], next[r])

(* The time v is known, or will be before the reply to a call. *)
Told(s, o, v) ==
  \/ o = v
  \/ \E i \in 1..Len(s) : /\ s[i].kind = "Next" /\ s[i].task.tp = v
                          /\ \A j \in 1..(i - 1) : s[j].kind # "Reply"

Tells ==
  \A p, q \in Participants :
    p # q /\ Present(p) /\ Present(q) /\ Fresh(p) /\ cur[q] > 0 =>
      /\ p \in known[q] => Told(chan[q][p], other[p][q].tp, next[q])
      /\ Called(p) /\ q \notin waiting[p] => other[p][q].tp = next[q]

JoinInv ==
  /\ \A p \in Participants : Orderly(p)
  /\ Unseen /\ Gathered /\ Peace /\ Waits /\ Hopped /\ Hovers /\ Tells
  /\ SteadyOf(chan, other, dur)

-----------------------------------------------------------------------------
(* What a step does. *)

(* What x sends in a step. *)
Mail(x) ==
  {m \in Message :
     /\ m.kind = "Next" => m.task.tp = next'[x] /\ m.task.dur = dur[x]
     /\ m.kind = "Abort" => hoppedOn'[x] /\ ~hoppedOn[x]
     /\ m.kind = "Created" => phase[x] = "None" /\ phase'[x] # "None"}

Posted(x, s, t) ==
  /\ t \in Seq(Message) /\ Len(s) <= Len(t)
  /\ \A i \in 1..Len(s) : t[i] = s[i]
  /\ \A i \in (Len(s) + 1)..Len(t) : t[i] \in Mail(x)

Rests(x, y) == Posted(x, chan[x][y], chan'[x][y]) /\ other'[y][x] = other[y][x]

Takes(x, y) ==
  /\ chan[x][y] # <<>> /\ Posted(x, Tail(chan[x][y]), chan'[x][y])
  /\ \/ other'[y][x] \in {other[y][x], NoTask}
     \/ Head(chan[x][y]).kind = "Next" /\ other'[y][x] = Head(chan[x][y]).task
  /\ x \in known[y] /\ phase[y] # "None" /\ Head(chan[x][y]).kind \notin {"Bye", "Lost"} =>
       other'[y][x] = IF Head(chan[x][y]).kind = "Next"
                      THEN Head(chan[x][y]).task ELSE other[y][x]

Drops(x, y) == chan'[x][y] = <<>> /\ phase'[y] = "Off" /\ other'[y][x] = other[y][x]

First(x, y, kinds) == chan[x][y] # <<>> /\ Head(chan[x][y]).kind \in kinds

Meets(x, y) ==
  \/ x \in known'[y] <=> x \in known[y]
  \/ /\ x \in known'[y] /\ First(x, y, {"Created"}) /\ UNCHANGED <<cur, next>>
     /\ cur[y] >= 0 /\ x # y /\ Present(x) =>
          chan'[y][x] = Append(chan[y][x], NextSimTask(next[y], dur[y]))
  \/ x \notin known'[y] /\ First(x, y, {"Bye", "Lost"})

(* p is aborted. *)
Struck(p) ==
  \/ \E i \in 1..Len(jobs[p]) : jobs[p][i] = "Abort"
  \/ \E q \in Participants : Says(chan[q][p], "Abort")

Worked(p, s, t) ==
  \A i \in 1..Len(t) :
    \/ t[i] \in {"Process", "Complete"}
    \/ \E j \in 1..Len(s) : t[i] = s[j]
    \/ t[i] = "Abort" /\ ((hoppedOn'[p] /\ ~hoppedOn[p]) \/ Struck(p))

Lives(p) ==
  \/ phase'[p] = phase[p]
  \/ phase[p] = "None" /\ phase'[p] = "Created"
  \/ /\ phase[p] = "Created" /\ phase'[p] \in {"Barrier", "Ready"} /\ waiting'[p] = Peers(p)
     /\ phase'[p] = "Ready" => waiting'[p] = {}
  \/ waiting[p] # {} /\ waiting'[p] = {} /\ phase'[p] = "Ready" /\ Present(p)
  \/ /\ phase[p] = "Ready" /\ phase'[p] = "Running" /\ lastSent'[p] >= 0
     /\ p \in Coordinated => \A q \in Coordinated : phase[q] = "Ready" \/ lastSent[q] >= 0
  \/ phase'[p] = "Stopped" /\ Struck(p) /\ Present(p)
  \/ phase'[p] = "Off" /\ phase[p] \in {"Stopped", "Error"}

Expects(p) ==
  \/ waiting'[p] = waiting[p]
  \/ \E q \in Participants :
       First(q, p, {"Reply", "Bye", "Lost"}) /\ waiting'[p] = waiting[p] \ {q}
  \/ phase[p] = "Created" /\ phase'[p] \in {"Barrier", "Ready"} /\ waiting'[p] = Peers(p)

Speaks(p) == lastSent'[p] = lastSent[p] \/ (lastSent'[p] >= 0 /\ phase'[p] = "Running")

(* The step of the simulation that r executes, or does not for lack of the *)
(* permission to hop on.                                                   *)
Ahead(r) == AlreadyAdvanced(known'[r], other'[r])

Regular(r) ==
  /\ hoppedOn' = hoppedOn
  /\ cur' = [cur EXCEPT ![r] = next[r]] /\ next' = [next EXCEPT ![r] = next[r] + dur[r]]
  /\ Fresh(r) => Ahead(r) = {}

Hops(r, t) ==
  /\ Fresh(r) /\ hoppedOn' = [hoppedOn EXCEPT ![r] = TRUE]
  /\ \E q \in Ahead(r) : t = other'[r][q].tp
  /\ \A q \in Ahead(r) : t <= other'[r][q].tp
  /\ IF r \in Coordinated
     THEN cur' = cur /\ next' = [next EXCEPT ![r] = t]
     ELSE cur' = [cur EXCEPT ![r] = t] /\ next' = [next EXCEPT ![r] = t + dur[r]]

Turn(r) ==
  /\ phase[r] = "Running" /\ \A q \in known'[r] : next[r] <= other'[r][q].tp
  /\ Regular(r) \/ \E t : Hops(r, t)

Frame ==
  /\ \A x, y \in Participants : Rests(x, y) \/ Takes(x, y) \/ Drops(x, y)
  /\ \A x, y \in Participants : Meets(x, y)
  /\ \A p \in Participants :
       Lives(p) /\ Expects(p) /\ Speaks(p) /\ Worked(p, jobs[p], jobs'[p])
  /\ UNCHANGED <<dur, stopRequested, pauseRequested>>
  /\ UNCHANGED <<cur, next, hoppedOn>> \/ \E r \in Participants : Turn(r)

-----------------------------------------------------------------------------
(* Queues. *)

LEMMA PostedSelf ==
  ASSUME NEW x, NEW s \in Seq(Message)
  PROVE  Posted(x, s, s)
BY DEF Posted

LEMMA PostedAppend ==
  ASSUME NEW x, NEW s \in Seq(Message), NEW m \in Mail(x)
  PROVE  Posted(x, s, Append(s, m))
<1>1. m \in Message
  BY DEF Mail
<1> DEFINE t == Append(s, m)
<1>2. /\ Len(s) \in Nat /\ Len(t) = Len(s) + 1 /\ t[Len(s) + 1] = m /\ t \in Seq(Message)
      /\ \A i \in 1..Len(s) : t[i] = s[i]
  BY <1>1
<1> HIDE DEF t
<1> QED BY <1>2 DEF Posted, t

LEMMA PostedTransitive ==
  ASSUME NEW x, NEW s \in Seq(Message), NEW t \in Seq(Message), NEW u \in Seq(Message),
         Posted(x, s, t), Posted(x, t, u)
  PROVE  Posted(x, s, u)
<1>1. /\ Len(s) \in Nat /\ Len(t) \in Nat /\ Len(u) \in Nat
      /\ Len(s) <= Len(t) /\ Len(t) <= Len(u)
  BY DEF Posted
<1>2. ASSUME NEW i \in 1..Len(s) PROVE u[i] = s[i]
  <2>1. i \in 1..Len(t)
    BY <1>1
  <2> QED BY <2>1 DEF Posted
<1>3. ASSUME NEW i \in (Len(s) + 1)..Len(u) PROVE u[i] \in Mail(x)
  <2>1. (i \in 1..Len(t) /\ i \in (Len(s) + 1)..Len(t)) \/ i \in (Len(t) + 1)..Len(u)
    BY <1>1
  <2> QED BY <2>1 DEF Posted
<1> QED BY <1>1, <1>2, <1>3 DEF Posted

(* What is in a queue afterwards. *)
LEMMA PostedHas ==
  ASSUME NEW x, NEW s \in Seq(Message), NEW t \in Seq(Message), Posted(x, s, t),
         NEW i \in 1..Len(t)
  PROVE  (\E j \in 1..Len(s) : t[i] = s[j]) \/ t[i] \in Mail(x)
<1>1. Len(s) \in Nat /\ Len(t) \in Nat
  OBVIOUS
<1>2. i \in 1..Len(s) \/ i \in (Len(s) + 1)..Len(t)
  BY <1>1
<1> QED BY <1>2 DEF Posted

LEMMA TailHas ==
  ASSUME NEW s \in Seq(Message), s # <<>>
  PROVE  /\ Tail(s) \in Seq(Message)
         /\ \A i \in 1..Len(Tail(s)) : \E j \in 1..Len(s) : Tail(s)[i] = s[j]
         /\ 1 \in 1..Len(s) /\ Head(s) = s[1]
<1>1. /\ Len(s) \in Nat /\ Len(s) > 0 /\ Len(Tail(s)) = Len(s) - 1 /\ Head(s) = s[1]
      /\ Tail(s) \in Seq(Message)
      /\ \A i \in 1..Len(Tail(s)) : Tail(s)[i] = s[i + 1] /\ i + 1 \in 1..Len(s)
  OBVIOUS
<1> QED BY <1>1

LEMMA PostedTold ==
  ASSUME NEW x, NEW s \in Seq(Message), NEW t \in Seq(Message), Posted(x, s, t), NEW o, NEW v,
         Told(s, o, v)
  PROVE  Told(t, o, v)
<1>1. CASE o = v
  BY <1>1 DEF Told
<1>2. CASE o # v
  <2>1. PICK i \in 1..Len(s) : /\ s[i].kind = "Next" /\ s[i].task.tp = v
                               /\ \A j \in 1..(i - 1) : s[j].kind # "Reply"
    BY <1>2 DEF Told
  <2>2. /\ i \in 1..Len(t) /\ t[i] = s[i]
        /\ \A j \in 1..(i - 1) : j \in 1..Len(s) /\ t[j] = s[j]
    BY DEF Posted
  <2> QED BY <2>1, <2>2 DEF Told
<1> QED BY <1>1, <1>2

LEMMA TailTold ==
  ASSUME NEW s \in Seq(Message), s # <<>>, NEW o, NEW v, Told(s, o, v)
  PROVE  /\ Head(s).kind = "Reply" => o = v
         /\ o = v \/ (Head(s).kind = "Next" /\ Head(s).task.tp = v) \/ Told(Tail(s), o, v)
<1>1. CASE o = v
  BY <1>1
<1>2. CASE o # v
  <2>1. PICK i \in 1..Len(s) : /\ s[i].kind = "Next" /\ s[i].task.tp = v
                               /\ \A j \in 1..(i - 1) : s[j].kind # "Reply"
    BY <1>2 DEF Told
  <2> DEFINE t == Tail(s)
  <2>2. /\ Len(s) \in Nat /\ Len(s) > 0 /\ Len(t) = Len(s) - 1 /\ Head(s) = s[1]
        /\ \A k \in 1..Len(t) : t[k] = s[k + 1]
    OBVIOUS
  <2> HIDE DEF t
  <2>3. CASE i = 1
    BY <2>1, <2>2, <2>3
  <2>4. CASE i # 1
    <3>1. 1 \in 1..(i - 1) /\ i - 1 \in 1..Len(t)
      BY <2>2, <2>4
    <3>2. t[i - 1] = s[i]
      BY <2>2, <3>1
    <3>3. ASSUME NEW j \in 1..((i - 1) - 1) PROVE t[j].kind # "Reply"
      <4>1. j \in 1..Len(t) /\ j + 1 \in 1..(i - 1)
        BY <2>2, <3>1
      <4> QED BY <2>1, <2>2, <4>1
    <3>4. Told(t, o, v)
      BY <2>1, <3>1, <3>2, <3>3 DEF Told
    <3> QED BY <2>1, <2>2, <3>1, <3>4 DEF t
  <2> QED BY <2>3, <2>4
<1> QED BY <1>1, <1>2

-----------------------------------------------------------------------------
(* The parts of a step. *)

LEMMA MailKinds ==
  ASSUME NEW x \in Participants
  PROVE  /\ \A k \in {"Call", "Reply", "Bye", "Lost"} : Signal(k) \in Mail(x)
         /\ hoppedOn'[x] /\ ~hoppedOn[x] => Signal("Abort") \in Mail(x)
         /\ phase[x] = "None" /\ phase'[x] # "None" => Signal("Created") \in Mail(x)
         /\ next'[x] \in Nat /\ dur[x] \in Nat => NextSimTask(next'[x], dur[x]) \in Mail(x)
<1>1. \A k \in Kinds : Signal(k) \in Message /\ Signal(k).kind = k
  BY Messages
<1>2. ASSUME next'[x] \in Nat, dur[x] \in Nat PROVE NextSimTask(next'[x], dur[x]) \in Mail(x)
  <2>1. PICK m : m = NextSimTask(next'[x], dur[x])
    OBVIOUS
  <2>2. m \in Message /\ m.kind = "Next" /\ m.task.tp = next'[x] /\ m.task.dur = dur[x]
    BY <1>2, <2>1, Messages DEF NextSimTask
  <2> QED BY <2>1, <2>2 DEF Mail
<1>3. \A k \in {"Call", "Reply", "Bye", "Lost"} : Signal(k) \in Mail(x)
  BY <1>1 DEF Mail, Kinds
<1>4. hoppedOn'[x] /\ ~hoppedOn[x] => Signal("Abort") \in Mail(x)
  BY <1>1 DEF Mail, Kinds
<1>5. phase[x] = "None" /\ phase'[x] # "None" => Signal("Created") \in Mail(x)
  BY <1>1 DEF Mail, Kinds
<1> QED BY <1>2, <1>3, <1>4, <1>5

LEMMA BroadcastPosts ==
  ASSUME NEW ch \in ChanType, NEW p \in Participants, NEW m \in Mail(p)
  PROVE  /\ Broadcast(ch, p, m) \in ChanType
         /\ \A x, y \in Participants : Posted(x, ch[x][y], Broadcast(ch, p, m)[x][y])
<1>1. m \in Message
  BY DEF Mail
<1>2. PICK b : b = Broadcast(ch, p, m)
  OBVIOUS
<1>3. /\ b \in ChanType
      /\ \A q, r \in Participants : b[q][r] = ch[q][r] \/ (q = p /\ b[q][r] = Append(ch[p][r], m))
  BY <1>1, <1>2, BroadcastQueues
<1>4. ASSUME NEW x \in Participants, NEW y \in Participants PROVE Posted(x, ch[x][y], b[x][y])
  <2>1. ch[x][y] \in Seq(Message) /\ ch[p][y] \in Seq(Message)
    BY DEF ChanType
  <2>2. Posted(x, ch[x][y], ch[x][y]) /\ Posted(p, ch[p][y], Append(ch[p][y], m))
    BY <2>1, PostedSelf, PostedAppend
  <2> QED BY <1>3, <2>2
<1> QED BY <1>2, <1>3, <1>4

LEMMA WorkedSelf ==
  ASSUME NEW p, NEW s
  PROVE  Worked(p, s, s)
BY DEF Worked

LEMMA WorkedTransitive ==
  ASSUME NEW p, NEW s, NEW t, NEW u, Worked(p, s, t), Worked(p, t, u)
  PROVE  Worked(p, s, u)
BY DEF Worked

LEMMA WorkedAppend ==
  ASSUME NEW p, NEW s \in Seq(Jobs), NEW j \in Jobs,
         \/ j \in {"Process", "Complete"}
         \/ j = "Abort" /\ ((hoppedOn'[p] /\ ~hoppedOn[p]) \/ Struck(p))
  PROVE  Worked(p, s, Append(s, j))
<1> DEFINE t == Append(s, j)
<1>1. /\ Len(s) \in Nat /\ Len(t) = Len(s) + 1 /\ t[Len(s) + 1] = j
      /\ \A i \in 1..Len(s) : t[i] = s[i]
  OBVIOUS
<1>2. \A i \in 1..Len(t) : i \in 1..Len(s) \/ i = Len(s) + 1
  BY <1>1
<1> HIDE DEF t
<1> QED BY <1>1, <1>2 DEF Worked, t

LEMMA WorkedTail ==
  ASSUME NEW p, NEW s \in Seq(Jobs), s # <<>>
  PROVE  Worked(p, s, Tail(s))
<1> DEFINE t == Tail(s)
<1>1. \A i \in 1..Len(t) : i + 1 \in 1..Len(s) /\ t[i] = s[i + 1]
  OBVIOUS
<1> HIDE DEF t
<1> QED BY <1>1 DEF Worked, t

(* Posting a job, and taking one. *)
LEMMA PostWorked ==
  ASSUME NEW js \in JobsType, NEW p \in Participants, NEW j \in Jobs,
         \/ j \in {"Process", "Complete"}
         \/ j = "Abort" /\ ((hoppedOn'[p] /\ ~hoppedOn[p]) \/ Struck(p))
  PROVE  Post(js, p, j) \in JobsType /\ \A x \in Participants : Worked(x, js[x], Post(js, p, j)[x])
<1>1. \A x \in Participants : js[x] \in Seq(Jobs)
  BY DEF JobsType
<1>2. \A x \in Participants : Post(js, p, j)[x] = IF x = p THEN Append(js[p], j) ELSE js[x]
  BY DEF Post, JobsType
<1>3. Worked(p, js[p], Append(js[p], j))
  BY <1>1, WorkedAppend
<1>4. Post(js, p, j) \in JobsType
  BY PostType
<1> QED BY <1>2, <1>3, <1>4, WorkedSelf

LEMMA RestWorked ==
  ASSUME jobs \in JobsType, NEW p \in Participants, jobs[p] # <<>>
  PROVE  Rest(p) \in JobsType /\ \A x \in Participants : Worked(x, jobs[x], Rest(p)[x])
<1>1. \A x \in Participants : jobs[x] \in Seq(Jobs)
  BY DEF JobsType
<1>2. \A x \in Participants : Rest(p)[x] = IF x = p THEN Tail(jobs[p]) ELSE jobs[x]
  BY DEF Rest, JobsType
<1>3. Worked(p, jobs[p], Tail(jobs[p])) /\ Tail(jobs[p]) \in Seq(Jobs)
  BY <1>1, WorkedTail
<1>4. Rest(p) \in JobsType
  BY <1>1, <1>3 DEF Rest, JobsType
<1> QED BY <1>2, <1>3, <1>4, WorkedSelf

LEMMA RequestFrame ==
  ASSUME TimeTypes, NEW ch \in ChanType, NEW js \in JobsType, NEW p \in Participants,
         NEW nx \in Nat, nx = next'[p], NEW ph, RequestNextStep(p, ch, js, nx, ph)
  PROVE  /\ \A x, y \in Participants : Posted(x, ch[x][y], chan'[x][y])
         /\ \A x \in Participants : Worked(x, js[x], jobs'[x])
         /\ \A x \in Participants :
              \/ lastSent'[x] = lastSent[x]
              \/ x = p /\ lastSent'[x] >= 0 /\ ph = "Running"
<1>1. dur[p] \in Nat /\ lastSent \in [Participants -> Nat \cup {-1}]
  BY DEF TimeTypes
<1>2. PICK m : m = NextSimTask(nx, dur[p])
  OBVIOUS
<1>3. m \in Mail(p)
  BY <1>1, <1>2, MailKinds
<1>4. PICK b : b = Broadcast(ch, p, m)
  OBVIOUS
<1>5. \A x, y \in Participants : Posted(x, ch[x][y], b[x][y]) /\ Posted(x, ch[x][y], ch[x][y])
  <2>1. \A x, y \in Participants : ch[x][y] \in Seq(Message)
    BY DEF ChanType
  <2> QED BY <1>3, <1>4, <2>1, BroadcastPosts, PostedSelf
<1>6. chan' = ch \/ chan' = b
  BY <1>2, <1>4 DEF RequestNextStep
<1>7. \A x, y \in Participants : Posted(x, ch[x][y], chan'[x][y])
  BY <1>5, <1>6
<1>8. \A x \in Participants : Worked(x, js[x], jobs'[x])
  <2>1. jobs' = js \/ jobs' = Post(js, p, "Process")
    BY DEF RequestNextStep
  <2> QED BY <2>1, PostWorked, WorkedSelf DEF Jobs
<1>9. \A x \in Participants :
        lastSent'[x] = lastSent[x] \/ (x = p /\ lastSent'[x] >= 0 /\ ph = "Running")
  BY <1>1 DEF RequestNextStep
<1> QED BY <1>7, <1>8, <1>9

(* What an update of the time of p does: nothing, or a turn. *)
LEMMA ProcessFrame ==
  ASSUME TimeTypes, OwnTime, NEW ch \in ChanType, NEW js \in JobsType, NEW p \in Participants,
         known'[p] \in SUBSET Participants, other'[p] \in [Participants -> Task],
         ProcessSimulationTimeUpdate(p, known'[p], other'[p], ch, js)
  PROVE  /\ \A x, y \in Participants : Posted(x, ch[x][y], chan'[x][y])
         /\ \A x \in Participants : Worked(x, js[x], jobs'[x])
         /\ \A x \in Participants :
              \/ lastSent'[x] = lastSent[x]
              \/ lastSent'[x] >= 0 /\ phase[x] = "Running"
         /\ dur' = dur
         /\ UNCHANGED <<cur, next, hoppedOn>> \/ Turn(p)
<1>1. PICK kn, oth : kn = known'[p] /\ oth = other'[p]
  OBVIOUS
<1>2. dur' = dur
  BY DEF ProcessSimulationTimeUpdate
<1>3. \A x, y \in Participants : ch[x][y] \in Seq(Message)
  BY DEF ChanType
<1>4. \A x, y \in Participants : Posted(x, ch[x][y], ch[x][y])
  BY <1>3, PostedSelf
<1>5. CASE ~(IsTimeAdvancePossible(p, kn, oth) /\ ~IsExecutingSimStep(p))
  <2>1. chan' = ch /\ jobs' = js /\ UNCHANGED <<cur, next, hoppedOn, lastSent>>
    BY <1>1, <1>5 DEF ProcessSimulationTimeUpdate
  <2> QED BY <1>2, <1>4, <2>1, WorkedSelf
<1>6. CASE IsTimeAdvancePossible(p, kn, oth) /\ ~IsExecutingSimStep(p)
  <2>1. PICK hop \in BOOLEAN : hop = HandleHopOn(p, kn, oth)
    BY DEF HandleHopOn
  <2>2. PICK t : /\ IsStepTime(p, kn, oth, t)
                 /\ IF hop /\ p \in Coordinated
                    THEN AbortHopOnForCoordinatedParticipants(p, t, ch, js)
                    ELSE AdvanceTimeStep(p, t, ch, js)
    BY <1>1, <1>6, <2>1 DEF ProcessSimulationTimeUpdate
  <2>3. hoppedOn' = [hoppedOn EXCEPT ![p] = @ \/ hop]
    BY <1>1, <1>6, <2>1 DEF ProcessSimulationTimeUpdate
  <2>4. /\ t \in Nat /\ next[p] <= t
        /\ hoppedOn \in [Participants -> BOOLEAN] /\ next \in [Participants -> Nat]
    <3>1. IsStepTime(p, kn, oth, t) /\ kn \in SUBSET Participants /\ oth \in [Participants -> Task]
      BY <1>1, <2>2
    <3> QED BY <3>1, StepTime DEF TimeTypes
  <2>5. phase[p] = "Running" /\ \A q \in known'[p] : next[p] <= other'[p][q].tp
    <3>1. phase[p] = "Running" /\ \A q \in kn : ~(oth[q].tp < next[p])
      BY <1>6 DEF IsTimeAdvancePossible, MayAdvance, OtherParticipantHasLowerTimepoint
    <3>2. ASSUME NEW q \in kn PROVE next[p] <= oth[q].tp
      <4>1. oth[q] \in Task
        BY <1>1
      <4> QED BY <2>4, <3>1, <4>1 DEF Task
    <3> QED BY <1>1, <3>1, <3>2
  <2>6. Ahead(p) = AlreadyAdvanced(kn, oth)
    BY <1>1 DEF Ahead
  <2>7. CASE ~hop
    <3>1. t = next[p] /\ (Fresh(p) => Ahead(p) = {})
      BY <2>1, <2>2, <2>6, <2>7 DEF IsStepTime, HandleHopOn, Fresh
    <3>2. /\ chan' = ch /\ jobs' = js /\ lastSent' = lastSent
          /\ cur' = [cur EXCEPT ![p] = t] /\ next' = [next EXCEPT ![p] = t + dur[p]]
      BY <2>2, <2>7 DEF AdvanceTimeStep
    <3>3. hoppedOn' = hoppedOn
      BY <2>3, <2>4, <2>7
    <3>4. Regular(p)
      BY <3>1, <3>2, <3>3 DEF Regular
    <3>5. Turn(p)
      BY <2>5, <3>4 DEF Turn
    <3> QED BY <1>2, <1>4, <3>2, <3>5, WorkedSelf
  <2>8. CASE hop
    <3>1. /\ Fresh(p) /\ \E q \in Ahead(p) : t = other'[p][q].tp
          /\ \A q \in Ahead(p) : t <= other'[p][q].tp
      BY <1>1, <2>1, <2>2, <2>6, <2>8 DEF IsStepTime, HandleHopOn, Fresh
    <3>2. hoppedOn' = [hoppedOn EXCEPT ![p] = TRUE] /\ hoppedOn'[p] /\ ~hoppedOn[p]
      BY <2>3, <2>4, <2>8, <3>1 DEF Fresh
    <3>3. CASE p \notin Coordinated
      <4>1. /\ chan' = ch /\ jobs' = js /\ lastSent' = lastSent
            /\ cur' = [cur EXCEPT ![p] = t] /\ next' = [next EXCEPT ![p] = t + dur[p]]
        BY <2>2, <3>3 DEF AdvanceTimeStep
      <4>2. Hops(p, t)
        BY <3>1, <3>2, <3>3, <4>1 DEF Hops
      <4>3. Turn(p)
        BY <2>5, <4>2 DEF Turn
      <4> QED BY <1>2, <1>4, <4>1, <4>3, WorkedSelf
    <3>4. CASE p \in Coordinated
      <4>1. PICK m : m = Signal("Abort")
        OBVIOUS
      <4>2. PICK chA : chA = Broadcast(ch, p, m)
        OBVIOUS
      <4>3. PICK jsA : jsA = Post(js, p, "Abort")
        OBVIOUS
      <4>4. chA \in ChanType /\ \A x, y \in Participants : Posted(x, ch[x][y], chA[x][y])
        BY <3>2, <4>1, <4>2, MailKinds, BroadcastPosts
      <4>5. jsA \in JobsType /\ \A x \in Participants : Worked(x, js[x], jsA[x])
        BY <3>2, <4>3, PostWorked DEF Jobs
      <4>6. AbortHopOnForCoordinatedParticipants(p, t, ch, js)
        BY <2>2, <2>8, <3>4
      <4>7. /\ cur' = cur /\ next' = [next EXCEPT ![p] = t] /\ next'[p] = t
            /\ \/ RequestNextStep(p, chA, jsA, t, "Running")
               \/ chan' = chA /\ jobs' = jsA /\ lastSent' = lastSent
        BY <2>4, <4>1, <4>2, <4>3, <4>6 DEF AbortHopOnForCoordinatedParticipants
      <4>8. Turn(p)
        BY <2>5, <3>1, <3>2, <3>4, <4>7 DEF Turn, Hops
      <4>9. CASE chan' = chA /\ jobs' = jsA /\ lastSent' = lastSent
        BY <1>2, <4>4, <4>5, <4>8, <4>9
      <4>10. CASE RequestNextStep(p, chA, jsA, t, "Running")
        <5>1. PICK ph : ph = "Running"
          OBVIOUS
        <5>2. RequestNextStep(p, chA, jsA, t, ph)
          BY <4>10, <5>1
        <5>3. /\ \A x, y \in Participants : Posted(x, chA[x][y], chan'[x][y])
              /\ \A x \in Participants : Worked(x, jsA[x], jobs'[x])
              /\ \A x \in Participants :
                   \/ lastSent'[x] = lastSent[x]
                   \/ x = p /\ lastSent'[x] >= 0 /\ ph = "Running"
          BY <2>4, <4>4, <4>5, <4>7, <5>2, RequestFrame
        <5>4. \A x, y \in Participants : Posted(x, ch[x][y], chan'[x][y])
          <6>1. ASSUME NEW x \in Participants, NEW y \in Participants
                PROVE  Posted(x, ch[x][y], chan'[x][y])
            <7>1. ch[x][y] \in Seq(Message) /\ chA[x][y] \in Seq(Message)
              BY <1>3, <4>4 DEF ChanType
            <7>2. Posted(x, ch[x][y], chA[x][y]) /\ Posted(x, chA[x][y], chan'[x][y])
              BY <4>4, <5>3
            <7>3. chan'[x][y] \in Seq(Message)
              BY <7>2 DEF Posted
            <7> QED BY <7>1, <7>2, <7>3, PostedTransitive
          <6> QED BY <6>1
        <5>5. \A x \in Participants : Worked(x, js[x], jobs'[x])
          BY <4>5, <5>3, WorkedTransitive
        <5> QED BY <1>2, <2>5, <4>8, <5>3, <5>4, <5>5
      <4> QED BY <4>7, <4>9, <4>10
    <3> QED BY <3>3, <3>4
  <2> QED BY <2>7, <2>8
<1> QED BY <1>5, <1>6

(* A message is taken, and others are sent. *)
LEMMA TakenFrame ==
  ASSUME chan \in ChanType, NEW p \in Participants, NEW q \in Participants, NEW kind,
         Receives(p, q, kind),
         \A x, y \in Participants : Posted(x, Taken(p, q)[x][y], chan'[x][y]),
         \A x, y \in Participants : x # q \/ y # p => other'[y][x] = other[y][x],
         other'[p][q] \in {other[p][q], NoTask} \/
           (kind = "Next" /\ other'[p][q] = Head(chan[q][p]).task),
         q \in known[p] /\ phase[p] # "None" /\ kind \notin {"Bye", "Lost"} =>
           other'[p][q] = IF kind = "Next" THEN Head(chan[q][p]).task ELSE other[p][q]
  PROVE  \A x, y \in Participants : Rests(x, y) \/ Takes(x, y) \/ Drops(x, y)
<1>1. /\ chan[q][p] # <<>> /\ Head(chan[q][p]).kind = kind
  BY DEF Receives
<1>2. /\ Taken(p, q)[q][p] = Tail(chan[q][p])
      /\ \A x, y \in Participants : x # q \/ y # p => Taken(p, q)[x][y] = chan[x][y]
  BY TakenGrows
<1>3. Posted(q, Tail(chan[q][p]), chan'[q][p])
  BY <1>2
<1>4. Takes(q, p)
  BY <1>1, <1>3 DEF Takes
<1>5. \A x, y \in Participants : x # q \/ y # p => Rests(x, y)
  BY <1>2 DEF Rests
<1> QED BY <1>4, <1>5

(* Nobody's lifecycle moves but that of p. *)
LEMMA LivesOthers ==
  ASSUME Inv, NEW p \in Participants, NEW x \in Participants \ {p}, NEW v,
         phase' = phase \/ phase' = [phase EXCEPT ![p] = v]
  PROVE  phase'[x] = phase[x] /\ Lives(x)
<1>1. phase'[x] = phase[x]
  BY Typing
<1> QED BY <1>1 DEF Lives

LEMMA NoCalls ==
  ASSUME Inv, NEW p \in Participants, Orderly(p), jobs[p] # <<>>
  PROVE  Head(jobs[p]) \notin Calls
<1>1. jobs[p] \in Seq(Jobs)
  BY Typing DEF JobsType
<1>2. 1 \in 1..Len(jobs[p]) /\ Head(jobs[p]) = jobs[p][1]
  BY <1>1
<1> QED BY <1>2 DEF Orderly

LEMMA AbortStrikes ==
  ASSUME Inv, NEW p \in Participants
  PROVE  /\ jobs[p] # <<>> /\ Head(jobs[p]) = "Abort" => Struck(p)
         /\ \A q \in Participants : Receives(p, q, "Abort") => Struck(p)
<1>1. jobs[p] \in Seq(Jobs) /\ \A q \in Participants : chan[q][p] \in Seq(Message)
  BY Typing DEF JobsType
<1>2. ASSUME jobs[p] # <<>>, Head(jobs[p]) = "Abort" PROVE Struck(p)
  <2>1. 1 \in 1..Len(jobs[p]) /\ Head(jobs[p]) = jobs[p][1]
    BY <1>1, <1>2
  <2> QED BY <1>2, <2>1 DEF Struck
<1>3. ASSUME NEW q \in Participants, Receives(p, q, "Abort") PROVE Struck(p)
  <2>1. Says(chan[q][p], "Abort")
    BY <1>3, Typing, TakenGrows
  <2> QED BY <2>1 DEF Struck
<1> QED BY <1>2, <1>3

(* Steps that change no queue and no time. *)
LEMMA StillFrame ==
  ASSUME Inv, UNCHANGED <<chan, cur, next, dur, hoppedOn, lastSent, known, other, waiting,
                          stopRequested, pauseRequested>>,
         \A x \in Participants : Lives(x) /\ Worked(x, jobs[x], jobs'[x])
  PROVE  Frame
<1>1. \A x, y \in Participants : chan[x][y] \in Seq(Message)
  BY Typing
<1>2. \A x, y \in Participants : Rests(x, y)
  BY <1>1, PostedSelf DEF Rests
<1>3. \A x, y \in Participants : Meets(x, y)
  BY DEF Meets
<1>4. \A x \in Participants : Expects(x) /\ Speaks(x)
  BY DEF Expects, Speaks
<1> QED BY <1>2, <1>3, <1>4 DEF Frame

(* Steps without a message. *)
LEMMA LocalFrame ==
  ASSUME Inv, NEW p \in Participants, Orderly(p),
         AbortJob(p) \/ CompleteSimulationStep(p)
  PROVE  Frame
<1>1. jobs \in JobsType /\ phase \in [Participants -> Phases]
  BY Typing
<1>2. CASE AbortJob(p)
  <2>1. phase' = [phase EXCEPT ![p] = "Stopped"] /\ jobs' = Rest(p) /\ jobs[p] # <<>>
    BY <1>2 DEF AbortJob, NextJob
  <2>2. Struck(p) /\ Present(p)
    BY <1>2, AbortStrikes DEF AbortJob, NextJob, IoThreadIsFree, Present
  <2>3. Lives(p)
    BY <1>1, <2>1, <2>2 DEF Lives
  <2>4. \A x \in Participants : Lives(x)
    BY <2>1, <2>3, LivesOthers
  <2>5. \A x \in Participants : Worked(x, jobs[x], jobs'[x])
    BY <1>1, <2>1, RestWorked
  <2>6. UNCHANGED <<chan, cur, next, dur, hoppedOn, lastSent, known, other, waiting,
                    stopRequested, pauseRequested>>
    BY <1>2 DEF AbortJob, timeVars, viewVars
  <2> QED BY <2>4, <2>5, <2>6, StillFrame
<1>3. CASE CompleteSimulationStep(p)
  <2>1. jobs' = Post(jobs, p, "Complete") /\ phase' = phase
    BY <1>3 DEF CompleteSimulationStep, lifecycleVars
  <2>2. \A x \in Participants : Worked(x, jobs[x], jobs'[x])
    BY <1>1, <2>1, PostWorked DEF Jobs
  <2>3. \A x \in Participants : Lives(x)
    BY <2>1 DEF Lives
  <2>4. UNCHANGED <<chan, cur, next, dur, hoppedOn, lastSent, known, other, waiting,
                    stopRequested, pauseRequested>>
    BY <1>3 DEF CompleteSimulationStep, lifecycleVars, viewVars
  <2> QED BY <2>2, <2>3, <2>4, StillFrame
<1> QED BY <1>2, <1>3

(* Steps that send to all. *)
LEMMA SendFrame ==
  ASSUME Inv, UNCHANGED <<jobs, cur, next, dur, hoppedOn, lastSent, known, other,
                          stopRequested, pauseRequested>>,
         NEW p \in Participants, NEW m \in Mail(p), chan' = Broadcast(chan, p, m),
         \A x \in Participants : Lives(x) /\ Expects(x)
  PROVE  Frame
<1>1. chan \in ChanType
  BY Typing
<1>2. \A x, y \in Participants : Rests(x, y)
  BY <1>1, BroadcastPosts DEF Rests
<1>3. \A x, y \in Participants : Meets(x, y)
  BY DEF Meets
<1>4. \A x \in Participants : Speaks(x) /\ Worked(x, jobs[x], jobs'[x])
  BY WorkedSelf DEF Speaks
<1> QED BY <1>2, <1>3, <1>4 DEF Frame

LEMMA HailFrame ==
  ASSUME Inv, NEW p \in Participants,
         StartLifecycle(p) \/ CallAfterAllParticipantsReplied(p)
  PROVE  Frame
<1>1. /\ phase \in [Participants -> Phases]
      /\ waiting \in [Participants -> SUBSET Participants]
  BY Typing
<1>2. CASE StartLifecycle(p)
  <2>1. /\ phase[p] = "None" /\ phase' = [phase EXCEPT ![p] = "Created"]
        /\ chan' = Broadcast(chan, p, Signal("Created")) /\ waiting' = waiting
    BY <1>2 DEF StartLifecycle
  <2>2. Signal("Created") \in Mail(p)
    BY <1>1, <2>1, MailKinds
  <2>3. Lives(p)
    BY <1>1, <2>1 DEF Lives
  <2>4. \A x \in Participants : Lives(x) /\ Expects(x)
    BY <2>1, <2>3, LivesOthers DEF Expects
  <2>5. UNCHANGED <<jobs, cur, next, dur, hoppedOn, lastSent, known, other,
                    stopRequested, pauseRequested>>
    BY <1>2 DEF StartLifecycle, timeVars, viewVars
  <2> QED BY <2>1, <2>2, <2>4, <2>5, SendFrame
<1>3. CASE CallAfterAllParticipantsReplied(p)
  <2>1. PICK v : v = IF Peers(p) = {} THEN "Ready" ELSE "Barrier"
    OBVIOUS
  <2>2. /\ phase[p] = "Created" /\ phase' = [phase EXCEPT ![p] = v]
        /\ waiting' = [waiting EXCEPT ![p] = Peers(p)]
        /\ chan' = Broadcast(chan, p, Signal("Call"))
    BY <1>3, <2>1 DEF CallAfterAllParticipantsReplied
  <2>3. Signal("Call") \in Mail(p)
    BY MailKinds
  <2>4. /\ phase'[p] = v /\ waiting'[p] = Peers(p)
        /\ \A x \in Participants \ {p} : waiting'[x] = waiting[x]
    BY <1>1, <2>2
  <2>5. Lives(p) /\ Expects(p)
    BY <2>1, <2>2, <2>4 DEF Lives, Expects
  <2>6. \A x \in Participants : Lives(x) /\ Expects(x)
    BY <2>2, <2>4, <2>5, LivesOthers DEF Expects
  <2>7. UNCHANGED <<jobs, cur, next, dur, hoppedOn, lastSent, known, other,
                    stopRequested, pauseRequested>>
    BY <1>3 DEF CallAfterAllParticipantsReplied, timeVars, viewVars
  <2> QED BY <2>2, <2>3, <2>6, <2>7, SendFrame
<1> QED BY <1>2, <1>3

(* Steps that request the next step. *)
LEMMA AnnounceFrame ==
  ASSUME Inv, NEW p \in Participants, NEW js \in JobsType, NEW ph,
         RequestNextStep(p, chan, js, next[p], ph), ph = "Running" => phase'[p] = "Running",
         \A x \in Participants : Worked(x, jobs[x], js[x]),
         \A x \in Participants : Lives(x),
         UNCHANGED <<cur, next, dur, hoppedOn, known, other, waiting,
                     stopRequested, pauseRequested>>
  PROVE  Frame
<1>1. /\ TimeTypes /\ chan \in ChanType /\ next[p] \in Nat
      /\ lastSent \in [Participants -> Nat \cup {-1}]
  BY Typing
<1>2. /\ \A x, y \in Participants : Posted(x, chan[x][y], chan'[x][y])
      /\ \A x \in Participants : Worked(x, js[x], jobs'[x])
      /\ \A x \in Participants :
           lastSent'[x] = lastSent[x] \/ (x = p /\ lastSent'[x] >= 0 /\ ph = "Running")
  BY <1>1, RequestFrame
<1>3. \A x, y \in Participants : Rests(x, y)
  BY <1>2 DEF Rests
<1>4. \A x, y \in Participants : Meets(x, y)
  BY DEF Meets
<1>5. \A x \in Participants : Expects(x) /\ Speaks(x)
  BY <1>2 DEF Expects, Speaks
<1>6. \A x \in Participants : Worked(x, jobs[x], jobs'[x])
  BY <1>2, WorkedTransitive
<1> QED BY <1>3, <1>4, <1>5, <1>6 DEF Frame

LEMMA RequestsFrame ==
  ASSUME Inv, NEW p \in Participants, Orderly(p),
         StartTime(p) \/ ReturnFromTask(p) \/ CompleteJob(p)
  PROVE  Frame
<1>1. /\ phase \in [Participants -> Phases] /\ jobs \in JobsType /\ next[p] \in Nat
      /\ lastSent \in [Participants -> Nat \cup {-1}]
      /\ ~stopRequested[p] /\ ~pauseRequested[p]
  BY Typing DEF Orderly
<1>2. CASE StartTime(p)
  <2>1. /\ phase[p] = "Ready" /\ phase' = [phase EXCEPT ![p] = "Running"]
        /\ p \in Coordinated => \A q \in Coordinated : phase[q] = "Ready" \/ lastSent[q] >= 0
        /\ RequestNextStep(p, chan, jobs, next[p], "Running")
        /\ UNCHANGED <<cur, next, dur, hoppedOn, known, other, waiting,
                       stopRequested, pauseRequested>>
    BY <1>2 DEF StartTime, viewVars
  <2>2. lastSent' = [lastSent EXCEPT ![p] = next[p]]
    BY <1>1, <2>1 DEF RequestNextStep
  <2>3. lastSent'[p] >= 0 /\ phase'[p] = "Running"
    BY <1>1, <2>1, <2>2
  <2>4. Lives(p)
    BY <2>1, <2>3 DEF Lives
  <2>5. \A x \in Participants : Lives(x)
    BY <2>1, <2>4, LivesOthers
  <2> QED BY <1>1, <2>1, <2>3, <2>5, WorkedSelf, AnnounceFrame
<1>3. CASE ReturnFromTask(p)
  <2>1. /\ phase' = phase /\ RequestNextStep(p, chan, jobs, next[p], phase[p])
        /\ UNCHANGED <<cur, next, dur, hoppedOn, known, other, waiting,
                       stopRequested, pauseRequested>>
    BY <1>3 DEF ReturnFromTask, viewVars, lifecycleVars
  <2>2. \A x \in Participants : Lives(x)
    BY <2>1 DEF Lives
  <2> QED BY <1>1, <2>1, <2>2, WorkedSelf, AnnounceFrame
<1>4. CASE CompleteJob(p)
  <2>1. /\ phase' = phase /\ RequestNextStep(p, chan, Rest(p), next[p], phase[p])
        /\ UNCHANGED <<cur, next, dur, hoppedOn, known, other, waiting,
                       stopRequested, pauseRequested>>
        /\ jobs[p] # <<>>
    BY <1>4 DEF CompleteJob, NextJob, viewVars, lifecycleVars
  <2>2. \A x \in Participants : Lives(x)
    BY <2>1 DEF Lives
  <2>3. Rest(p) \in JobsType /\ \A x \in Participants : Worked(x, jobs[x], Rest(p)[x])
    BY <1>1, <2>1, RestWorked
  <2> QED BY <1>1, <2>1, <2>2, <2>3, AnnounceFrame
<1> QED BY <1>2, <1>3, <1>4

LEMMA ProcessJobFrame ==
  ASSUME Inv, NEW p \in Participants, ProcessJob(p)
  PROVE  Frame
<1>1. /\ TimeTypes /\ OwnTime /\ chan \in ChanType /\ jobs \in JobsType /\ other \in ViewType
      /\ known \in [Participants -> SUBSET Participants]
  BY Typing
<1>2. /\ ProcessSimulationTimeUpdate(p, known[p], other[p], chan, Rest(p)) /\ jobs[p] # <<>>
      /\ known' = known /\ other' = other /\ phase' = phase /\ waiting' = waiting
      /\ UNCHANGED <<stopRequested, pauseRequested>>
  BY DEF ProcessJob, NextJob, viewVars, lifecycleVars
<1>3. Rest(p) \in JobsType /\ \A x \in Participants : Worked(x, jobs[x], Rest(p)[x])
  BY <1>1, <1>2, RestWorked
<1>4. known'[p] \in SUBSET Participants /\ other'[p] \in [Participants -> Task]
  BY <1>1, <1>2 DEF ViewType
<1>5. ProcessSimulationTimeUpdate(p, known'[p], other'[p], chan, Rest(p))
  BY <1>2
<1>6. /\ \A x, y \in Participants : Posted(x, chan[x][y], chan'[x][y])
      /\ \A x \in Participants : Worked(x, Rest(p)[x], jobs'[x])
      /\ \A x \in Participants :
           lastSent'[x] = lastSent[x] \/ (lastSent'[x] >= 0 /\ phase[x] = "Running")
      /\ dur' = dur
      /\ UNCHANGED <<cur, next, hoppedOn>> \/ Turn(p)
  BY <1>1, <1>3, <1>4, <1>5, ProcessFrame
<1>7. \A x, y \in Participants : Rests(x, y) /\ Meets(x, y)
  BY <1>2, <1>6 DEF Rests, Meets
<1>8. \A x \in Participants : Lives(x) /\ Expects(x) /\ Speaks(x)
  BY <1>2, <1>6 DEF Lives, Expects, Speaks
<1>9. \A x \in Participants : Worked(x, jobs[x], jobs'[x])
  BY <1>3, <1>6, WorkedTransitive
<1> QED BY <1>2, <1>6, <1>7, <1>8, <1>9 DEF Frame

(* Messages that do not concern the time. *)
LEMMA SignalFrame ==
  ASSUME Inv, NEW p \in Participants, Orderly(p), NEW q \in Participants,
         ReceiveCall(p, q) \/ ReceiveAbortSimulation(p, q)
  PROVE  Frame
<1>1. /\ chan \in ChanType /\ jobs \in JobsType /\ phase \in [Participants -> Phases]
      /\ \A x, y \in Participants : chan[x][y] \in Seq(Message)
  BY Typing
<1>2. /\ UNCHANGED <<cur, next, dur, hoppedOn, lastSent, known, other, waiting,
                     stopRequested, pauseRequested>>
  BY DEF ReceiveCall, ReceiveAbortSimulation, lifecycleVars, timeVars, viewVars
<1>3. \A x, y \in Participants : Meets(x, y)
  BY <1>2 DEF Meets
<1>4. \A x \in Participants : Expects(x) /\ Speaks(x)
  BY <1>2 DEF Expects, Speaks
<1>5. CASE ReceiveCall(p, q)
  <2>1. /\ Receives(p, q, "Call") /\ jobs' = jobs /\ phase' = phase
        /\ chan' = IF phase[q] = "Off" THEN Taken(p, q)
                   ELSE [Taken(p, q) EXCEPT ![p][q] = Append(@, Signal("Reply"))]
    BY <1>5 DEF ReceiveCall, lifecycleVars
  <2>2. Taken(p, q) \in ChanType
    BY <1>1, <2>1, TakenGrows
  <2>3. PICK ch \in ChanType : ch = Taken(p, q)
    BY <2>2
  <2>4. PICK m \in Mail(p) : m = Signal("Reply")
    BY MailKinds
  <2>5. \A x, y \in Participants :
          chan'[x][y] = ch[x][y] \/ (x = p /\ chan'[x][y] = Append(ch[x][y], m))
    BY <2>1, <2>3, <2>4 DEF ChanType
  <2>6. ASSUME NEW x \in Participants, NEW y \in Participants
        PROVE  Posted(x, ch[x][y], chan'[x][y])
    <3>1. ch[x][y] \in Seq(Message)
      BY <2>3 DEF ChanType
    <3>2. CASE chan'[x][y] = ch[x][y]
      BY <3>1, <3>2, PostedSelf
    <3>3. CASE x = p /\ chan'[x][y] = Append(ch[x][y], m)
      <4>1. m \in Mail(x)
        BY <3>3
      <4>2. Posted(x, ch[x][y], Append(ch[x][y], m))
        BY <3>1, <4>1, PostedAppend
      <4> QED BY <3>3, <4>2
    <3> QED BY <2>5, <3>2, <3>3
  <2>7. \A x, y \in Participants : Rests(x, y) \/ Takes(x, y) \/ Drops(x, y)
    <3>1. PICK kind : kind = "Call"
      OBVIOUS
    <3>2. Receives(p, q, kind)
      BY <2>1, <3>1
    <3>3. \A x, y \in Participants : Posted(x, Taken(p, q)[x][y], chan'[x][y])
      BY <2>3, <2>6
    <3> QED BY <1>1, <1>2, <3>1, <3>2, <3>3, TakenFrame
  <2>8. \A x \in Participants : Lives(x) /\ Worked(x, jobs[x], jobs'[x])
    BY <2>1, WorkedSelf DEF Lives
  <2> QED BY <1>2, <1>3, <1>4, <2>7, <2>8 DEF Frame
<1>6. CASE ReceiveAbortSimulation(p, q)
  <2>1. /\ Receives(p, q, "Abort") /\ chan' = Taken(p, q) /\ Present(p)
        /\ \/ phase[p] = "None" /\ phase' = [phase EXCEPT ![p] = "Stopped"] /\ jobs' = jobs
           \/ jobs' = Post(jobs, p, "Abort") /\ phase' = phase
    BY <1>6 DEF ReceiveAbortSimulation, Receives, IoThreadIsFree, Present
  <2>2. Struck(p)
    BY <2>1, AbortStrikes
  <2>3. Taken(p, q) \in ChanType
    BY <1>1, <2>1, TakenGrows
  <2>4. ASSUME NEW x \in Participants, NEW y \in Participants
        PROVE  Posted(x, Taken(p, q)[x][y], chan'[x][y])
    <3>1. Taken(p, q)[x][y] \in Seq(Message)
      BY <2>3 DEF ChanType
    <3> QED BY <2>1, <3>1, PostedSelf
  <2>5. \A x, y \in Participants : Rests(x, y) \/ Takes(x, y) \/ Drops(x, y)
    <3>1. PICK kind : kind = "Abort"
      OBVIOUS
    <3>2. Receives(p, q, kind)
      BY <2>1, <3>1
    <3> QED BY <1>1, <1>2, <2>4, <3>1, <3>2, TakenFrame
  <2>6. Lives(p)
    BY <1>1, <2>1, <2>2 DEF Lives
  <2>7. \A x \in Participants : Lives(x)
    BY <2>1, <2>6, LivesOthers
  <2>8. \A x \in Participants : Worked(x, jobs[x], jobs'[x])
    BY <1>1, <2>1, <2>2, PostWorked, WorkedSelf DEF Jobs
  <2> QED BY <1>2, <1>3, <1>4, <2>5, <2>7, <2>8 DEF Frame
<1> QED BY <1>5, <1>6

(* One peer less to wait for. *)
LEMMA BarrierFrame ==
  ASSUME Inv, NEW p \in Participants, Orderly(p), NEW q \in Participants, Present(p),
         BarrierWithout(p, q), First(q, p, {"Reply", "Bye", "Lost"})
  PROVE  /\ \A x \in Participants : Lives(x) /\ Expects(x)
         /\ \A x \in Participants : phase[x] = "Running" => phase'[x] = "Running"
<1>1. /\ phase \in [Participants -> Phases]
      /\ waiting \in [Participants -> SUBSET Participants]
  BY Typing
<1>2. /\ waiting' = [waiting EXCEPT ![p] = @ \ {q}] /\ waiting'[p] = waiting[p] \ {q}
      /\ \A x \in Participants \ {p} : waiting'[x] = waiting[x]
  BY <1>1 DEF BarrierWithout
<1>3. \/ phase' = phase
      \/ /\ phase' = [phase EXCEPT ![p] = "Ready"]
         /\ waiting[p] # {} /\ waiting[p] \ {q} = {}
  <2>1. PICK v : v = IF /\ waiting[p] # {} /\ waiting[p] \ {q} = {}
                        /\ phase[p] = "Barrier" \/ p \notin Coordinated
                     THEN "Ready" ELSE phase[p]
    OBVIOUS
  <2>2. phase' = [phase EXCEPT ![p] = v]
    BY <2>1 DEF BarrierWithout
  <2> QED BY <1>1, <2>1, <2>2
<1>4. \A x \in Participants : Expects(x)
  BY <1>2 DEF Expects
<1>5. Lives(p) /\ (phase[p] = "Running" => phase'[p] = "Running")
  BY <1>1, <1>2, <1>3 DEF Lives, Orderly
<1>6. \A x \in Participants : Lives(x)
  BY <1>3, <1>5, LivesOthers
<1>7. \A x \in Participants : phase[x] = "Running" => phase'[x] = "Running"
  BY <1>3, <1>5, LivesOthers
<1> QED BY <1>4, <1>6, <1>7

LEMMA ReplyFrame ==
  ASSUME Inv, NEW p \in Participants, Orderly(p), NEW q \in Participants, ReceiveCallReturn(p, q)
  PROVE  Frame
<1>1. chan \in ChanType
  BY Typing
<1>2. /\ Receives(p, q, "Reply") /\ BarrierWithout(p, q) /\ chan' = Taken(p, q) /\ Present(p)
      /\ UNCHANGED <<cur, next, dur, hoppedOn, lastSent, known, other, jobs,
                     stopRequested, pauseRequested>>
  BY DEF ReceiveCallReturn, timeVars, viewVars, Receives, IoThreadIsFree, Present
<1>3. First(q, p, {"Reply", "Bye", "Lost"})
  BY <1>2 DEF First, Receives
<1>4. \A x \in Participants : Lives(x) /\ Expects(x)
  BY <1>2, <1>3, BarrierFrame
<1>5. \A x, y \in Participants : Meets(x, y)
  BY <1>2 DEF Meets
<1>6. \A x \in Participants : Speaks(x) /\ Worked(x, jobs[x], jobs'[x])
  BY <1>2, WorkedSelf DEF Speaks
<1>7. ASSUME NEW x \in Participants, NEW y \in Participants
      PROVE  Posted(x, Taken(p, q)[x][y], chan'[x][y])
  <2>1. PICK ch \in ChanType : ch = Taken(p, q)
    BY <1>1, <1>2, TakenGrows
  <2>2. ch[x][y] \in Seq(Message)
    BY <2>1 DEF ChanType
  <2> QED BY <1>2, <2>1, <2>2, PostedSelf
<1>8. \A x, y \in Participants : Rests(x, y) \/ Takes(x, y) \/ Drops(x, y)
  <2>1. PICK kind : kind = "Reply"
    OBVIOUS
  <2>2. Receives(p, q, kind)
    BY <1>2, <2>1
  <2> QED BY <1>1, <1>2, <1>7, <2>1, <2>2, TakenFrame
<1> QED BY <1>2, <1>4, <1>5, <1>6, <1>8 DEF Frame

LEMMA ReceiveNextFrame ==
  ASSUME Inv, NEW p \in Participants, NEW q \in Participants, ReceiveNextSimTask(p, q)
  PROVE  Frame
<1>1. /\ TimeTypes /\ OwnTime /\ chan \in ChanType /\ jobs \in JobsType /\ other \in ViewType
      /\ known \in [Participants -> SUBSET Participants] /\ chan[q][p] \in Seq(Message)
  BY Typing
<1>2. PICK task : task = Head(chan[q][p]).task
  OBVIOUS
<1>3. /\ Receives(p, q, "Next")
      /\ other' = [other EXCEPT ![p][q] =
                     IF phase[p] # "None" /\ q \in known[p] THEN task ELSE @]
      /\ ProcessSimulationTimeUpdate(p, known[p], other'[p], Taken(p, q), jobs)
      /\ known' = known /\ phase' = phase /\ waiting' = waiting
      /\ UNCHANGED <<stopRequested, pauseRequested>>
  BY <1>2 DEF ReceiveNextSimTask, lifecycleVars
<1>4. /\ other'[p][q] = IF phase[p] # "None" /\ q \in known[p] THEN task ELSE other[p][q]
      /\ \A x, y \in Participants : x # q \/ y # p => other'[y][x] = other[y][x]
  BY <1>1, <1>3 DEF ViewType
<1>5. task \in Task /\ chan[q][p] # <<>> /\ Head(chan[q][p]).kind = "Next"
  <2>1. chan[q][p] # <<>> /\ Head(chan[q][p]).kind = "Next"
    BY <1>3 DEF Receives
  <2>2. Head(chan[q][p]) \in Message
    BY <1>1, <2>1
  <2> QED BY <1>2, <2>1, <2>2 DEF Message
<1>6. known'[p] \in SUBSET Participants /\ other'[p] \in [Participants -> Task]
  BY <1>1, <1>3, <1>5 DEF ViewType
<1>7. Taken(p, q) \in ChanType
  BY <1>1, <1>3, TakenGrows
<1>8. PICK ch \in ChanType : ch = Taken(p, q)
  BY <1>7
<1>9. ProcessSimulationTimeUpdate(p, known'[p], other'[p], ch, jobs)
  BY <1>3, <1>8
<1>10. /\ \A x, y \in Participants : Posted(x, ch[x][y], chan'[x][y])
       /\ \A x \in Participants : Worked(x, jobs[x], jobs'[x])
       /\ \A x \in Participants :
            lastSent'[x] = lastSent[x] \/ (lastSent'[x] >= 0 /\ phase[x] = "Running")
       /\ dur' = dur
       /\ UNCHANGED <<cur, next, hoppedOn>> \/ Turn(p)
  BY <1>1, <1>6, <1>9, ProcessFrame
<1>11. \A x, y \in Participants : Rests(x, y) \/ Takes(x, y) \/ Drops(x, y)
  <2>1. PICK kind : kind = "Next"
    OBVIOUS
  <2>2. Receives(p, q, kind)
    BY <1>3, <2>1
  <2>3. \A x, y \in Participants : Posted(x, Taken(p, q)[x][y], chan'[x][y])
    BY <1>8, <1>10
  <2>4. /\ other'[p][q] \in {other[p][q], NoTask} \/
             (kind = "Next" /\ other'[p][q] = Head(chan[q][p]).task)
        /\ q \in known[p] /\ phase[p] # "None" /\ kind \notin {"Bye", "Lost"} =>
             other'[p][q] = IF kind = "Next" THEN Head(chan[q][p]).task ELSE other[p][q]
    BY <1>2, <1>4, <2>1
  <2> QED BY <1>1, <1>4, <2>2, <2>3, <2>4, TakenFrame
<1>12. \A x, y \in Participants : Meets(x, y)
  BY <1>3 DEF Meets
<1>13. \A x \in Participants : Lives(x) /\ Expects(x) /\ Speaks(x)
  BY <1>3, <1>10 DEF Lives, Expects, Speaks
<1> QED BY <1>3, <1>10, <1>11, <1>12, <1>13 DEF Frame

LEMMA ShutdownFrame ==
  ASSUME Inv, NEW p \in Participants, Orderly(p), NEW q \in Participants,
         NEW kind \in {"Bye", "Lost"}, OnPeerShutdown(p, q, kind)
  PROVE  Frame
<1>1. /\ TimeTypes /\ OwnTime /\ chan \in ChanType /\ jobs \in JobsType /\ other \in ViewType
      /\ known \in [Participants -> SUBSET Participants]
  BY Typing
<1>2. /\ Receives(p, q, kind) /\ Present(p) /\ BarrierWithout(p, q)
      /\ known' = [known EXCEPT ![p] = @ \ {q}]
      /\ other' = [other EXCEPT ![p][q] = NoTask]
      /\ \/ ProcessSimulationTimeUpdate(p, known'[p], other'[p], Taken(p, q), jobs)
         \/ chan' = Taken(p, q) /\ UNCHANGED <<jobs, cur, next, dur, hoppedOn, lastSent>>
      /\ UNCHANGED <<stopRequested, pauseRequested>>
  BY DEF OnPeerShutdown, timeVars, Receives, IoThreadIsFree, Present
<1>3. /\ other'[p][q] = NoTask
      /\ \A x, y \in Participants : x # q \/ y # p => other'[y][x] = other[y][x]
      /\ known'[p] \in SUBSET Participants
      /\ \A x, y \in Participants : x # q \/ y # p => (x \in known'[y] <=> x \in known[y])
      /\ q \notin known'[p]
  BY <1>1, <1>2 DEF ViewType
<1>4. other'[p] \in [Participants -> Task]
  BY <1>1, <1>2, Messages DEF ViewType
<1>5. First(q, p, {"Reply", "Bye", "Lost"}) /\ First(q, p, {"Bye", "Lost"})
  BY <1>2 DEF First, Receives
<1>6. /\ \A x \in Participants : Lives(x) /\ Expects(x)
      /\ \A x \in Participants : phase[x] = "Running" => phase'[x] = "Running"
  BY <1>2, <1>5, BarrierFrame
<1>7. \A x, y \in Participants : Meets(x, y)
  BY <1>3, <1>5 DEF Meets
<1>8. PICK ch \in ChanType : ch = Taken(p, q)
  BY <1>1, <1>2, TakenGrows
<1>9. /\ \A x, y \in Participants : Posted(x, ch[x][y], chan'[x][y])
      /\ \A x \in Participants : Worked(x, jobs[x], jobs'[x])
      /\ \A x \in Participants :
           lastSent'[x] = lastSent[x] \/ (lastSent'[x] >= 0 /\ phase[x] = "Running")
      /\ dur' = dur
      /\ UNCHANGED <<cur, next, hoppedOn>> \/ Turn(p)
  <2>1. CASE ProcessSimulationTimeUpdate(p, known'[p], other'[p], Taken(p, q), jobs)
    <3>1. ProcessSimulationTimeUpdate(p, known'[p], other'[p], ch, jobs)
      BY <1>8, <2>1
    <3> QED BY <1>1, <1>3, <1>4, <3>1, ProcessFrame
  <2>2. CASE chan' = Taken(p, q) /\ UNCHANGED <<jobs, cur, next, dur, hoppedOn, lastSent>>
    <3>1. \A x, y \in Participants : ch[x][y] \in Seq(Message)
      BY DEF ChanType
    <3> QED BY <1>8, <2>2, <3>1, PostedSelf, WorkedSelf
  <2> QED BY <1>2, <2>1, <2>2
<1>10. \A x, y \in Participants : Rests(x, y) \/ Takes(x, y) \/ Drops(x, y)
  <2>1. \A x, y \in Participants : Posted(x, Taken(p, q)[x][y], chan'[x][y])
    BY <1>8, <1>9
  <2> QED BY <1>1, <1>2, <1>3, <2>1, TakenFrame
<1>11. \A x \in Participants : Speaks(x)
  BY <1>6, <1>9 DEF Speaks
<1> QED BY <1>2, <1>6, <1>7, <1>9, <1>10, <1>11 DEF Frame

LEMMA DiscoveryFrame ==
  ASSUME Inv, NEW p \in Participants, NEW q \in Participants, ReceiveServiceCreated(p, q)
  PROVE  Frame
<1>1. /\ chan \in ChanType /\ other \in ViewType /\ next[p] \in Nat /\ dur[p] \in Nat
      /\ known \in [Participants -> SUBSET Participants]
  BY Typing
<1>2. PICK m : m = NextSimTask(next[p], dur[p])
  OBVIOUS
<1>3. PICK ch : ch = Taken(p, q)
  OBVIOUS
<1>4. /\ Receives(p, q, "Created")
      /\ known' = [known EXCEPT ![p] = @ \cup {q}]
      /\ other' = [other EXCEPT ![p][q] = IF q \in known[p] THEN @ ELSE NoTask]
      /\ chan' = IF cur[p] >= 0 THEN Broadcast(ch, p, m) ELSE ch
      /\ UNCHANGED <<phase, waiting, jobs, cur, next, dur, hoppedOn, lastSent,
                     stopRequested, pauseRequested>>
  BY <1>2, <1>3 DEF ReceiveServiceCreated, lifecycleVars, timeVars
<1>5. m \in Mail(p)
  BY <1>1, <1>2, <1>4, MailKinds
<1>6. /\ ch \in ChanType
      /\ \A x, y \in Participants : x # q \/ y # p => ch[x][y] = chan[x][y]
  BY <1>1, <1>3, <1>4, TakenGrows
<1>7. \A x, y \in Participants : Posted(x, ch[x][y], chan'[x][y])
  <2>1. \A x, y \in Participants : ch[x][y] \in Seq(Message)
    BY <1>6 DEF ChanType
  <2>2. CASE chan' = ch
    BY <2>1, <2>2, PostedSelf
  <2>3. CASE chan' = Broadcast(ch, p, m)
    BY <1>5, <1>6, <2>3, BroadcastPosts
  <2> QED BY <1>4, <2>2, <2>3
<1>8. /\ other'[p][q] = IF q \in known[p] THEN other[p][q] ELSE NoTask
      /\ \A x, y \in Participants : x # q \/ y # p => other'[y][x] = other[y][x]
      /\ \A x, y \in Participants : x # q \/ y # p => (x \in known'[y] <=> x \in known[y])
      /\ q \in known'[p]
  BY <1>1, <1>4 DEF ViewType
<1>9. \A x, y \in Participants : Rests(x, y) \/ Takes(x, y) \/ Drops(x, y)
  <2>1. PICK kind : kind = "Created"
    OBVIOUS
  <2>2. Receives(p, q, kind)
    BY <1>4, <2>1
  <2>3. \A x, y \in Participants : Posted(x, Taken(p, q)[x][y], chan'[x][y])
    BY <1>3, <1>7
  <2>4. /\ other'[p][q] \in {other[p][q], NoTask} \/
             (kind = "Next" /\ other'[p][q] = Head(chan[q][p]).task)
        /\ q \in known[p] /\ phase[p] # "None" /\ kind \notin {"Bye", "Lost"} =>
             other'[p][q] = IF kind = "Next" THEN Head(chan[q][p]).task ELSE other[p][q]
    BY <1>8, <2>1
  <2> QED BY <1>1, <1>8, <2>2, <2>3, <2>4, TakenFrame
<1>10. Meets(q, p)
  <2>1. ASSUME cur[p] >= 0, q # p, Present(q) PROVE chan'[p][q] = Append(chan[p][q], m)
    <3>1. chan' = Broadcast(ch, p, m)
      BY <1>4, <2>1
    <3>2. chan'[p][q] = Append(ch[p][q], m)
      BY <1>6, <2>1, <3>1 DEF Broadcast, ChanType, Present
    <3> QED BY <1>6, <2>1, <3>2
  <2>2. First(q, p, {"Created"})
    BY <1>4 DEF First, Receives
  <2> QED BY <1>2, <1>4, <1>8, <2>1, <2>2 DEF Meets
<1>11. \A x, y \in Participants : Meets(x, y)
  <2>1. \A x, y \in Participants : x # q \/ y # p => Meets(x, y)
    BY <1>8 DEF Meets
  <2> QED BY <1>10, <2>1
<1>12. \A x \in Participants : Lives(x) /\ Expects(x) /\ Speaks(x) /\ Worked(x, jobs[x], jobs'[x])
  BY <1>4, WorkedSelf DEF Lives, Expects, Speaks
<1> QED BY <1>4, <1>9, <1>11, <1>12 DEF Frame

LEMMA LeaveFrame ==
  ASSUME Inv, NEW p \in Participants, Leave(p)
  PROVE  Frame
<1>1. /\ chan \in ChanType /\ jobs \in JobsType /\ phase \in [Participants -> Phases]
      /\ \A x, y \in Participants : chan[x][y] \in Seq(Message)
  BY Typing
<1>2. PICK kind : kind = IF phase[p] = "Error" THEN "Lost" ELSE "Bye"
  OBVIOUS
<1>3. Disconnect(p, kind, Everything(p)) /\ phase[p] \in {"Stopped", "Error"}
  BY <1>2 DEF Leave
<1>4. /\ phase' = [phase EXCEPT ![p] = "Off"] /\ jobs' = [jobs EXCEPT ![p] = <<>>]
      /\ UNCHANGED <<cur, next, dur, hoppedOn, lastSent, known, other, waiting,
                     stopRequested, pauseRequested>>
  BY <1>3 DEF Disconnect, timeVars, viewVars
<1>5. PICK m \in Mail(p) : m = Signal(kind)
  BY <1>2, MailKinds
<1>6. ASSUME NEW x \in Participants, NEW y \in Participants
      PROVE  \/ y = p /\ chan'[x][y] = <<>>
             \/ chan'[x][y] = chan[x][y]
             \/ x = p /\ chan'[x][y] = Append(chan[x][y], m)
  <2>1. chan'[x][y] = IF y = p THEN <<>>
                      ELSE IF x = p /\ phase[y] # "Off"
                           THEN Append(SubSeq(chan[p][y], 1, Everything(p)[y]), m)
                           ELSE chan[x][y]
    BY <1>3, <1>5 DEF Disconnect
  <2>2. SubSeq(chan[p][y], 1, Everything(p)[y]) = chan[p][y]
    <3>1. Everything(p)[y] = Len(chan[p][y]) /\ chan[p][y] \in Seq(Message)
      BY <1>1 DEF Everything
    <3>2. PICK s \in Seq(Message) : s = chan[p][y]
      BY <3>1
    <3>3. SubSeq(s, 1, Len(s)) = s
      OBVIOUS
    <3> QED BY <3>1, <3>2, <3>3
  <2> QED BY <2>1, <2>2
<1>7. ASSUME NEW x \in Participants, NEW y \in Participants
      PROVE  Rests(x, y) \/ Takes(x, y) \/ Drops(x, y)
  <2>1. CASE y = p /\ chan'[x][y] = <<>>
    BY <1>1, <1>4, <2>1 DEF Drops
  <2>2. CASE chan'[x][y] = chan[x][y]
    BY <1>1, <1>4, <2>2, PostedSelf DEF Rests
  <2>3. CASE x = p /\ chan'[x][y] = Append(chan[x][y], m)
    <3>1. m \in Mail(x)
      BY <2>3
    <3>2. Posted(x, chan[x][y], Append(chan[x][y], m))
      BY <1>1, <3>1, PostedAppend
    <3> QED BY <1>4, <2>3, <3>2 DEF Rests
  <2> QED BY <1>6, <2>1, <2>2, <2>3
<1>8. \A x, y \in Participants : Meets(x, y)
  BY <1>4 DEF Meets
<1>9. \A x \in Participants : Worked(x, jobs[x], jobs'[x])
  <2>1. \A x \in Participants : jobs'[x] = <<>> \/ jobs'[x] = jobs[x]
    BY <1>1, <1>4 DEF JobsType
  <2>2. \A x \in Participants : Worked(x, jobs[x], <<>>)
    BY DEF Worked
  <2> QED BY <2>1, <2>2, WorkedSelf
<1>10. Lives(p)
  BY <1>1, <1>3, <1>4 DEF Lives
<1>11. \A x \in Participants : Lives(x) /\ Expects(x) /\ Speaks(x)
  BY <1>4, <1>10, LivesOthers DEF Expects, Speaks
<1> QED BY <1>4, <1>7, <1>8, <1>9, <1>11 DEF Frame

LEMMA NextFrame ==
  ASSUME OneJoins, Inv, \A x \in Participants : Orderly(x), Next
  PROVE  Frame
<1>1. ASSUME NEW p \in Participants PROVE Orderly(p) /\ (IoThread(p) => Frame)
  <2>1. Orderly(p)
    OBVIOUS
  <2>2. ~(RequestJob(p) \/ PauseJob(p) \/ ContinueJob(p) \/ StopJob(p) \/ ErrorJob(p))
    BY <2>1, NoCalls
       DEF RequestJob, PauseJob, ContinueJob, StopJob, ErrorJob, NextJob, Calls
  <2> QED BY <2>1, <2>2, ProcessJobFrame, RequestsFrame, LocalFrame, HailFrame DEF IoThread
<1>2. ASSUME NEW p \in Participants, User(p) PROVE Frame
  <2>1. ~SetPeriod(p)
    <3>1. dur[p] \in StepSizes[p] /\ \A d, e \in StepSizes[p] : d = e
      BY DEF Orderly, OneJoins
    <3> QED BY <3>1 DEF SetPeriod
  <2>2. ~(Pause(p) \/ Continue(p) \/ Stop(p) \/ Crash(p))
    BY DEF OneJoins, Orderly, Pause, Continue, Stop, Crash
  <2> QED BY <1>1, <1>2, <2>1, <2>2, RequestsFrame, LocalFrame, HailFrame, LeaveFrame DEF User
<1>3. ASSUME NEW p \in Participants, NEW q \in Participants, Receive(p, q) PROVE Frame
  BY <1>1, <1>3, DiscoveryFrame, SignalFrame, ReplyFrame, ReceiveNextFrame, ShutdownFrame
     DEF Receive, ReceiveDisconnect, ReceiveConnectionLost
<1> QED BY <1>1, <1>2, <1>3 DEF Next

-----------------------------------------------------------------------------
(* What a step leaves as it was. *)

Same(q) == cur'[q] = cur[q] /\ next'[q] = next[q] /\ hoppedOn'[q] = hoppedOn[q]

LEMMA HopTime ==
  ASSUME Inv, Inv', NEW r \in Participants, NEW t, Hops(r, t)
  PROVE  /\ t \in Nat /\ t > 0 /\ Fresh(r) /\ cur[r] = -1 /\ next[r] = 0
         /\ hoppedOn'[r] /\ ~hoppedOn[r]
         /\ r \in Coordinated => cur'[r] = -1 /\ next'[r] = t
         /\ r \notin Coordinated => cur'[r] = t /\ next'[r] = t + dur[r]
         /\ \A q \in Participants \ {r} : Same(q)
<1>1. /\ TimeTypes /\ OwnTime /\ other' \in ViewType
      /\ known' \in [Participants -> SUBSET Participants]
  BY Typing DEF Inv, ViewTypes
<1>2. PICK q \in Ahead(r) : t = other'[r][q].tp
  BY DEF Hops
<1>3. q \in Participants /\ other'[r][q].tp > other'[r][q].dur
  BY <1>1, <1>2 DEF Ahead, AlreadyAdvanced
<1>4. other'[r][q] \in Task
  BY <1>1, <1>3 DEF ViewType
<1>5. t \in Nat /\ t > 0
  BY <1>2, <1>3, <1>4 DEF Task
<1>6. Fresh(r) /\ cur[r] = -1 /\ next[r] = 0 /\ ~hoppedOn[r]
  BY <1>1 DEF Hops, Fresh, OwnTime
<1>7. hoppedOn' = [hoppedOn EXCEPT ![r] = TRUE]
  BY DEF Hops
<1>8. CASE r \in Coordinated
  <2>1. cur' = cur /\ next' = [next EXCEPT ![r] = t]
    BY <1>8 DEF Hops
  <2> QED BY <1>1, <1>5, <1>6, <1>7, <1>8, <2>1 DEF TimeTypes, Same
<1>9. CASE r \notin Coordinated
  <2>1. cur' = [cur EXCEPT ![r] = t] /\ next' = [next EXCEPT ![r] = t + dur[r]]
    BY <1>9 DEF Hops
  <2> QED BY <1>1, <1>5, <1>6, <1>7, <1>9, <2>1 DEF TimeTypes, Same
<1> QED BY <1>8, <1>9

LEMMA RegularTime ==
  ASSUME Inv, NEW r \in Participants, Regular(r)
  PROVE  /\ cur'[r] = next[r] /\ next'[r] = next[r] + dur[r] /\ hoppedOn' = hoppedOn
         /\ \A q \in Participants \ {r} : Same(q)
BY Typing DEF Regular, TimeTypes, Same

LEMMA Clock ==
  ASSUME Inv, Inv', Frame
  PROVE  /\ \A q \in Participants : Same(q) \/ Turn(q)
         /\ \A q \in Participants :
              cur[q] <= cur'[q] /\ next[q] <= next'[q] /\ (hoppedOn[q] => hoppedOn'[q])
         /\ \A q \in Participants :
              cur'[q] = -1 /\ ~hoppedOn'[q] => Fresh(q) /\ Same(q) /\ next[q] = 0
<1>1. TimeTypes /\ OwnTime
  BY Typing
<1>2. CASE UNCHANGED <<cur, next, hoppedOn>>
  BY <1>1, <1>2 DEF Same, TimeTypes, OwnTime, Fresh
<1>3. ASSUME NEW r \in Participants, Turn(r)
      PROVE  /\ \A q \in Participants \ {r} : Same(q)
             /\ cur[r] <= cur'[r] /\ next[r] <= next'[r] /\ (hoppedOn[r] => hoppedOn'[r])
             /\ cur'[r] # -1 \/ hoppedOn'[r]
  <2>1. /\ cur[r] \in Nat \cup {-1} /\ next[r] \in Nat /\ dur[r] \in Nat \ {0}
        /\ cur[r] < next[r]
    BY <1>1 DEF TimeTypes, OwnTime
  <2>2. CASE Regular(r)
    BY <2>1, <2>2, RegularTime
  <2>3. ASSUME NEW t, Hops(r, t)
        PROVE  /\ \A q \in Participants \ {r} : Same(q)
               /\ cur[r] <= cur'[r] /\ next[r] <= next'[r] /\ (hoppedOn[r] => hoppedOn'[r])
               /\ cur'[r] # -1 \/ hoppedOn'[r]
    BY <2>1, <2>3, HopTime
  <2> QED BY <1>3, <2>2, <2>3 DEF Turn
<1>4. CASE \E r \in Participants : Turn(r)
  <2>1. PICK r \in Participants : Turn(r)
    BY <1>4
  <2>2. ASSUME NEW q \in Participants, q # r
        PROVE  /\ Same(q)
               /\ cur[q] <= cur'[q] /\ next[q] <= next'[q] /\ (hoppedOn[q] => hoppedOn'[q])
               /\ cur'[q] = -1 /\ ~hoppedOn'[q] => Fresh(q) /\ Same(q) /\ next[q] = 0
    BY <1>1, <1>3, <2>1, <2>2 DEF Same, TimeTypes, OwnTime, Fresh
  <2> QED BY <1>3, <2>1, <2>2
<1> QED BY <1>2, <1>4 DEF Frame

LEMMA PresentWas ==
  ASSUME Frame, NEW p \in Participants
  PROVE  /\ phase'[p] # "Off" => Present(p)
         /\ phase'[p] = "None" => phase[p] = "None"
<1>1. Lives(p)
  BY DEF Frame
<1> QED BY <1>1 DEF Lives, Present

(* What is in a queue was there, or has been sent. *)
LEMMA FrameHas ==
  ASSUME Inv, Inv', Frame, NEW x \in Participants, NEW y \in Participants,
         NEW i \in 1..Len(chan'[x][y])
  PROVE  \/ \E j \in 1..Len(chan[x][y]) : chan'[x][y][i] = chan[x][y][j]
         \/ chan'[x][y][i] \in Mail(x)
<1>1. chan[x][y] \in Seq(Message) /\ chan'[x][y] \in Seq(Message)
  BY Typing DEF Inv, QueueTypes, ChanType
<1>2. CASE Rests(x, y)
  BY <1>1, <1>2, PostedHas DEF Rests
<1>3. CASE Takes(x, y)
  <2>1. PICK s : s = chan[x][y]
    OBVIOUS
  <2>2. s # <<>> /\ Posted(x, Tail(s), chan'[x][y]) /\ s \in Seq(Message)
    BY <1>1, <1>3, <2>1 DEF Takes
  <2>3. /\ Tail(s) \in Seq(Message)
        /\ \A k \in 1..Len(Tail(s)) : \E j \in 1..Len(s) : Tail(s)[k] = s[j]
    BY <2>2, TailHas
  <2>4. (\E k \in 1..Len(Tail(s)) : chan'[x][y][i] = Tail(s)[k]) \/ chan'[x][y][i] \in Mail(x)
    BY <1>1, <2>2, <2>3, PostedHas
  <2> QED BY <2>1, <2>3, <2>4
<1>4. CASE Drops(x, y)
  BY <1>4 DEF Drops
<1> QED BY <1>2, <1>3, <1>4 DEF Frame

LEMMA FirstSays ==
  ASSUME Inv, NEW x \in Participants, NEW y \in Participants, NEW kinds, First(x, y, kinds)
  PROVE  \E k \in kinds : Says(chan[x][y], k)
<1>1. PICK s \in Seq(Message) : s = chan[x][y]
  BY Typing
<1>2. s # <<>> /\ Head(s).kind \in kinds
  BY <1>1 DEF First
<1>3. 1 \in 1..Len(s) /\ Head(s) = s[1]
  BY <1>2, TailHas
<1> QED BY <1>1, <1>2, <1>3 DEF Says

LEMMA KnownStays ==
  ASSUME Inv, Introduced, Frame, NEW x \in Participants, NEW y \in Participants,
         x \in known[y], Present(x)
  PROVE  x \in known'[y]
<1>1. Meets(x, y)
  BY DEF Frame
<1>2. ~First(x, y, {"Bye", "Lost"})
  <2>1. ~Says(chan[x][y], "Bye") /\ ~Says(chan[x][y], "Lost")
    BY DEF Introduced, Present
  <2> QED BY <2>1, FirstSays
<1> QED BY <1>1, <1>2 DEF Meets

(* The view of y of x. *)
LEMMA ViewStep ==
  ASSUME Inv, Inv', Frame, NEW x \in Participants, NEW y \in Participants
  PROVE  /\ other'[y][x].tp \in Int /\ other'[y][x].tp <= next[x]
         /\ \/ other'[y][x] = other[y][x] \/ other'[y][x] = NoTask
            \/ \E i \in 1..Len(chan[x][y]) :
                 chan[x][y][i].kind = "Next" /\ other'[y][x] = chan[x][y][i].task
         /\ other'[y][x] = NoTask \/ other[y][x].tp <= other'[y][x].tp
<1>1. /\ chan[x][y] \in Seq(Message) /\ other[y][x] \in Task /\ next[x] \in Nat
      /\ other'[y][x] \in Task
  BY Typing DEF Inv, ViewTypes, ViewType
<1>2. Chronological(chan[x][y], other[y][x].tp, next[x])
  BY DEF Inv, ChronologyOf
<1>3. other[y][x].tp \in Int /\ other[y][x].tp <= next[x] /\ NoTask.tp = -1
  BY <1>1, <1>2 DEF Task, Chronological, NoTask
<1>4. CASE other'[y][x] = other[y][x]
  BY <1>1, <1>3, <1>4
<1>5. CASE other'[y][x] = NoTask
  BY <1>1, <1>3, <1>5
<1>6. CASE Takes(x, y) /\ other'[y][x] # other[y][x] /\ other'[y][x] # NoTask
  <2>1. /\ chan[x][y] # <<>> /\ Head(chan[x][y]).kind = "Next"
        /\ other'[y][x] = Head(chan[x][y]).task
    BY <1>6 DEF Takes
  <2>2. 1 \in 1..Len(chan[x][y]) /\ Head(chan[x][y]) = chan[x][y][1]
    BY <1>1, <2>1, TailHas
  <2>3. chan[x][y][1].kind = "Next" /\ other'[y][x] = chan[x][y][1].task
    BY <2>1, <2>2
  <2>4. other[y][x].tp <= other'[y][x].tp /\ other'[y][x].tp <= next[x]
    BY <1>2, <2>2, <2>3 DEF Chronological
  <2>5. other'[y][x].tp \in Int
    BY <1>1 DEF Task
  <2> QED BY <2>2, <2>3, <2>4, <2>5
<1>7. Takes(x, y) \/ other'[y][x] = other[y][x]
  BY DEF Frame, Rests, Drops
<1> QED BY <1>4, <1>5, <1>6, <1>7

-----------------------------------------------------------------------------
(* The parts of the invariant. *)

LEMMA OrderlyStep ==
  ASSUME Inv, Inv', Frame, NEW p \in Participants, Orderly(p)
  PROVE  Orderly(p)'
<1>1. /\ Lives(p) /\ Expects(p) /\ Speaks(p) /\ Worked(p, jobs[p], jobs'[p])
      /\ UNCHANGED <<dur, stopRequested, pauseRequested>>
  BY DEF Frame
<1>2. \A i \in 1..Len(jobs'[p]) : jobs'[p][i] \notin Calls
  BY <1>1 DEF Worked, Orderly, Calls
<1>3. phase'[p] \in {"Ready", "Running", "Paused"} => waiting'[p] = {}
  BY <1>1 DEF Lives, Expects, Orderly
<1>4. /\ cur[p] \in Nat \cup {-1} /\ next[p] \in Nat /\ dur[p] \in Nat /\ cur[p] < next[p]
      /\ lastSent[p] \in Nat \cup {-1} /\ lastSent'[p] \in Nat \cup {-1}
  BY Typing DEF OwnTime, Inv, TimeTypes
<1>5. lastSent[p] >= 0 => lastSent'[p] >= 0
  BY <1>1 DEF Speaks
<1>6. phase'[p] \in {"Running", "Paused"} => lastSent'[p] >= 0
  BY <1>1, <1>5 DEF Lives, Orderly
<1>7. CASE Same(p)
  BY <1>1, <1>2, <1>3, <1>5, <1>6, <1>7 DEF Same, Orderly
<1>8. CASE Turn(p)
  <2>1. lastSent'[p] >= 0
    BY <1>5, <1>8 DEF Turn, Orderly
  <2>2. (cur'[p] >= 0 => next'[p] = cur'[p] + dur[p]) /\ (hoppedOn'[p] => next'[p] > 0)
    <3>1. CASE Regular(p)
      BY <1>4, <3>1, RegularTime DEF Orderly
    <3>2. ASSUME NEW t, Hops(p, t)
          PROVE  (cur'[p] >= 0 => next'[p] = cur'[p] + dur[p]) /\ (hoppedOn'[p] => next'[p] > 0)
      BY <1>4, <3>2, HopTime
    <3> QED BY <1>8, <3>1, <3>2 DEF Turn
  <2> QED BY <1>1, <1>2, <1>3, <2>1, <2>2 DEF Orderly
<1> QED BY <1>7, <1>8, Clock

LEMMA UnseenStep ==
  ASSUME Inv, Inv', Frame, Unseen
  PROVE  Unseen'
<1> SUFFICES ASSUME NEW x \in Participants, NEW y \in Participants, phase'[x] = "None"
             PROVE  x \notin known'[y] /\ ~Says(chan'[x][y], "Created")
  BY DEF Unseen
<1>1. phase[x] = "None" /\ x \notin known[y] /\ ~Says(chan[x][y], "Created")
  BY PresentWas DEF Unseen
<1>2. x \notin known'[y]
  <2>1. Meets(x, y)
    BY DEF Frame
  <2>2. ~First(x, y, {"Created"})
    BY <1>1, FirstSays
  <2> QED BY <1>1, <2>1, <2>2 DEF Meets
<1>3. ASSUME NEW i \in 1..Len(chan'[x][y]), chan'[x][y][i].kind = "Created" PROVE FALSE
  BY <1>1, <1>3, FrameHas DEF Says, Mail
<1> QED BY <1>2, <1>3 DEF Says

(* Who has been ready is known. *)
LEMMA ReadyKnown ==
  ASSUME Introduced, NEW x \in Participants, NEW y \in Participants, x # y, Present(x), Present(y),
         phase[x] \in {"Ready", "Running", "Paused"} \/ cur[x] # -1
  PROVE  x \in known[y]
BY DEF Introduced, Stranger, Present

LEMMA GatheredStep ==
  ASSUME Inv, Inv', Introduced, Frame, \A x \in Participants : Orderly(x), Gathered
  PROVE  Gathered'
<1> SUFFICES ASSUME NEW g \in Coordinated, lastSent'[g] >= 0,
                    NEW x \in Coordinated, NEW y \in Participants, x # y,
                    phase'[x] # "Off", phase'[y] # "Off"
             PROVE  x \in known'[y]
  BY DEF Gathered, Present
<1>1. Coordinated \subseteq Participants
  BY ParticipantsAssumption
<1>2. Present(x) /\ Present(y)
  BY <1>1, PresentWas
<1>3. x \in known[y]
  <2>1. CASE \E h \in Coordinated : lastSent[h] >= 0
    BY <1>2, <2>1 DEF Gathered
  <2>2. CASE \A h \in Coordinated : ~(lastSent[h] >= 0)
    <3>1. Lives(g) /\ Speaks(g) /\ Orderly(g)
      BY <1>1 DEF Frame
    <3>2. phase'[g] = "Running" /\ phase[g] # "Running"
      BY <2>2, <3>1 DEF Speaks, Orderly
    <3>3. \A q \in Coordinated : phase[q] = "Ready" \/ lastSent[q] >= 0
      BY <3>1, <3>2 DEF Lives
    <3>4. phase[x] = "Ready"
      BY <2>2, <3>3
    <3> QED BY <1>1, <1>2, <3>4, ReadyKnown
  <2> QED BY <2>1, <2>2
<1> QED BY <1>1, <1>2, <1>3, KnownStays

(* Announcements bear the step size. *)
LEMMA SteadyStep ==
  ASSUME Inv, Inv', Frame, SteadyOf(chan, other, dur)
  PROVE  SteadyOf(chan', other', dur')
<1>1. dur' = dur
  BY DEF Frame
<1>2. ASSUME NEW p \in Participants, NEW q \in Participants
      PROVE  SteadyQueue(chan'[q][p], dur[q])
  <2>1. SteadyQueue(chan[q][p], dur[q])
    BY DEF SteadyOf
  <2>2. ASSUME NEW i \in 1..Len(chan'[q][p]), chan'[q][p][i].kind = "Next"
        PROVE  chan'[q][p][i].task.dur = dur[q]
    <3>1. CASE chan'[q][p][i] \in Mail(q)
      BY <2>2, <3>1 DEF Mail
    <3>2. CASE \E j \in 1..Len(chan[q][p]) : chan'[q][p][i] = chan[q][p][j]
      BY <2>1, <2>2, <3>2 DEF SteadyQueue
    <3> QED BY <3>1, <3>2, FrameHas
  <2> QED BY <2>2 DEF SteadyQueue
<1>3. ASSUME NEW p \in Participants, NEW q \in Participants
      PROVE  other'[p][q].tp = -1 \/ other'[p][q].dur = dur[q]
  <2>1. SteadyQueue(chan[q][p], dur[q]) /\ (other[p][q].tp = -1 \/ other[p][q].dur = dur[q])
    BY DEF SteadyOf
  <2>2. \/ other'[p][q] = other[p][q] \/ other'[p][q] = NoTask
        \/ \E i \in 1..Len(chan[q][p]) :
             chan[q][p][i].kind = "Next" /\ other'[p][q] = chan[q][p][i].task
    BY ViewStep
  <2> QED BY <2>1, <2>2 DEF SteadyQueue, NoTask
<1> QED BY <1>1, <1>2, <1>3 DEF SteadyOf

LEMMA HoversStep ==
  ASSUME Inv, Inv', Frame, Hovers
  PROVE  Hovers'
<1> SUFFICES ASSUME NEW r \in Participants, NEW y \in Participants, cur'[r] = -1
             PROVE  other'[y][r].tp \in {-1, 0, next'[r]} /\ HoversIn(chan'[r][y], next'[r])
  BY DEF Hovers
<1>1. cur[r] = -1 /\ (next[r] = next'[r] \/ next[r] = 0)
  <2>1. /\ cur[r] \in Nat \cup {-1} /\ next[r] \in Nat
    BY Typing
  <2>2. CASE Same(r)
    BY <2>2 DEF Same
  <2>3. CASE Turn(r)
    <3>1. ~Regular(r)
      BY <2>1, RegularTime
    <3>2. PICK t : Hops(r, t)
      BY <2>3, <3>1 DEF Turn
    <3> QED BY <3>2, HopTime
  <2> QED BY <2>2, <2>3, Clock
<1>2. other[y][r].tp \in {-1, 0, next'[r]} /\ HoversIn(chan[r][y], next'[r])
  <2>1. other[y][r].tp \in {-1, 0, next[r]} /\ HoversIn(chan[r][y], next[r])
    BY <1>1 DEF Hovers
  <2>2. CASE next[r] = next'[r]
    BY <2>1, <2>2
  <2>3. CASE next[r] = 0
    BY <2>1, <2>3 DEF HoversIn
  <2> QED BY <1>1, <2>2, <2>3
<1>3. other'[y][r].tp \in {-1, 0, next'[r]}
  <2>1. \/ other'[y][r] = other[y][r] \/ other'[y][r] = NoTask
        \/ \E i \in 1..Len(chan[r][y]) :
             chan[r][y][i].kind = "Next" /\ other'[y][r] = chan[r][y][i].task
    BY ViewStep
  <2> QED BY <1>2, <2>1 DEF HoversIn, NoTask
<1>4. ASSUME NEW i \in 1..Len(chan'[r][y]), chan'[r][y][i].kind = "Next"
      PROVE  chan'[r][y][i].task.tp \in {0, next'[r]}
  <2>1. CASE chan'[r][y][i] \in Mail(r)
    BY <1>4, <2>1 DEF Mail
  <2>2. CASE \E j \in 1..Len(chan[r][y]) : chan'[r][y][i] = chan[r][y][j]
    BY <1>2, <1>4, <2>2 DEF HoversIn
  <2> QED BY <2>1, <2>2, FrameHas
<1> QED BY <1>3, <1>4 DEF HoversIn

(* Who knows p does not get past it. *)
LEMMA TurnWaits ==
  ASSUME Inv, Inv', Introduced, Frame, NEW r \in Participants, Turn(r),
         NEW p \in Participants, p \in known[r], Present(p)
  PROVE  next[r] <= next[p]
<1>1. p \in known'[r]
  BY KnownStays
<1>2. next[r] <= other'[r][p].tp
  BY <1>1 DEF Turn
<1>3. other'[r][p].tp \in Int /\ other'[r][p].tp <= next[p] /\ next[r] \in Nat /\ next[p] \in Nat
  BY ViewStep, Typing
<1> QED BY <1>2, <1>3

(* Who has not got past its first step is not ahead. *)
LEMMA NotAhead ==
  ASSUME Inv, Inv', Frame, SteadyOf(chan, other, dur), NEW r \in Participants,
         NEW q \in Participants, Orderly(q), cur[q] <= 0, ~hoppedOn[q]
  PROVE  q \notin Ahead(r)
<1>1. other'[r][q].tp \in Int /\ other'[r][q].tp <= next[q]
  BY ViewStep
<1>2. other'[r][q] \in Task /\ cur[q] \in Nat \cup {-1} /\ next[q] \in Nat /\ dur[q] \in Nat
  BY Typing DEF Inv, ViewTypes, ViewType
<1>3. other'[r][q].tp = -1 \/ other'[r][q].dur = dur[q]
  <2>1. SteadyOf(chan', other', dur') /\ dur' = dur
    BY SteadyStep DEF Frame
  <2> QED BY <2>1 DEF SteadyOf
<1>4. next[q] <= dur[q]
  BY <1>2, Typing DEF Orderly, OwnTime
<1>5. ~(other'[r][q].tp > other'[r][q].dur)
  BY <1>1, <1>2, <1>3, <1>4 DEF Task
<1> QED BY <1>5 DEF Ahead, AlreadyAdvanced

(* The view of an advanced participant is kept. *)
LEMMA StillSeen ==
  ASSUME Inv, Inv', Introduced, Frame, NEW p \in Participants, NEW q \in Participants,
         p # q, Present(p), Present(q), cur[q] > 0, phase[p] # "None",
         other[p][q].tp = next[q]
  PROVE  other'[p][q].tp = next[q]
<1>1. /\ chan[q][p] \in Seq(Message) /\ next[q] \in Nat
  BY Typing
<1>2. q \in known[p]
  <2>1. cur[q] # -1
    OBVIOUS
  <2> QED BY <2>1, ReadyKnown
<1>3. CASE Takes(q, p) /\ other'[p][q] # other[p][q]
  <2>1. ~First(q, p, {"Bye", "Lost"})
    <3>1. ~Says(chan[q][p], "Bye") /\ ~Says(chan[q][p], "Lost")
      BY DEF Introduced, Present
    <3> QED BY <3>1, FirstSays
  <2>2. chan[q][p] # <<>> /\ Head(chan[q][p]).kind \notin {"Bye", "Lost"}
    BY <1>3, <2>1 DEF Takes, First
  <2>3. Head(chan[q][p]).kind = "Next" /\ other'[p][q] = Head(chan[q][p]).task
    BY <1>2, <1>3, <2>2 DEF Takes
  <2>4. PICK s \in Seq(Message) : s = chan[q][p]
    BY <1>1
  <2>5. 1 \in 1..Len(s) /\ s[1].kind = "Next" /\ other'[p][q] = s[1].task
    BY <2>2, <2>3, <2>4, TailHas
  <2>6. Chronological(s, other[p][q].tp, next[q])
    BY <2>4 DEF Inv, ChronologyOf
  <2>7. other[p][q].tp <= s[1].task.tp /\ s[1].task.tp <= next[q] /\ s[1].task.tp \in Int
    BY <2>5, <2>6, MessageTime DEF Chronological
  <2> QED BY <1>1, <2>5, <2>7
<1>4. Takes(q, p) \/ other'[p][q] = other[p][q]
  BY DEF Frame, Rests, Drops
<1> QED BY <1>3, <1>4

(* Who runs has been told of those that have advanced. *)
LEMMA RunningSees ==
  ASSUME Inv, Inv', Introduced, Frame, SteadyOf(chan, other, dur), Tells,
         NEW p \in Participants, Orderly(p), phase[p] = "Running", Fresh(p),
         NEW q \in Participants, Orderly(q), q # p, Present(q), cur[q] > 0
  PROVE  other'[p][q].tp = next[q] /\ q \in Ahead(p)
<1>1. /\ cur[q] \in Nat \cup {-1} /\ next[q] \in Nat /\ dur[q] \in Nat /\ next[q] = cur[q] + dur[q]
      /\ chan[q][p] \in Seq(Message)
  BY Typing DEF Orderly
<1>2. q \in known[p] /\ q \in known'[p]
  <2>1. q \in known[p]
    BY <1>1, ReadyKnown DEF Present
  <2> QED BY <2>1, KnownStays
<1>3. other[p][q].tp = next[q]
  BY DEF Tells, Called, Present, Orderly
<1>4. other'[p][q].tp = next[q]
  BY <1>3, StillSeen DEF Present
<1>5. other'[p][q].tp > other'[p][q].dur
  <2>1. SteadyOf(chan', other', dur') /\ dur' = dur
    BY SteadyStep DEF Frame
  <2>2. other'[p][q].tp = -1 \/ other'[p][q].dur = dur[q]
    BY <2>1 DEF SteadyOf
  <2> QED BY <1>1, <1>4, <2>2
<1> QED BY <1>2, <1>4, <1>5 DEF Ahead, AlreadyAdvanced

(* The latecomer is alone. *)
LEMMA Alone ==
  ASSUME OneJoins, Peace, NEW x \in Participants \ Coordinated, cur[x] = -1
  PROVE  /\ Outside
         /\ \A p \in Participants : ~hoppedOn[p] /\ Present(p)
         /\ \A q, r \in Coordinated : cur[q] <= next[r]
<1>1. \A y \in Participants \ Coordinated : y = x
  BY DEF OneJoins
<1>2. Outside
  BY <1>1 DEF Outside
<1> QED BY <1>2 DEF Peace, Present

LEMMA PeaceStep ==
  ASSUME OneJoins, Inv, Inv', Introduced, JoinInv, Frame
  PROVE  Peace'
<1> SUFFICES ASSUME Outside'
             PROVE  /\ \A p \in Participants :
                         /\ ~hoppedOn'[p] /\ phase'[p] \notin {"Stopped", "Error", "Off"}
                         /\ \A i \in 1..Len(jobs'[p]) : jobs'[p][i] # "Abort"
                         /\ \A q \in Participants : ~Says(chan'[p][q], "Abort")
                    /\ \A q, r \in Coordinated : cur'[q] <= next'[r]
  BY DEF Peace
<1>1. /\ \A x \in Participants : Orderly(x)
      /\ Gathered /\ Peace /\ Waits /\ SteadyOf(chan, other, dur)
      /\ Coordinated \subseteq Participants
  BY ParticipantsAssumption DEF JoinInv
<1>2. Outside
  <2>1. \A x \in Participants : cur[x] <= cur'[x] /\ cur[x] \in Nat \cup {-1}
    BY Clock, Typing
  <2> QED BY <2>1 DEF Outside
<1>3. /\ \A p \in Participants :
           /\ ~hoppedOn[p] /\ phase[p] \notin {"Stopped", "Error", "Off"}
           /\ \A i \in 1..Len(jobs[p]) : jobs[p][i] # "Abort"
           /\ \A q \in Participants : ~Says(chan[p][q], "Abort")
      /\ \A q, r \in Coordinated : cur[q] <= next[r]
  BY <1>1, <1>2 DEF Peace
<1>4. \A p \in Participants : ~Struck(p)
  BY <1>3 DEF Struck
<1>5. ASSUME NEW r \in Participants, NEW t, Hops(r, t), Turn(r) PROVE FALSE
  <2>1. r \in Coordinated
    <3>1. r \notin Coordinated => cur'[r] = t /\ t \in Nat
      BY <1>5, HopTime
    <3> QED BY <3>1 DEF Outside
  <2>2. Present(r) /\ Fresh(r)
    BY <1>5, HopTime DEF Turn, Present
  <2>3. \A q \in Participants : cur[q] <= 0 /\ ~hoppedOn[q]
    BY <1>1, <1>2, <1>3, <2>1, <2>2 DEF Waits, Outside
  <2>4. \A q \in Participants : q \notin Ahead(r)
    BY <1>1, <2>3, NotAhead
  <2>5. Ahead(r) \subseteq Participants
    BY Typing DEF Ahead, AlreadyAdvanced, Inv, ViewTypes
  <2> QED BY <1>5, <2>4, <2>5 DEF Hops
<1>6. \A p \in Participants : ~hoppedOn'[p]
  <2>1. ASSUME NEW p \in Participants PROVE ~hoppedOn'[p]
    <3>1. CASE Same(p)
      BY <1>3, <3>1 DEF Same
    <3>2. CASE Turn(p)
      BY <1>3, <1>5, <3>2, RegularTime DEF Turn
    <3> QED BY <3>1, <3>2, Clock
  <2> QED BY <2>1
<1>7. \A p \in Participants : phase'[p] \notin {"Stopped", "Error", "Off"}
  <2>1. \A p \in Participants : Lives(p)
    BY DEF Frame
  <2> QED BY <1>3, <1>4, <2>1 DEF Lives
<1>8. \A p \in Participants : \A i \in 1..Len(jobs'[p]) : jobs'[p][i] # "Abort"
  <2>1. \A p \in Participants : Worked(p, jobs[p], jobs'[p])
    BY DEF Frame
  <2> QED BY <1>3, <1>4, <1>6, <2>1 DEF Worked
<1>9. ASSUME NEW p \in Participants, NEW q \in Participants PROVE ~Says(chan'[p][q], "Abort")
  <2>1. ASSUME NEW i \in 1..Len(chan'[p][q]), chan'[p][q][i].kind = "Abort" PROVE FALSE
    <3>1. CASE chan'[p][q][i] \in Mail(p)
      BY <1>6, <2>1, <3>1 DEF Mail
    <3>2. CASE \E j \in 1..Len(chan[p][q]) : chan'[p][q][i] = chan[p][q][j]
      BY <1>3, <2>1, <3>2 DEF Says
    <3> QED BY <3>1, <3>2, FrameHas
  <2> QED BY <2>1 DEF Says
<1>10. ASSUME NEW q \in Coordinated, NEW r \in Coordinated PROVE cur'[q] <= next'[r]
  <2>1. /\ cur[q] \in Nat \cup {-1} /\ next[q] \in Nat /\ next[r] \in Nat /\ next'[r] \in Nat
        /\ dur[q] \in Nat /\ next[r] <= next'[r] /\ cur[q] <= next[r]
    BY <1>1, <1>3, Clock, Typing DEF Inv, TimeTypes
  <2>2. CASE Same(q)
    BY <2>1, <2>2 DEF Same
  <2>3. CASE Turn(q)
    <3>1. Regular(q)
      BY <1>1, <1>5, <2>3 DEF Turn
    <3>2. cur'[q] = next[q] /\ next'[q] = next[q] + dur[q]
      BY <1>1, <3>1, RegularTime
    <3>3. CASE r = q
      BY <2>1, <3>2, <3>3
    <3>4. CASE r # q
      <4>1. lastSent[q] >= 0 /\ Present(q) /\ Present(r)
        BY <1>1, <1>3, <2>3 DEF Turn, Orderly, Present
      <4>2. r \in known[q]
        BY <1>1, <3>4, <4>1 DEF Gathered
      <4>3. next[q] <= next[r]
        BY <1>1, <2>3, <4>1, <4>2, TurnWaits
      <4> QED BY <2>1, <3>2, <4>3
    <3> QED BY <3>3, <3>4
  <2> QED BY <1>1, <2>2, <2>3, Clock
<1> QED BY <1>6, <1>7, <1>8, <1>9, <1>10

(* A coordinated participant that hops on does so beyond everybody. *)
LEMMA HopsBeyond ==
  ASSUME OneJoins, Inv, Inv', Introduced, JoinInv, Frame,
         NEW p \in Coordinated, phase[p] = "Running", NEW t, Hops(p, t),
         NEW q \in Participants, Present(q)
  PROVE  cur[q] <= t
<1>1. /\ \A x \in Participants : Orderly(x)
      /\ Peace /\ Waits /\ Hovers /\ Tells /\ SteadyOf(chan, other, dur)
      /\ Coordinated \subseteq Participants
  BY ParticipantsAssumption DEF JoinInv
<1>2. /\ t \in Nat /\ t > 0 /\ Fresh(p) /\ Present(p)
      /\ \A x \in Participants : cur[x] \in Nat \cup {-1} /\ next[x] \in Nat /\ cur[x] < next[x]
  BY <1>1, HopTime, Typing DEF Present, OwnTime
<1>3. \A r \in Coordinated :
        /\ cur[r] <= 0
        /\ hoppedOn[r] =>
             /\ cur[r] = -1
             /\ \A x \in Participants \ Coordinated : Present(x) => cur[x] <= next[r]
  BY <1>1, <1>2 DEF Waits
<1>4. CASE cur[q] <= 0
  BY <1>2, <1>4
<1>5. CASE cur[q] > 0
  <2>1. q \notin Coordinated /\ q # p
    BY <1>2, <1>3, <1>5
  <2>2. PICK z \in Ahead(p) : t = other'[p][z].tp
    BY DEF Hops
  <2>3. z \in Participants
    BY <1>1, Typing DEF Ahead, AlreadyAdvanced, Inv, ViewTypes
  <2>4. CASE z \in Coordinated
    <3>1. hoppedOn[z]
      BY <1>1, <1>3, <2>2, <2>3, <2>4, NotAhead
    <3>2. cur[z] = -1 /\ cur[q] <= next[z]
      BY <1>3, <2>1, <2>4, <3>1
    <3>3. t = next[z]
      <4>1. z # p
        BY <1>2, <3>1 DEF Fresh
      <4>2. Same(z)
        BY <1>1, <2>3, <4>1, HopTime
      <4>3. Hovers'
        BY <1>1, HoversStep
      <4>4. other'[p][z].tp \in {-1, 0, next'[z]}
        BY <1>1, <2>3, <3>2, <4>2, <4>3 DEF Hovers, Same
      <4> QED BY <1>2, <2>2, <4>2, <4>4 DEF Same
    <3> QED BY <3>2, <3>3
  <2>5. CASE z \notin Coordinated
    <3>1. z = q
      BY <2>1, <2>3, <2>5 DEF OneJoins
    <3>2. other'[p][q].tp = next[q]
      BY <1>1, <1>2, <1>5, <2>1, RunningSees
    <3> QED BY <1>2, <2>2, <3>1, <3>2
  <2> QED BY <2>4, <2>5
<1> QED BY <1>2, <1>4, <1>5

LEMMA WaitsStep ==
  ASSUME OneJoins, Inv, Inv', Introduced, JoinInv, Frame
  PROVE  Waits'
<1> SUFFICES ASSUME NEW p \in Coordinated, phase'[p] # "Off", cur'[p] = -1, ~hoppedOn'[p],
                    NEW r \in Coordinated
             PROVE  /\ cur'[r] <= 0
                    /\ hoppedOn'[r] =>
                         /\ cur'[r] = -1
                         /\ \A x \in Participants \ Coordinated :
                              phase'[x] # "Off" => cur'[x] <= next'[r]
  BY DEF Waits, Present, Fresh
<1>1. /\ \A x \in Participants : Orderly(x)
      /\ Gathered /\ Peace /\ Waits /\ Coordinated \subseteq Participants
  BY ParticipantsAssumption DEF JoinInv
<1>2. /\ Present(p) /\ Fresh(p) /\ next[p] = 0 /\ Same(p)
      /\ \A x \in Participants : cur[x] \in Nat \cup {-1} /\ next[x] \in Nat /\ dur[x] \in Nat
  BY <1>1, PresentWas, Clock, Typing
<1>3. /\ cur[r] <= 0
      /\ hoppedOn[r] =>
           /\ cur[r] = -1
           /\ \A x \in Participants \ Coordinated : Present(x) => cur[x] <= next[r]
  BY <1>1, <1>2 DEF Waits
<1>4. ASSUME NEW x \in Participants, x # p, Turn(x), \E g \in Coordinated : lastSent[g] >= 0
      PROVE  next[x] = 0
  <2>1. p \in known[x]
    BY <1>1, <1>2, <1>4 DEF Gathered, Turn, Present
  <2> QED BY <1>1, <1>2, <1>4, <2>1, TurnWaits
<1>5. CASE hoppedOn[r]
  <2>1. lastSent[r] >= 0 /\ next[r] > 0 /\ r # p
    BY <1>1, <1>2, <1>5 DEF Orderly, Fresh
  <2>2. ~Turn(r)
    BY <1>1, <1>2, <1>4, <2>1
  <2>3. Same(r)
    BY <1>1, <2>2, Clock
  <2>4. ASSUME NEW x \in Participants \ Coordinated, phase'[x] # "Off" PROVE cur'[x] <= next[r]
    <3>1. CASE Same(x)
      BY <1>3, <1>5, <2>4, <3>1, PresentWas DEF Same
    <3>2. CASE Turn(x)
      <4>1. next[x] = 0
        BY <1>1, <1>4, <2>1, <3>2
      <4>2. Regular(x)
        <5>1. ASSUME NEW t, Hops(x, t) PROVE FALSE
          <6>1. cur[x] = -1
            BY <5>1, HopTime
          <6> QED BY <1>1, <1>5, <6>1, Alone
        <5> QED BY <3>2, <5>1 DEF Turn
      <4>3. cur'[x] = 0
        BY <4>1, <4>2, RegularTime
      <4> QED BY <1>1, <1>2, <2>1, <4>3
    <3> QED BY <3>1, <3>2, Clock
  <2> QED BY <1>3, <1>5, <2>3, <2>4 DEF Same
<1>6. CASE ~hoppedOn[r]
  <2>1. CASE Same(r)
    BY <1>3, <1>6, <2>1 DEF Same
  <2>2. CASE Turn(r)
    <3>1. r # p
      <4>1. CASE Regular(p)
        BY <1>1, <1>2, <4>1, RegularTime DEF Same, Fresh
      <4>2. ASSUME NEW t, Hops(p, t) PROVE FALSE
        BY <1>1, <4>2, HopTime
      <4> QED BY <1>2, <2>2, <4>1, <4>2 DEF Turn, Same
    <3>2. next[r] = 0
      BY <1>1, <1>4, <2>2, <3>1 DEF Turn, Orderly
    <3>3. CASE Regular(r)
      BY <1>1, <1>6, <3>2, <3>3, RegularTime
    <3>4. ASSUME NEW t, Hops(r, t)
          PROVE  /\ cur'[r] = -1
                 /\ \A x \in Participants \ Coordinated : phase'[x] # "Off" => cur'[x] <= next'[r]
      <4>1. cur'[r] = -1 /\ next'[r] = t /\ \A x \in Participants \ {r} : Same(x)
        BY <1>1, <3>4, HopTime
      <4>2. ASSUME NEW x \in Participants \ Coordinated, phase'[x] # "Off" PROVE cur'[x] <= t
        <5>1. phase[r] = "Running" /\ Present(x)
          BY <2>2, <4>2, PresentWas DEF Turn
        <5>2. cur[x] <= t
          BY <3>4, <5>1, HopsBeyond
        <5> QED BY <4>1, <5>2 DEF Same
      <4> QED BY <4>1, <4>2
    <3> QED BY <2>2, <3>3, <3>4 DEF Turn
  <2> QED BY <1>1, <2>1, <2>2, Clock
<1> QED BY <1>5, <1>6

LEMMA HoppedStep ==
  ASSUME OneJoins, Inv, Inv', Introduced, JoinInv, Frame
  PROVE  Hopped'
<1> SUFFICES ASSUME NEW p \in Coordinated, hoppedOn'[p], cur'[p] = -1, phase'[p] # "Off",
                    NEW q \in Participants, phase'[q] # "Off"
             PROVE  cur'[q] <= next'[p]
  BY DEF Hopped, Present
<1>1. /\ \A x \in Participants : Orderly(x)
      /\ Gathered /\ Peace /\ Hopped /\ Coordinated \subseteq Participants
  BY ParticipantsAssumption DEF JoinInv
<1>2. /\ Present(p) /\ Present(q)
      /\ \A x \in Participants : cur[x] \in Nat \cup {-1} /\ next[x] \in Nat /\ dur[x] \in Nat
  BY <1>1, PresentWas, Typing
<1>3. CASE hoppedOn[p]
  <2>1. ~Turn(p)
    <3>1. ~Regular(p)
      BY <1>1, <1>2, RegularTime
    <3>2. \A t : ~Hops(p, t)
      BY <1>3 DEF Hops, Fresh
    <3> QED BY <3>1, <3>2 DEF Turn
  <2>2. Same(p)
    BY <1>1, <2>1, Clock
  <2>3. cur[q] <= next[p]
    BY <1>1, <1>2, <1>3, <2>2 DEF Hopped, Same
  <2>4. CASE Same(q)
    BY <2>2, <2>3, <2>4 DEF Same
  <2>5. CASE Turn(q)
    <3>1. q # p /\ lastSent[p] >= 0
      BY <1>1, <1>3, <2>1, <2>5 DEF Orderly
    <3>2. p \in known[q]
      BY <1>1, <1>2, <3>1 DEF Gathered
    <3>3. next[q] <= next[p]
      BY <1>1, <1>2, <2>5, <3>2, TurnWaits
    <3>4. CASE Regular(q)
      BY <2>2, <3>3, <3>4, RegularTime DEF Same
    <3>5. ASSUME NEW t, Hops(q, t) PROVE cur'[q] <= next'[p]
      <4>1. cur[q] = -1 /\ (q \in Coordinated => cur'[q] = -1)
        BY <3>5, HopTime
      <4>2. q \in Coordinated
        BY <1>1, <1>3, <4>1, Alone
      <4> QED BY <1>1, <1>2, <2>2, <4>1, <4>2 DEF Same
    <3> QED BY <2>5, <3>4, <3>5 DEF Turn
  <2> QED BY <2>4, <2>5, Clock
<1>4. CASE ~hoppedOn[p]
  <2>1. Turn(p)
    BY <1>1, <1>4, Clock DEF Same
  <2>2. PICK t : Hops(p, t)
    <3>1. ~Regular(p)
      BY <1>1, <1>4, RegularTime
    <3> QED BY <2>1, <3>1 DEF Turn
  <2>3. cur'[p] = -1 /\ cur[p] = -1 /\ next'[p] = t /\ \A x \in Participants \ {p} : Same(x)
    BY <1>1, <2>2, HopTime
  <2>4. cur'[q] = cur[q]
    BY <2>3 DEF Same
  <2>5. cur[q] <= t
    BY <1>2, <2>1, <2>2, HopsBeyond DEF Turn
  <2> QED BY <2>3, <2>4, <2>5
<1> QED BY <1>3, <1>4

(* What is told stays told. *)
LEMMA StillTold ==
  ASSUME Inv, Inv', Introduced, Unseen, Frame, NEW p \in Participants, NEW q \in Participants,
         p # q, phase'[p] # "Off", Present(p), Present(q), cur[q] > 0, p \in known[q],
         Told(chan[q][p], other[p][q].tp, next[q])
  PROVE  Told(chan'[q][p], other'[p][q].tp, next[q])
<1>1. PICK s : s = chan[q][p]
  OBVIOUS
<1>2. PICK o : o = other[p][q].tp
  OBVIOUS
<1>3. PICK v : v = next[q]
  OBVIOUS
<1>4. /\ s \in Seq(Message) /\ chan'[q][p] \in Seq(Message) /\ Told(s, o, v)
      /\ o \in Int /\ v \in Nat /\ Chronological(s, o, v)
  <2>1. other[p][q] \in Task
    BY Typing DEF ViewType
  <2>2. chan[q][p] \in Seq(Message) /\ next[q] \in Nat /\ other[p][q].tp \in Int
    BY <2>1, Typing DEF Task
  <2>3. chan'[q][p] \in Seq(Message)
    BY DEF Inv, QueueTypes, ChanType
  <2>4. Chronological(chan[q][p], other[p][q].tp, next[q])
    BY DEF Inv, ChronologyOf
  <2> QED BY <1>1, <1>2, <1>3, <2>2, <2>3, <2>4
<1>5. CASE Rests(q, p)
  <2>1. Posted(q, s, chan'[q][p]) /\ other'[p][q].tp = o
    BY <1>1, <1>2, <1>5 DEF Rests
  <2>2. Told(chan'[q][p], o, v)
    BY <1>4, <2>1, PostedTold
  <2> QED BY <1>3, <2>1, <2>2
<1>6. CASE Takes(q, p)
  <2>1. s # <<>> /\ Posted(q, Tail(s), chan'[q][p])
    BY <1>1, <1>6 DEF Takes
  <2>2. q \in known[p] /\ phase[p] # "None"
    <3>1. cur[q] # -1
      OBVIOUS
    <3> QED BY <3>1, ReadyKnown DEF Unseen
  <2>3. Head(s).kind \notin {"Bye", "Lost"}
    <3>1. ~Says(s, "Bye") /\ ~Says(s, "Lost")
      BY <1>1 DEF Introduced, Present
    <3>2. 1 \in 1..Len(s) /\ Head(s) = s[1]
      BY <1>4, <2>1, TailHas
    <3> QED BY <3>1, <3>2 DEF Says
  <2>4. other'[p][q] = IF Head(s).kind = "Next" THEN Head(s).task ELSE other[p][q]
    BY <1>1, <1>6, <2>2, <2>3 DEF Takes
  <2>5. Tail(s) \in Seq(Message) /\ 1 \in 1..Len(s) /\ Head(s) = s[1]
    BY <1>4, <2>1, TailHas
  <2>6. o = v \/ (Head(s).kind = "Next" /\ Head(s).task.tp = v) \/ Told(Tail(s), o, v)
    BY <1>4, <2>1, TailTold
  <2>7. Told(Tail(s), other'[p][q].tp, v)
    <3>1. CASE Head(s).kind # "Next"
      BY <1>2, <2>4, <2>6, <3>1 DEF Told
    <3>2. CASE Head(s).kind = "Next"
      <4>1. s[1].kind = "Next" /\ other'[p][q].tp = s[1].task.tp
        BY <2>4, <2>5, <3>2
      <4>2. o <= s[1].task.tp /\ s[1].task.tp <= v
        BY <1>4, <2>5, <4>1 DEF Chronological
      <4>3. s[1].task.tp \in Int
        BY <1>4, <2>5, MessageTime
      <4>4. CASE s[1].task.tp = v
        BY <4>1, <4>4 DEF Told
      <4>5. CASE s[1].task.tp # v
        <5>1. o # v
          BY <1>4, <4>2, <4>3, <4>5
        <5>2. Told(Tail(s), o, v)
          BY <2>5, <2>6, <4>5, <5>1
        <5> QED BY <5>1, <5>2 DEF Told
      <4> QED BY <4>4, <4>5
    <3> QED BY <3>1, <3>2
  <2>8. Told(chan'[q][p], other'[p][q].tp, v)
    BY <1>4, <2>1, <2>5, <2>7, PostedTold
  <2> QED BY <1>3, <2>8
<1>7. ~Drops(q, p)
  BY DEF Drops
<1> QED BY <1>5, <1>6, <1>7 DEF Frame

(* The announcement to who was met. *)
LEMMA ToldNew ==
  ASSUME NEW s \in Seq(Message), NEW o, NEW v \in Nat, NEW d \in Nat, ~Says(s, "Reply")
  PROVE  Told(Append(s, NextSimTask(v, d)), o, v)
<1>1. PICK m : m = NextSimTask(v, d)
  OBVIOUS
<1>2. m \in Message /\ m.kind = "Next" /\ m.task.tp = v
  BY <1>1, Messages DEF NextSimTask
<1> DEFINE t == Append(s, m)
<1>3. /\ Len(s) \in Nat /\ Len(t) = Len(s) + 1 /\ t[Len(s) + 1] = m
      /\ \A j \in 1..Len(s) : t[j] = s[j]
  BY <1>2
<1> HIDE DEF t
<1>4. Len(s) + 1 \in 1..Len(t) /\ \A j \in 1..((Len(s) + 1) - 1) : t[j].kind # "Reply"
  BY <1>3 DEF Says
<1>5. Told(t, o, v)
  BY <1>2, <1>3, <1>4 DEF Told
<1> QED BY <1>1, <1>5 DEF t

(* Nobody that has not executed a step is overtaken by who knows it. *)
LEMMA TellsTurn ==
  ASSUME OneJoins, Inv, Inv', Introduced, Introduced', JoinInv, Frame,
         NEW p \in Participants, NEW q \in Participants, p # q,
         phase'[p] # "Off", phase'[q] # "Off", cur'[p] = -1, ~hoppedOn'[p], cur'[q] > 0, Turn(q)
  PROVE  /\ p \notin known'[q]
         /\ Called(p)' => q \in waiting'[p]
<1>1. /\ \A x \in Participants : Orderly(x)
      /\ Peace /\ Waits /\ SteadyOf(chan, other, dur) /\ Coordinated \subseteq Participants
  BY ParticipantsAssumption DEF JoinInv
<1>2. /\ Present(p) /\ Fresh(p) /\ next[p] = 0
      /\ cur[q] \in Nat \cup {-1} /\ next[q] \in Nat
  BY PresentWas, Clock, Typing
<1>3. p \notin known'[q]
  <2>1. SUFFICES ASSUME p \in known'[q] PROVE FALSE
    OBVIOUS
  <2>2. next[q] = 0
    <3>1. next[q] <= other'[q][p].tp
      BY <2>1 DEF Turn
    <3>2. other'[q][p].tp \in Int /\ other'[q][p].tp <= next[p]
      BY ViewStep
    <3> QED BY <1>2, <3>1, <3>2
  <2>3. ~Regular(q)
    BY <2>2, RegularTime
  <2>4. PICK t : Hops(q, t)
    BY <2>3 DEF Turn
  <2>5. q \notin Coordinated /\ cur[q] = -1
    BY <2>4, HopTime
  <2>6. p \in Coordinated
    BY <2>5 DEF OneJoins
  <2>7. Outside /\ \A x \in Participants : ~hoppedOn[x]
    BY <1>1, <2>5, Alone
  <2>8. \A x \in Participants : cur[x] <= 0
    BY <1>1, <1>2, <2>6, <2>7 DEF Waits, Outside
  <2>9. \A x \in Participants : x \notin Ahead(q)
    BY <1>1, <2>7, <2>8, NotAhead
  <2>10. Ahead(q) \subseteq Participants
    BY Typing DEF Ahead, AlreadyAdvanced, Inv, ViewTypes
  <2> QED BY <2>4, <2>9, <2>10 DEF Hops
<1>4. Called(p)' => q \in waiting'[p]
  BY <1>3 DEF Introduced, Stranger, Called
<1> QED BY <1>3, <1>4

LEMMA TellsStep ==
  ASSUME OneJoins, Inv, Inv', Introduced, Introduced', JoinInv, Frame
  PROVE  Tells'
<1> SUFFICES ASSUME NEW p \in Participants, NEW q \in Participants, p # q,
                    phase'[p] # "Off", phase'[q] # "Off", cur'[p] = -1, ~hoppedOn'[p], cur'[q] > 0
             PROVE  /\ p \in known'[q] => Told(chan'[q][p], other'[p][q].tp, next'[q])
                    /\ Called(p)' /\ q \notin waiting'[p] => other'[p][q].tp = next'[q]
  BY DEF Tells, Present, Fresh
<1>1. CASE Turn(q)
  BY <1>1, TellsTurn
<1>2. CASE Same(q)
  <2>1. /\ Unseen /\ Tells /\ Lives(p) /\ Expects(p) /\ Meets(p, q)
    BY DEF JoinInv, Frame
  <2>2. /\ Present(p) /\ Present(q) /\ Fresh(p) /\ cur[q] > 0 /\ next'[q] = next[q]
        /\ chan[q][p] \in Seq(Message) /\ next[q] \in Nat /\ dur[q] \in Nat
    BY <1>2, PresentWas, Clock, Typing DEF Same
  <2>3. /\ p \in known[q] => Told(chan[q][p], other[p][q].tp, next[q])
        /\ Called(p) /\ q \notin waiting[p] => other[p][q].tp = next[q]
    BY <2>1, <2>2 DEF Tells
  <2>4. p \notin known[q] => ~Says(chan[q][p], "Reply") /\ (Called(p) => q \in waiting[p])
    BY <2>2 DEF Introduced, Stranger, Called, Present
  <2>5. ASSUME p \in known'[q] PROVE Told(chan'[q][p], other'[p][q].tp, next[q])
    <3>1. CASE p \in known[q]
      BY <2>1, <2>2, <2>3, <3>1, StillTold
    <3>2. CASE p \notin known[q]
      <4>1. chan'[q][p] = Append(chan[q][p], NextSimTask(next[q], dur[q]))
        <5>1. cur[q] \in Int /\ cur[q] >= 0
          BY <2>2, Typing
        <5>2. ~First(p, q, {"Bye", "Lost"})
          <6>1. ~Says(chan[p][q], "Bye") /\ ~Says(chan[p][q], "Lost")
            BY <2>2 DEF Introduced, Present
          <6> QED BY <6>1, FirstSays
        <5> QED BY <2>1, <2>2, <2>5, <3>2, <5>1, <5>2 DEF Meets
      <4>2. PICK o : o = other'[p][q].tp
        OBVIOUS
      <4>3. Told(Append(chan[q][p], NextSimTask(next[q], dur[q])), o, next[q])
        BY <2>2, <2>4, <3>2, ToldNew
      <4> QED BY <4>1, <4>2, <4>3
    <3> QED BY <3>1, <3>2
  <2>6. ASSUME Called(p)', q \notin waiting'[p] PROVE other'[p][q].tp = next[q]
    <3>1. q \in Peers(p)
      BY <2>2 DEF Peers, Present
    <3>2. Called(p)
      BY <2>1, <2>6, <3>1 DEF Called, Lives, Expects
    <3>3. phase[p] # "None"
      <4>1. phase[p] = "None" => p \notin known[q]
        BY <2>1 DEF Unseen
      <4> QED BY <2>2, <3>2, <4>1 DEF Introduced, Stranger, Called, Present
    <3>4. CASE q \notin waiting[p]
      BY <2>2, <2>3, <3>2, <3>3, <3>4, StillSeen
    <3>5. CASE q \in waiting[p]
      <4>1. First(q, p, {"Reply", "Bye", "Lost"})
        BY <2>1, <2>6, <3>1, <3>5 DEF Expects
      <4>2. ~Says(chan[q][p], "Bye") /\ ~Says(chan[q][p], "Lost")
        BY <2>2 DEF Introduced, Present
      <4>3. 1 \in 1..Len(chan[q][p]) /\ Head(chan[q][p]) = chan[q][p][1] /\ chan[q][p] # <<>>
        BY <2>2, <4>1, TailHas DEF First
      <4>4. Head(chan[q][p]).kind = "Reply" /\ Says(chan[q][p], "Reply")
        BY <4>1, <4>2, <4>3 DEF First, Says
      <4>5. Told(chan[q][p], other[p][q].tp, next[q])
        BY <2>3, <2>4, <4>4
      <4>6. other[p][q].tp = next[q]
        <5>1. PICK s \in Seq(Message) : s = chan[q][p]
          BY <2>2
        <5>2. PICK o : o = other[p][q].tp
          OBVIOUS
        <5>3. PICK v : v = next[q]
          OBVIOUS
        <5>4. s # <<>> /\ Told(s, o, v) /\ Head(s).kind = "Reply"
          BY <4>3, <4>4, <4>5, <5>1, <5>2, <5>3
        <5>5. o = v
          BY <5>4, TailTold
        <5> QED BY <5>2, <5>3, <5>5
      <4> QED BY <2>2, <3>3, <4>6, StillSeen
    <3> QED BY <3>4, <3>5
  <2> QED BY <2>2, <2>5, <2>6
<1> QED BY <1>1, <1>2, Clock

-----------------------------------------------------------------------------
(* The time of a late joiner. *)

LEMMA JoinInit == Init => JoinInv
<1> SUFFICES ASSUME Init PROVE JoinInv
  OBVIOUS
<1>1. Inv
  BY InitInv
<1>2. /\ phase = [p \in Participants |-> "None"] /\ waiting = [p \in Participants |-> {}]
      /\ jobs = [p \in Participants |-> <<>>]
      /\ chan = [p \in Participants |-> [q \in Participants |-> <<>>]]
      /\ cur = [p \in Participants |-> -1] /\ next = [p \in Participants |-> 0]
      /\ \A p \in Participants : dur[p] \in StepSizes[p]
      /\ known = [p \in Participants |-> {}]
      /\ other = [p \in Participants |-> [q \in Participants |-> NoTask]]
      /\ hoppedOn = [p \in Participants |-> FALSE] /\ lastSent = [p \in Participants |-> -1]
      /\ stopRequested = [p \in Participants |-> FALSE]
      /\ pauseRequested = [p \in Participants |-> FALSE]
      /\ Coordinated \subseteq Participants
  BY ParticipantsAssumption DEF Init
<1>3. \A p \in Participants : Orderly(p)
  BY <1>2 DEF Orderly
<1>4. \A x, y \in Participants : chan[x][y] = <<>> /\ other[y][x].tp = -1
  BY <1>2 DEF NoTask
<1>5. Unseen
  BY <1>2, <1>4 DEF Unseen, Says
<1>6. Gathered /\ Waits /\ Hopped /\ Tells
  BY <1>2 DEF Gathered, Waits, Hopped, Tells, Fresh
<1>7. Peace
  BY <1>2, <1>4 DEF Peace, Says
<1>8. Hovers /\ SteadyOf(chan, other, dur)
  BY <1>4 DEF Hovers, HoversIn, SteadyOf, SteadyQueue
<1> QED BY <1>3, <1>5, <1>6, <1>7, <1>8 DEF JoinInv

LEMMA JoinStep ==
  ASSUME OneJoins, Inv, Inv', Introduced, Introduced', JoinInv, Next
  PROVE  JoinInv' /\ Frame
<1>1. /\ \A x \in Participants : Orderly(x)
      /\ Unseen /\ Gathered /\ Hovers /\ SteadyOf(chan, other, dur)
  BY DEF JoinInv
<1>2. Frame
  BY <1>1, NextFrame
<1>3. \A x \in Participants : Orderly(x)'
  BY <1>1, <1>2, OrderlyStep
<1>4. Unseen' /\ Gathered' /\ Hovers' /\ SteadyOf(chan', other', dur')
  BY <1>1, <1>2, UnseenStep, GatheredStep, HoversStep, SteadyStep
<1>5. Peace' /\ Waits' /\ Hopped' /\ Tells'
  BY <1>2, PeaceStep, WaitsStep, HoppedStep, TellsStep
<1> QED BY <1>2, <1>3, <1>4, <1>5 DEF JoinInv

LEMMA JoinStutter ==
  ASSUME JoinInv, UNCHANGED vars
  PROVE  JoinInv'
BY DEF JoinInv, Orderly, Unseen, Gathered, Peace, Waits, Hopped, Hovers, Tells, Told, HoversIn,
       Called, Fresh, Present, Outside, SteadyOf, SteadyQueue, Says,
       vars, lifecycleVars, timeVars, viewVars

LEMMA JoinFacts ==
  ASSUME OneJoins, Inv, Inv', Introduced, JoinInv, Frame,
         NEW p \in Participants, cur[p] = -1, cur'[p] # -1,
         NEW q \in Participants, Present(q)
  PROVE  cur[q] <= cur'[p]
<1>1. /\ \A x \in Participants : Orderly(x)
      /\ Peace /\ Hopped /\ Tells /\ SteadyOf(chan, other, dur)
      /\ Coordinated \subseteq Participants
  BY ParticipantsAssumption DEF JoinInv
<1>2. /\ \A x \in Participants : cur[x] \in Nat \cup {-1} /\ next[x] \in Nat /\ dur[x] \in Nat
      /\ OwnTime
  BY Typing
<1>3. Turn(p)
  BY Clock DEF Same
<1>4. phase[p] = "Running" /\ Present(p)
  BY <1>3 DEF Turn, Present
<1>5. CASE q = p
  BY <1>5, Clock
<1>6. CASE q # p /\ Regular(p) /\ ~hoppedOn[p]
  <2>1. Fresh(p) /\ Ahead(p) = {} /\ cur'[p] = next[p] /\ next[p] = 0
    BY <1>2, <1>6, RegularTime DEF Regular, Fresh, OwnTime
  <2>2. ~(cur[q] > 0)
    BY <1>1, <1>4, <1>6, <2>1, RunningSees
  <2> QED BY <1>2, <2>1, <2>2
<1>7. CASE q # p /\ Regular(p) /\ hoppedOn[p]
  <2>1. p \in Coordinated
    BY <1>1, <1>7, Alone
  <2>2. cur[q] <= next[p]
    BY <1>1, <1>4, <1>7, <2>1 DEF Hopped
  <2> QED BY <1>7, <2>2, RegularTime
<1>8. ASSUME q # p, NEW t, Hops(p, t) PROVE cur[q] <= cur'[p]
  <2>1. p \notin Coordinated /\ cur'[p] = t /\ Fresh(p) /\ next[p] = 0
    BY <1>8, HopTime
  <2>2. /\ \A x \in Participants : ~hoppedOn[x] /\ Present(x)
        /\ \A x, y \in Coordinated : cur[x] <= next[y]
    BY <1>1, <2>1, Alone
  <2>3. \A x \in Participants : x # p => x \in Coordinated
    BY <2>1 DEF OneJoins
  <2>4. PICK z \in Ahead(p) : t = other'[p][z].tp
    BY <1>8 DEF Hops
  <2>5. z \in Participants
    BY Typing DEF Ahead, AlreadyAdvanced, Inv, ViewTypes
  <2>6. cur[z] > 0
    <3>1. ~(cur[z] <= 0)
      BY <1>1, <2>2, <2>4, <2>5, NotAhead
    <3> QED BY <1>2, <2>5, <3>1
  <2>7. z # p
    BY <2>6
  <2>8. t = next[z]
    BY <1>1, <1>4, <2>1, <2>2, <2>4, <2>5, <2>6, <2>7, RunningSees
  <2> QED BY <1>8, <2>1, <2>2, <2>3, <2>5, <2>7, <2>8
<1> QED BY <1>3, <1>5, <1>6, <1>7, <1>8 DEF Turn

(* A participant that joins late, and any other, executes its first step   *)
(* not before a step another one has already executed, however many        *)
(* coordinated participants there are, whatever the fixed sizes of their   *)
(* steps and however messages are delayed: the announcement repeated for   *)
(* it arrives before the reply that lets it start, and a participant that  *)
(* has been announced keeps the others from advancing.                     *)
THEOREM JoinsAdvanced ==
  ASSUME OneJoins PROVE Spec => JoinsAtAdvancedTime
<1>1. Init => JoinInv
  BY JoinInit
<1>2. Inv /\ Inv' /\ Introduced /\ Introduced' /\ JoinInv /\ [Next]_vars => JoinInv'
  BY JoinStep, JoinStutter
<1>3. Inv /\ Inv' /\ Introduced /\ Introduced' /\ JoinInv /\ [Next]_vars =>
        [\A p \in Participants :
           StepStarts(p) /\ cur[p] = -1 =>
             \A q \in Participants : phase[q] # "Off" => cur[q] <= cur'[p]]_vars
  <2> SUFFICES ASSUME Inv, Inv', Introduced, Introduced', JoinInv, Next,
                      NEW p \in Participants, StepStarts(p), cur[p] = -1,
                      NEW q \in Participants, phase[q] # "Off"
               PROVE  cur[q] <= cur'[p]
    OBVIOUS
  <2>1. Frame
    BY JoinStep
  <2>2. cur'[p] # -1
    BY StepFacts
  <2> QED BY <2>1, <2>2, JoinFacts DEF Present
<1> QED BY <1>1, <1>2, <1>3, InvHolds, IntroducedHolds, PTL DEF Spec, JoinsAtAdvancedTime

=============================================================================
