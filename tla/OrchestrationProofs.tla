------------------------ MODULE OrchestrationProofs ------------------------
(***************************************************************************)
(* Theorems about Orchestration, for any participants, operation modes,    *)
(* handlers, scripts and crashes.                                          *)
(***************************************************************************)
EXTENDS Orchestration, TLAPS

(* What a queue holds: x at all, x at most once, x ahead of every y. *)
Has(s, x) == \E i \in 1..Len(s) : s[i] = x
Once(s, x) == \A i, j \in 1..Len(s) : s[i] = x /\ s[j] = x => i = j
Before(s, x, y) == \A i \in 1..Len(s) : s[i] = y => \E j \in 1..(i - 1) : s[j] = x

ShutdownStatus == <<"Status", "Shutdown">>
FinalBarrier == <<"Barrier", "Final">>
CallToken == Job("Call")
ReplyToken == Job("Reply")
ReplyTo(p) == <<"Reply", p>>

(* The IO thread of a participant that has shut down, or is about to ask   *)
(* for its last barrier, is going to announce the shutdown first.          *)
Orderly(e) ==
  /\ e.state = "Shutdown" => Has(e.jobs, ShutdownStatus)
  /\ Before(e.jobs, ShutdownStatus, FinalBarrier)

(* Two participants that are both there. *)
Peers(p, q) == p # q /\ p \notin gone /\ q \notin gone

Known(p, q) == cache[q][p] = "Shutdown"
Told(p, q) == Known(p, q) \/ Has(chan[p][q], ShutdownStatus)

(* Only the end of a participant ends the connections of others to it. *)
ConnectedIn ==
  /\ \A p, q \in Participants : Peers(p, q) => q \in conn[p]
  /\ \A p, q \in Participants : Has(chan[q][p], Job("End")) => q \in gone

(* The barrier of p is at q in one place: the call is a job of p or a      *)
(* message to q, or the reply is a job of q or a message to p, and each of *)
(* these only once; and only while p expects q to reply.                   *)
OneToken(p, q) ==
  /\ Once(io[p].jobs, CallToken) /\ Once(chan[p][q], CallToken)
  /\ Once(io[q].jobs, ReplyTo(p)) /\ Once(chan[q][p], ReplyToken)
  /\ Has(io[p].jobs, CallToken) =>
       /\ ~Has(chan[p][q], CallToken) /\ ~Has(io[q].jobs, ReplyTo(p))
       /\ ~Has(chan[q][p], ReplyToken)
  /\ Has(chan[p][q], CallToken) => ~Has(io[q].jobs, ReplyTo(p)) /\ ~Has(chan[q][p], ReplyToken)
  /\ Has(io[q].jobs, ReplyTo(p)) => ~Has(chan[q][p], ReplyToken)
  /\ q \notin bar[p].expect =>
       /\ ~Has(io[p].jobs, CallToken) /\ ~Has(chan[p][q], CallToken)
       /\ ~Has(io[q].jobs, ReplyTo(p)) /\ ~Has(chan[q][p], ReplyToken)

(* The last barrier of p passes q behind the status Shutdown. *)
Passes(p, q) ==
  /\ Told(p, q) \/ Orderly(io[p])
  /\ bar[p].then = "Final" =>
       /\ Told(p, q)
       /\ Known(p, q) \/ Before(chan[p][q], ShutdownStatus, CallToken)
       /\ (Has(io[q].jobs, ReplyTo(p)) \/ Has(chan[q][p], ReplyToken) \/ q \notin bar[p].expect)
            => Known(p, q)

Tokens == \A p, q \in Participants : Peers(p, q) => OneToken(p, q)
LastBarrier == \A p, q \in Participants : Peers(p, q) => Passes(p, q)

(* FinalIsKnown, until the end of p is noticed. *)
Finished ==
  \A p, q \in Participants :
    p # q /\ q \notin gone /\ p \in conn[q] /\ io[p].final # NoStatus => Known(p, q)

BarrierTypes == \A p \in Participants : bar[p] = NoBarrier \/ bar[p].then \in Actions

Inv == TypeOK /\ BarrierTypes /\ ConnectedIn /\ Tokens /\ LastBarrier /\ Finished

-----------------------------------------------------------------------------
(* Queues. *)

LEMMA AppendHas ==
  ASSUME NEW S, NEW s \in Seq(S), NEW y \in S, NEW x
  PROVE  /\ Append(s, y) \in Seq(S)
         /\ Has(Append(s, y), x) <=> Has(s, x) \/ x = y
         /\ Once(s, x) /\ (x # y \/ ~Has(s, x)) => Once(Append(s, y), x)
<1>1. /\ Append(s, y) \in Seq(S) /\ Len(Append(s, y)) = Len(s) + 1 /\ Len(s) \in Nat
      /\ \A i \in 1..Len(s) : Append(s, y)[i] = s[i]
      /\ Append(s, y)[Len(s) + 1] = y
  OBVIOUS
<1>2. Has(Append(s, y), x) <=> Has(s, x) \/ x = y
  <2>1. ASSUME Has(Append(s, y), x) PROVE Has(s, x) \/ x = y
    BY <1>1, <2>1 DEF Has
  <2>2. ASSUME Has(s, x) PROVE Has(Append(s, y), x)
    BY <1>1, <2>2 DEF Has
  <2>3. ASSUME x = y PROVE Has(Append(s, y), x)
    BY <1>1, <2>3 DEF Has
  <2> QED
    BY <2>1, <2>2, <2>3
<1>3. ASSUME Once(s, x), x # y \/ ~Has(s, x) PROVE Once(Append(s, y), x)
  BY <1>1, <1>3 DEF Has, Once
<1> QED
  BY <1>1, <1>2, <1>3

LEMMA AppendBefore ==
  ASSUME NEW S, NEW s \in Seq(S), NEW z \in S, NEW x, NEW y,
         Before(s, x, y), z # y \/ Has(s, x)
  PROVE  Before(Append(s, z), x, y)
<1>1. /\ Len(Append(s, z)) = Len(s) + 1 /\ Len(s) \in Nat
      /\ \A i \in 1..Len(s) : Append(s, z)[i] = s[i]
      /\ Append(s, z)[Len(s) + 1] = z
  OBVIOUS
<1>2. SUFFICES ASSUME NEW i \in 1..(Len(s) + 1), Append(s, z)[i] = y
               PROVE  \E j \in 1..(i - 1) : Append(s, z)[j] = x
  BY <1>1 DEF Before
<1>3. CASE i \in 1..Len(s)
  <2>1. PICK j \in 1..(i - 1) : s[j] = x
    BY <1>1, <1>2, <1>3 DEF Before
  <2> QED
    BY <2>1, <1>1, <1>3
<1>4. CASE i = Len(s) + 1
  <2>1. PICK j \in 1..Len(s) : s[j] = x
    BY <1>1, <1>2, <1>4 DEF Has
  <2> QED
    BY <2>1, <1>1, <1>4
<1> QED
  BY <1>1, <1>2, <1>3, <1>4

LEMMA TailHas ==
  ASSUME NEW S, NEW s \in Seq(S), s # <<>>, NEW x
  PROVE  /\ Head(s) \in S /\ Tail(s) \in Seq(S)
         /\ Has(Tail(s), x) => Has(s, x)
         /\ Has(s, x) /\ Head(s) # x => Has(Tail(s), x)
         /\ Head(s) = x => Has(s, x)
         /\ Once(s, x) => Once(Tail(s), x)
         /\ Once(s, x) /\ Head(s) = x => ~Has(Tail(s), x)
<1>1. /\ Head(s) \in S /\ Tail(s) \in Seq(S) /\ Len(s) \in Nat /\ Len(s) > 0
      /\ Len(Tail(s)) = Len(s) - 1 /\ Head(s) = s[1]
      /\ \A i \in 1..(Len(s) - 1) : Tail(s)[i] = s[i + 1]
  OBVIOUS
<1>2. ASSUME Has(Tail(s), x) PROVE Has(s, x)
  BY <1>1, <1>2 DEF Has
<1>3. ASSUME Has(s, x), Head(s) # x PROVE Has(Tail(s), x)
  <2>1. PICK i \in 1..Len(s) : s[i] = x
    BY <1>3 DEF Has
  <2>2. i - 1 \in 1..(Len(s) - 1) /\ Tail(s)[i - 1] = x
    BY <1>1, <1>3, <2>1
  <2> QED
    BY <2>2, <1>1 DEF Has
<1>4. Head(s) = x => Has(s, x)
  BY <1>1 DEF Has
<1>5. ASSUME Once(s, x) PROVE Once(Tail(s), x)
  BY <1>1, <1>5 DEF Once
<1>6. ASSUME Once(s, x), Head(s) = x PROVE ~Has(Tail(s), x)
  BY <1>1, <1>6 DEF Once, Has
<1> QED
  BY <1>1, <1>2, <1>3, <1>4, <1>5, <1>6

LEMMA TailBefore ==
  ASSUME NEW S, NEW s \in Seq(S), s # <<>>, NEW x, NEW y, Before(s, x, y)
  PROVE  /\ Head(s) # y
         /\ Head(s) # x => Before(Tail(s), x, y)
<1>1. /\ Len(s) \in Nat /\ Len(s) > 0
      /\ Len(Tail(s)) = Len(s) - 1 /\ Head(s) = s[1]
      /\ \A i \in 1..(Len(s) - 1) : Tail(s)[i] = s[i + 1]
  OBVIOUS
<1>2. Head(s) # y
  BY <1>1 DEF Before
<1>3. ASSUME Head(s) # x, NEW i \in 1..(Len(s) - 1), Tail(s)[i] = y
      PROVE  \E j \in 1..(i - 1) : Tail(s)[j] = x
  <2>1. PICK j \in 1..i : s[j] = x
    BY <1>1, <1>3 DEF Before
  <2>2. j - 1 \in 1..(i - 1) /\ Tail(s)[j - 1] = x
    BY <1>1, <1>3, <2>1
  <2> QED
    BY <2>2
<1> QED
  BY <1>1, <1>2, <1>3 DEF Before

(* An empty queue holds nothing. *)
LEMMA EmptyHas ==
  ASSUME NEW x, NEW y
  PROVE  ~Has(<<>>, x) /\ Once(<<>>, x) /\ Before(<<>>, x, y)
BY DEF Has, Once, Before

-----------------------------------------------------------------------------
(* The state machine. *)

JobTokens == {CallToken} \cup {ReplyTo(p) : p \in Participants}

(* n has no part of a barrier that e did not have, and is orderly as e is. *)
Quiet(e, n) ==
  /\ \A t \in JobTokens : Has(n.jobs, t) => Has(e.jobs, t)
  /\ \A t \in JobTokens : Once(e.jobs, t) => Once(n.jobs, t)
  /\ Orderly(e) => Orderly(n)

Follows(e, n) == n \in LifecycleRecord /\ Quiet(e, n) /\ n.final = e.final

(* Every status and the barriers of the state machine are jobs, none of    *)
(* them a token.                                                           *)
LEMMA JobTypes ==
  /\ \A s \in ParticipantStates : <<"Status", s>> \in Jobs /\ <<"Status", s>> \notin JobTokens
  /\ \A a \in Actions : <<"Barrier", a>> \in Jobs /\ <<"Barrier", a>> \notin JobTokens
  /\ \A name \in {"Initialize", "StartAutonomous", "CompleteReady", "Register", "Command",
                  "Pause", "Continue", "Stop", "Error", "Abort"} :
       Job(name) \in Jobs /\ Job(name) \notin JobTokens
  /\ CallToken \in Jobs
  /\ \A p \in Participants : ReplyTo(p) \in Jobs
BY DEF Jobs, Job, JobTokens, CallToken, ReplyTo, Actions

LEMMA SelfFollows ==
  ASSUME NEW e \in LifecycleRecord
  PROVE  Follows(e, e)
BY DEF Follows, Quiet

LEMMA FollowsTransitive ==
  ASSUME NEW d, NEW e, NEW n, Follows(d, e), Follows(e, n)
  PROVE  Follows(d, n)
BY DEF Follows, Quiet

(* Nothing but the jobs, the state and the future matter. *)
LEMMA FieldFollows ==
  ASSUME NEW e, NEW n \in LifecycleRecord,
         n.jobs = e.jobs, n.state = e.state, n.final = e.final
  PROVE  Follows(e, n)
BY DEF Follows, Quiet, Orderly

LEMMA DeferStep ==
  ASSUME NEW e \in LifecycleRecord, NEW job \in Jobs, job \notin JobTokens,
         job = FinalBarrier => e.state = "Shutdown"
  PROVE  /\ Follows(e, Defer(e, job))
         /\ Defer(e, job).state = e.state /\ Defer(e, job).jobs = Append(e.jobs, job)
<1> DEFINE n == Defer(e, job)
<1>1. /\ n \in LifecycleRecord /\ n.state = e.state /\ n.final = e.final
      /\ n.jobs = Append(e.jobs, job) /\ e.jobs \in Seq(Jobs)
  BY DEF LifecycleRecord, Defer
<1> HIDE DEF n
<1>2. \A t \in JobTokens :
        (Has(n.jobs, t) => Has(e.jobs, t)) /\ (Once(e.jobs, t) => Once(n.jobs, t))
  BY <1>1, AppendHas
<1>3. ASSUME Orderly(e) PROVE Orderly(n)
  <2>1. Before(n.jobs, ShutdownStatus, FinalBarrier)
    BY <1>1, <1>3, AppendBefore DEF Orderly
  <2>2. Has(e.jobs, ShutdownStatus) => Has(n.jobs, ShutdownStatus)
    BY <1>1, AppendHas
  <2> QED
    BY <2>1, <2>2, <1>1, <1>3 DEF Orderly
<1>4. Follows(e, n) /\ n.state = e.state /\ n.jobs = Append(e.jobs, job)
  BY <1>1, <1>2, <1>3 DEF Follows, Quiet
<1> QED
  BY <1>4 DEF n

LEMMA EnterStep ==
  ASSUME NEW e \in LifecycleRecord, NEW s \in ParticipantStates
  PROVE  /\ Follows(e, Enter(e, s)) /\ Enter(e, s) \in LifecycleRecord
         /\ Enter(e, s).state = s
<1> DEFINE n == Enter(e, s)
           job == <<"Status", s>>
<1>2. job \in Jobs /\ job \notin JobTokens /\ job # FinalBarrier
  BY JobTypes DEF FinalBarrier
<1>3. s = "Shutdown" => job = ShutdownStatus
  BY DEF ShutdownStatus
<1>0. n = [e EXCEPT !.state = s, !.jobs = Append(@, job)]
  BY DEF Enter
<1> HIDE DEF n, job
<1>1. /\ n \in LifecycleRecord /\ n.state = s /\ n.final = e.final
      /\ n.jobs = Append(e.jobs, job) /\ e.jobs \in Seq(Jobs)
  <2>1. e.jobs \in Seq(Jobs)
    BY DEF LifecycleRecord
  <2>2. Append(e.jobs, job) \in Seq(Jobs)
    BY <2>1, <1>2
  <2>3. n.state = s /\ n.final = e.final /\ n.jobs = Append(e.jobs, job)
    BY <1>0 DEF LifecycleRecord
  <2>4. n \in LifecycleRecord
    BY <1>0, <2>2 DEF LifecycleRecord
  <2> QED
    BY <2>1, <2>3, <2>4
<1>4. \A t \in JobTokens :
        (Has(n.jobs, t) => Has(e.jobs, t)) /\ (Once(e.jobs, t) => Once(n.jobs, t))
  BY <1>1, <1>2, AppendHas
<1>5. ASSUME Orderly(e) PROVE Orderly(n)
  <2>1. Before(n.jobs, ShutdownStatus, FinalBarrier)
    BY <1>1, <1>2, <1>5, AppendBefore DEF Orderly
  <2>2. s = "Shutdown" => Has(n.jobs, ShutdownStatus)
    BY <1>1, <1>2, <1>3, AppendHas
  <2> QED
    BY <2>1, <2>2, <1>1 DEF Orderly
<1>6. Follows(e, n) /\ n \in LifecycleRecord /\ n.state = s
  BY <1>1, <1>4, <1>5 DEF Follows, Quiet
<1> QED
  BY <1>6 DEF n

LEMMA ToErrorStep ==
  ASSUME NEW e \in LifecycleRecord
  PROVE  Follows(e, ToError(e))
BY EnterStep, SelfFollows DEF ToError, ParticipantStates

(* The names of the states are states. *)
LEMMA StateNames ==
  {"Invalid", "ServicesCreated", "CommunicationInitializing", "CommunicationInitialized",
   "ReadyToRun", "Running", "Paused", "Stopping", "Stopped", "ShuttingDown", "Shutdown",
   "Error", "Aborting"} \subseteq ParticipantStates
BY DEF ParticipantStates, StartingStates

LEMMA InitializeStep ==
  ASSUME NEW e \in LifecycleRecord
  PROVE  Follows(e, Initialize(e))
BY EnterStep, ToErrorStep, StateNames DEF Initialize

LEMMA FollowsTypes ==
  ASSUME NEW e, NEW n, Follows(e, n)
  PROVE  n \in LifecycleRecord
BY DEF Follows

LEMMA ReadyToRunStep ==
  ASSUME NEW p, NEW e \in LifecycleRecord, NEW n \in ReadyToRun(p, e)
  PROVE  Follows(e, n)
BY EnterStep, ToErrorStep, SelfFollows, StateNames DEF ReadyToRun, IfFaulty

LEMMA CompleteReadyStep ==
  ASSUME NEW p, NEW e \in LifecycleRecord, NEW n \in CompleteCommunicationReadyHandler(p, e)
  PROVE  Follows(e, n)
<1>1. CASE e.state # "CommunicationInitialized"
  BY <1>1, ToErrorStep DEF CompleteCommunicationReadyHandler
<1>2. CASE e.state = "CommunicationInitialized"
  <2>1. PICK i \in LifecycleRecord : i = Enter(e, "ReadyToRun")
    BY EnterStep, StateNames
  <2>2. Follows(e, i)
    BY <2>1, EnterStep, StateNames
  <2>3. n = i \/ n \in ReadyToRun(p, i)
    BY <1>2, <2>1 DEF CompleteCommunicationReadyHandler
  <2> QED
    BY <2>2, <2>3, ReadyToRunStep, FollowsTransitive
<1> QED
  BY <1>1, <1>2

LEMMA TriggerReadyStep ==
  ASSUME NEW p, NEW e \in LifecycleRecord, NEW n \in TriggerCommunicationReadyHandler(p, e)
  PROVE  Follows(e, n)
<1>1. CASE p \in AsyncReady
  <2>1. PICK i : i = [e EXCEPT !.ready = IF @ = "no" THEN "invoked" ELSE @]
    OBVIOUS
  <2>2. i \in LifecycleRecord /\ i.jobs = e.jobs /\ i.state = e.state /\ i.final = e.final
    BY <2>1 DEF LifecycleRecord
  <2>3. Follows(e, i) /\ Follows(i, Enter(i, "Error"))
    BY <2>2, FieldFollows, EnterStep, StateNames
  <2>4. n = i \/ n = Enter(i, "Error")
    BY <1>1, <2>1 DEF TriggerCommunicationReadyHandler, IfFaulty
  <2> QED
    BY <2>3, <2>4, FollowsTransitive
<1>2. CASE p \notin AsyncReady
  BY <1>2, CompleteReadyStep, EnterStep, StateNames
     DEF TriggerCommunicationReadyHandler, IfFaulty
<1> QED
  BY <1>1, <1>2

LEMMA CommunicationInitializedStep ==
  ASSUME NEW p, NEW e \in LifecycleRecord, NEW n \in CommunicationInitialized(p, e)
  PROVE  Follows(e, n)
BY TriggerReadyStep, ToErrorStep, SelfFollows DEF CommunicationInitialized

LEMMA SubscriptionsStep ==
  ASSUME NEW p, NEW e \in LifecycleRecord, NEW n \in SubscriptionsCompleted(p, e)
  PROVE  Follows(e, n)
<1>1. PICK w : w = [e EXCEPT !.waits = FALSE]
  OBVIOUS
<1>2. w \in LifecycleRecord /\ w.jobs = e.jobs /\ w.state = e.state /\ w.final = e.final
  BY <1>1 DEF LifecycleRecord
<1>3. PICK i : i = Enter(w, "CommunicationInitialized")
  OBVIOUS
<1>4. Follows(e, w) /\ Follows(w, i) /\ i \in LifecycleRecord
  BY <1>2, <1>3, FieldFollows, EnterStep, StateNames
<1>5. n = i \/ n \in CommunicationInitialized(p, i)
  BY <1>1, <1>3 DEF SubscriptionsCompleted
<1> QED
  BY <1>4, <1>5, CommunicationInitializedStep, FollowsTransitive

LEMMA AsyncSubscriptionsStep ==
  ASSUME NEW p, NEW e \in LifecycleRecord, NEW n \in AsyncSubscriptionsCompleted(p, e)
  PROVE  Follows(e, n)
<1>1. PICK i \in IF e.waits THEN SubscriptionsCompleted(p, e) ELSE {e} :
           n = [i EXCEPT !.pending = FALSE]
  BY DEF AsyncSubscriptionsCompleted
<1>2. Follows(e, i) /\ i \in LifecycleRecord
  BY <1>1, SubscriptionsStep, SelfFollows, FollowsTypes
<1>3. n \in LifecycleRecord /\ n.jobs = i.jobs /\ n.state = i.state /\ n.final = i.final
  BY <1>1, <1>2 DEF LifecycleRecord
<1> QED
  BY <1>2, <1>3, FieldFollows, FollowsTransitive

LEMMA CommunicationInitializingStep ==
  ASSUME NEW p, NEW e \in LifecycleRecord, NEW n \in CommunicationInitializing(p, e)
  PROVE  Follows(e, n)
<1>1. CASE e.pending
  <2>1. n = [e EXCEPT !.waits = TRUE]
    BY <1>1 DEF CommunicationInitializing
  <2>2. n \in LifecycleRecord /\ n.jobs = e.jobs /\ n.state = e.state /\ n.final = e.final
    BY <2>1 DEF LifecycleRecord
  <2> QED
    BY <2>2, FieldFollows
<1>2. CASE ~e.pending
  BY <1>2, SubscriptionsStep DEF CommunicationInitializing
<1> QED
  BY <1>1, <1>2

(* The two barriers asked for while the state machine does not shut down. *)
LEMMA BarrierDeferred ==
  ASSUME NEW e \in LifecycleRecord, NEW a \in {"Start", "Shutdown"}
  PROVE  Follows(e, Defer(e, <<"Barrier", a>>))
<1>1. a \in Actions
  BY DEF Actions
<1>2. PICK job : job = <<"Barrier", a>>
  OBVIOUS
<1>3. job # FinalBarrier
  BY <1>2 DEF FinalBarrier
<1>4. job \in Jobs /\ job \notin JobTokens
  BY <1>1, <1>2, JobTypes
<1> QED
  BY <1>2, <1>3, <1>4, DeferStep

LEMMA FinalDeferred ==
  ASSUME NEW e \in LifecycleRecord, e.state = "Shutdown"
  PROVE  Follows(e, Defer(e, <<"Barrier", "Final">>))
<1>1. <<"Barrier", "Final">> \in Jobs /\ <<"Barrier", "Final">> \notin JobTokens
  BY JobTypes DEF Actions
<1>2. PICK job : job = <<"Barrier", "Final">>
  OBVIOUS
<1> QED
  BY <1>1, <1>2, DeferStep

LEMMA ServicesCreatedStep ==
  ASSUME NEW p, NEW e \in LifecycleRecord, NEW n \in ServicesCreated(p, e)
  PROVE  Follows(e, n)
BY BarrierDeferred, CommunicationInitializingStep, ToErrorStep DEF ServicesCreated

LEMMA ShutdownStep ==
  ASSUME NEW e \in LifecycleRecord
  PROVE  Follows(e, ShutdownParticipant(e))
<1>1. CASE e.state \in {"Stopped", "Error"}
  <2>1. PICK d : d = Enter(e, "ShuttingDown")
    OBVIOUS
  <2>2. Follows(e, d) /\ d \in LifecycleRecord
    BY <2>1, EnterStep, StateNames
  <2>3. PICK i : i = Enter(d, "Shutdown")
    OBVIOUS
  <2>4. Follows(d, i) /\ i \in LifecycleRecord /\ i.state = "Shutdown"
    BY <2>2, <2>3, EnterStep, StateNames
  <2>5. ShutdownParticipant(e) = Defer(i, <<"Barrier", "Final">>)
    BY <1>1, <2>1, <2>3 DEF ShutdownParticipant
  <2>6. Follows(i, Defer(i, <<"Barrier", "Final">>))
    BY <2>4, FinalDeferred
  <2> QED
    BY <2>2, <2>4, <2>5, <2>6, FollowsTransitive
<1>2. CASE e.state = "Shutdown"
  BY <1>2, FinalDeferred DEF ShutdownParticipant
<1>3. CASE e.state \notin {"Stopped", "Error", "Shutdown"}
  BY <1>3, ToErrorStep DEF ShutdownParticipant
<1> QED
  BY <1>1, <1>2, <1>3

LEMMA StopStep ==
  ASSUME NEW p, NEW e \in LifecycleRecord, NEW n \in StopSimulation(p, e)
  PROVE  Follows(e, n)
<1>1. CASE e.state \in {"Running", "Paused"}
  <2>1. PICK s : s = Enter(e, "Stopping")
    OBVIOUS
  <2>2. Follows(e, s) /\ s \in LifecycleRecord
    BY <2>1, EnterStep, StateNames
  <2>3. PICK i : i = Enter(s, "Stopped")
    OBVIOUS
  <2>4. Follows(s, i) /\ i \in LifecycleRecord /\ Follows(s, Enter(s, "Error"))
    BY <2>2, <2>3, EnterStep, StateNames
  <2>5. n = Defer(i, <<"Barrier", "Shutdown">>) \/ n = Enter(s, "Error")
    BY <1>1, <2>1, <2>3 DEF StopSimulation, IfFaulty
  <2>6. Follows(i, Defer(i, <<"Barrier", "Shutdown">>))
    BY <2>4, BarrierDeferred
  <2>7. CASE n = Defer(i, <<"Barrier", "Shutdown">>)
    <3>1. Follows(e, i)
      BY <2>2, <2>4, FollowsTransitive
    <3> QED
      BY <3>1, <2>6, <2>7, FollowsTransitive
  <2> QED
    BY <2>2, <2>4, <2>5, <2>7, FollowsTransitive
<1>2. CASE e.state \notin {"Running", "Paused"}
  BY <1>2, BarrierDeferred, ShutdownStep, SelfFollows DEF StopSimulation
<1> QED
  BY <1>1, <1>2

LEMMA AbortStep ==
  ASSUME NEW e \in LifecycleRecord
  PROVE  Follows(e, AbortSimulation(e))
<1>1. PICK d : d = Enter(e, "Aborting")
  OBVIOUS
<1>2. Follows(e, d) /\ d \in LifecycleRecord
  BY <1>1, EnterStep, StateNames
<1>3. PICK i : i = Enter(d, "Shutdown")
  OBVIOUS
<1>4. Follows(d, i) /\ i \in LifecycleRecord /\ i.state = "Shutdown"
  BY <1>2, <1>3, EnterStep, StateNames
<1>5. Follows(i, Defer(i, <<"Barrier", "Final">>))
  BY <1>4, FinalDeferred
<1>6. CASE e.state = "Shutdown"
  BY <1>6, SelfFollows DEF AbortSimulation
<1>7. CASE e.state # "Shutdown"
  <2>1. Follows(e, i)
    BY <1>2, <1>4, FollowsTransitive
  <2>2. AbortSimulation(e) = Defer(i, <<"Barrier", "Final">>)
    BY <1>1, <1>3, <1>7 DEF AbortSimulation
  <2> QED
    BY <2>1, <2>2, <1>5, FollowsTransitive
<1> QED
  BY <1>6, <1>7

(* The completion of a barrier; that of the last one sets the future. *)
LEMMA CompleteStep ==
  ASSUME NEW p, NEW e \in LifecycleRecord, NEW a \in Actions, NEW n \in Complete(p, e, a)
  PROVE  /\ n \in LifecycleRecord /\ Quiet(e, n)
         /\ a # "Final" => n.final = e.final
<1>1. CASE a = "Start"
  <2>1. PICK i : i = Enter(e, "CommunicationInitializing")
    OBVIOUS
  <2>2. Follows(e, i) /\ i \in LifecycleRecord
    BY <2>1, EnterStep, StateNames
  <2>3. n \in CommunicationInitializing(p, i)
    BY <1>1, <2>1 DEF Complete
  <2>4. Follows(e, n)
    BY <2>2, <2>3, CommunicationInitializingStep, FollowsTransitive
  <2> QED
    BY <2>4 DEF Follows
<1>2. CASE a = "Shutdown"
  <2>1. Follows(e, n)
    BY <1>2, ShutdownStep DEF Complete
  <2> QED
    BY <2>1 DEF Follows
<1>3. CASE a = "Final"
  <2>1. n = SetFinalStatePromise(e)
    BY <1>3 DEF Complete
  <2>2. n \in LifecycleRecord /\ n.jobs = e.jobs /\ n.state = e.state
    BY <2>1 DEF SetFinalStatePromise, LifecycleRecord
  <2> QED
    BY <1>3, <2>2 DEF Quiet, Orderly
<1> QED
  BY <1>1, <1>2, <1>3 DEF Actions

LEMMA NewSystemStateStep ==
  ASSUME NEW p, NEW e \in LifecycleRecord, NEW s, NEW n \in NewSystemState(p, e, s)
  PROVE  Follows(e, n)
<1>1. \/ n = e \/ n \in ServicesCreated(p, e) \/ n \in CommunicationInitialized(p, e)
      \/ n \in ReadyToRun(p, e) \/ n \in StopSimulation(p, e)
  BY DEF NewSystemState
<1> QED
  BY <1>1, SelfFollows, ServicesCreatedStep, CommunicationInitializedStep, ReadyToRunStep,
     StopStep

-----------------------------------------------------------------------------
(* The system state. *)

LEMMA CandidateTypes ==
  ASSUME NEW s
  PROVE  /\ DOMAIN Candidates(s) \subseteq 1..5
         /\ \A i \in DOMAIN Candidates(s) : Candidates(s)[i][1] \in ParticipantStates
<1>1. CASE s \in {"ServicesCreated", "CommunicationInitializing", "CommunicationInitialized",
                  "ReadyToRun"}
  BY <1>1, StateNames DEF Candidates
<1>2. CASE s = "Running"
  BY <1>2, StateNames DEF Candidates
<1>3. CASE s = "Paused"
  BY <1>3, StateNames DEF Candidates
<1>4. CASE s \in {"Stopping", "Stopped", "ShuttingDown", "Shutdown"}
  BY <1>4, StateNames DEF Candidates
<1>5. CASE s \in {"Aborting", "Error"}
  BY <1>5, StateNames DEF Candidates
<1>6. CASE s \notin {"ServicesCreated", "CommunicationInitializing", "CommunicationInitialized",
                     "ReadyToRun", "Running", "Paused", "Stopping", "Stopped", "ShuttingDown",
                     "Shutdown", "Aborting", "Error"}
  BY <1>6 DEF Candidates
<1> QED
  BY <1>1, <1>2, <1>3, <1>4, <1>5, <1>6

LEMMA LeastIndex ==
  ASSUME NEW A \in SUBSET (1..5), A # {}
  PROVE  \E i \in A : \A j \in A : i <= j
<1>1. CASE 1 \in A
  BY <1>1
<1>2. CASE 1 \notin A /\ 2 \in A
  BY <1>2
<1>3. CASE 1 \notin A /\ 2 \notin A /\ 3 \in A
  BY <1>3
<1>4. CASE 1 \notin A /\ 2 \notin A /\ 3 \notin A /\ 4 \in A
  BY <1>4
<1>5. CASE 1 \notin A /\ 2 \notin A /\ 3 \notin A /\ 4 \notin A
  <2>1. \A i \in A : i = 5
    BY <1>5
  <2>2. PICK i \in A : TRUE
    OBVIOUS
  <2>3. i = 5 /\ \A j \in A : i <= j
    BY <2>1
  <2> QED
    BY <2>3
<1> QED
  BY <1>1, <1>2, <1>3, <1>4, <1>5

(* ComputeSystemState returns a state. *)
LEMMA SystemStateType ==
  ASSUME NEW c, NEW required, NEW old \in ParticipantStates, NEW s
  PROVE  ComputeSystemState(c, required, old, s) \in ParticipantStates
<1>1. PICK list : list = Candidates(s)
  OBVIOUS
<1>2. PICK A : A = {i \in DOMAIN list : AllIn(c, required, list[i][2])}
  OBVIOUS
<1>3. PICK f : f = CHOOSE i \in A : \A j \in A : i <= j
  OBVIOUS
<1>4. CASE A # {}
  <2>1. A \in SUBSET (1..5)
    BY <1>1, <1>2, CandidateTypes
  <2>2. f \in A
    BY <1>3, <1>4, <2>1, LeastIndex
  <2>3. ComputeSystemState(c, required, old, s) = list[f][1]
    BY <1>1, <1>2, <1>3, <1>4 DEF ComputeSystemState
  <2> QED
    BY <1>1, <1>2, <2>2, <2>3, CandidateTypes
<1>5. CASE A = {}
  <2>1. ComputeSystemState(c, required, old, s) \in {old, StateOfNobody(old)}
    BY <1>1, <1>2, <1>5 DEF ComputeSystemState
  <2>2. StateOfNobody(old) \in ParticipantStates
    BY StateNames DEF StateOfNobody
  <2> QED
    BY <2>1, <2>2
<1> QED
  BY <1>4, <1>5

LEMMA AfterType ==
  ASSUME NEW c, NEW old \in ParticipantStates, NEW q, NEW s
  PROVE  SystemStateAfter(c, old, q, s) \in ParticipantStates
BY SystemStateType DEF SystemStateAfter

LEMMA WithoutType ==
  ASSUME NEW c, NEW old \in ParticipantStates, NEW q
  PROVE  SystemStateWithout(c, old, q) \in ParticipantStates
BY SystemStateType DEF SystemStateWithout

-----------------------------------------------------------------------------
(* What a step keeps. *)

(* t has no part of a barrier that s did not have. *)
NoNew(s, t, x) == (Has(t, x) => Has(s, x)) /\ (Once(s, x) => Once(t, x))

(* The announcement in s is in t as well, ahead of the call. *)
KeepsOrder(s, t) ==
  /\ Has(s, ShutdownStatus) => Has(t, ShutdownStatus)
  /\ Before(s, ShutdownStatus, CallToken) => Before(t, ShutdownStatus, CallToken)

TokensKept(p, q) ==
  /\ NoNew(io[p].jobs, io[p].jobs', CallToken)
  /\ NoNew(io[q].jobs, io[q].jobs', ReplyTo(p))
  /\ NoNew(chan[p][q], chan[p][q]', CallToken)
  /\ NoNew(chan[q][p], chan[q][p]', ReplyToken)

OrderKept(p, q) ==
  /\ Known(p, q) => Known(p, q)'
  /\ Known(p, q)' \/ KeepsOrder(chan[p][q], chan[p][q]')
  /\ Told(p, q)' \/ (Orderly(io[p]) => Orderly(io[p]'))

LEMMA PairKept ==
  ASSUME NEW p \in Participants, NEW q \in Participants,
         OneToken(p, q), Passes(p, q), TokensKept(p, q), OrderKept(p, q), bar[p]' = bar[p]
  PROVE  OneToken(p, q)' /\ Passes(p, q)'
<1>1. OneToken(p, q)'
  BY DEF OneToken, TokensKept, NoNew
<1>2. Told(p, q) => Told(p, q)'
  BY DEF Told, OrderKept, KeepsOrder
<1>3. Told(p, q)' \/ Orderly(io[p])'
  BY <1>2 DEF Passes, OrderKept
<1>4. ASSUME bar[p].then = "Final"
      PROVE  /\ Told(p, q)'
             /\ Known(p, q)' \/ Before(chan[p][q], ShutdownStatus, CallToken)'
             /\ (Has(io[q].jobs, ReplyTo(p)) \/ Has(chan[q][p], ReplyToken)
                   \/ q \notin bar[p].expect)' => Known(p, q)'
  BY <1>2, <1>4 DEF Passes, OrderKept, TokensKept, NoNew, KeepsOrder
<1> QED
  BY <1>1, <1>3, <1>4 DEF Passes

(* A step that neither starts nor continues a barrier. *)
LEMMA Frame ==
  ASSUME Inv, TypeOK', UNCHANGED <<bar, conn>>, gone \subseteq gone',
         \A x, y \in Participants :
           Has(chan[x][y]', Job("End")) => Has(chan[x][y], Job("End")) \/ x \in gone',
         \A x, y \in Participants : Peers(x, y)' => TokensKept(x, y) /\ OrderKept(x, y),
         \A x \in Participants : io[x].final' = io[x].final,
         \A x, y \in Participants : Known(x, y) => Known(x, y)'
  PROVE  Inv'
<1>1. BarrierTypes'
  BY DEF Inv, BarrierTypes
<1>2. ConnectedIn'
  <2>1. \A x, y \in Participants : Peers(x, y)' => Peers(x, y)
    BY DEF Peers
  <2>2. \A x, y \in Participants : Peers(x, y)' => y \in conn[x]'
    BY <2>1 DEF Inv, ConnectedIn
  <2>3. \A x, y \in Participants : Has(chan[y][x], Job("End"))' => y \in gone'
    BY DEF Inv, ConnectedIn
  <2> QED
    BY <2>2, <2>3 DEF ConnectedIn
<1>3. ASSUME NEW x \in Participants, NEW y \in Participants, Peers(x, y)'
      PROVE  OneToken(x, y)' /\ Passes(x, y)'
  <2>1. Peers(x, y)
    BY <1>3 DEF Peers
  <2>2. OneToken(x, y) /\ Passes(x, y)
    BY <2>1 DEF Inv, Tokens, LastBarrier
  <2>3. bar[x]' = bar[x]
    OBVIOUS
  <2>4. TokensKept(x, y) /\ OrderKept(x, y)
    BY <1>3
  <2> QED
    BY <2>2, <2>3, <2>4, PairKept
<1>4. Tokens' /\ LastBarrier'
  BY <1>3 DEF Tokens, LastBarrier
<1>5. Finished'
  BY DEF Inv, Finished
<1> QED
  BY <1>1, <1>2, <1>4, <1>5 DEF Inv

LEMMA NoNewSelf ==
  ASSUME NEW s, NEW x
  PROVE  NoNew(s, s, x) /\ KeepsOrder(s, s)
BY DEF NoNew, KeepsOrder

LEMMA FollowsKeeps ==
  ASSUME NEW e, NEW n, Follows(e, n), NEW p \in Participants
  PROVE  /\ NoNew(e.jobs, n.jobs, CallToken) /\ NoNew(e.jobs, n.jobs, ReplyTo(p))
         /\ Orderly(e) => Orderly(n)
BY DEF Follows, Quiet, NoNew, JobTokens

(* Whoever is not concerned by a change of one IO thread. *)
LEMMA OneIo ==
  ASSUME TypeOK, NEW p \in Participants, NEW n \in LifecycleRecord, io' = [io EXCEPT ![p] = n]
  PROVE  /\ io' \in [Participants -> LifecycleRecord]
         /\ io'[p] = n
         /\ \A x \in Participants : x # p => io'[x] = io[x]
BY DEF TypeOK

(* A step of the state machine alone. *)
LEMMA IoOnly ==
  ASSUME Inv, NEW p \in Participants, NEW n, Follows(io[p], n), io' = [io EXCEPT ![p] = n],
         life' \in [Participants -> Lives], todo' \subseteq todo,
         UNCHANGED <<bar, acks, cache, sys, conn, chan, gone>>
  PROVE  Inv'
<1>1. TypeOK /\ n \in LifecycleRecord
  BY DEF Inv, Follows
<1>2. io' \in [Participants -> LifecycleRecord] /\ io'[p] = n
      /\ \A x \in Participants : x # p => io'[x] = io[x]
  BY <1>1, OneIo
<1>3. TypeOK'
  BY <1>1, <1>2 DEF TypeOK
<1>4. \A x \in Participants : Follows(io[x], io'[x])
  <2>1. \A x \in Participants : io[x] \in LifecycleRecord
    BY <1>1 DEF TypeOK
  <2> QED
    BY <1>2, <2>1, SelfFollows
<1>5. \A x, y \in Participants : TokensKept(x, y) /\ OrderKept(x, y)
  BY <1>4, FollowsKeeps, NoNewSelf DEF TokensKept, OrderKept, Known
<1>6. \A x \in Participants : io[x].final' = io[x].final
  BY <1>4 DEF Follows
<1>7. \A x, y \in Participants : Known(x, y) => Known(x, y)'
  BY DEF Known
<1> QED
  BY <1>3, <1>5, <1>6, <1>7, Frame

(* The IO thread is done with a job. *)
LEMMA DoneStep ==
  ASSUME TypeOK, NEW p \in Participants, io[p].jobs # <<>>
  PROVE  /\ Done(p) \in LifecycleRecord /\ Done(p).final = io[p].final
         /\ Done(p).state = io[p].state
         /\ Done(p).jobs = Tail(io[p].jobs) /\ io[p].jobs \in Seq(Jobs)
         /\ Head(io[p].jobs) # ShutdownStatus => Follows(io[p], Done(p))
<1>1. io[p] \in LifecycleRecord
  BY DEF TypeOK
<1>2. PICK e \in LifecycleRecord : e = io[p]
  BY <1>1
<1>3. e.jobs \in Seq(Jobs) /\ e.jobs # <<>>
  BY <1>2 DEF LifecycleRecord
<1>4. PICK n : n = Done(p)
  OBVIOUS
<1>5. n = [e EXCEPT !.jobs = Tail(@)]
  BY <1>2, <1>4 DEF Done
<1>6. Tail(e.jobs) \in Seq(Jobs)
  BY <1>3
<1>7. n \in LifecycleRecord /\ n.final = e.final /\ n.state = e.state /\ n.jobs = Tail(e.jobs)
  BY <1>5, <1>6 DEF LifecycleRecord
<1>8. \A t \in JobTokens :
        (Has(n.jobs, t) => Has(e.jobs, t)) /\ (Once(e.jobs, t) => Once(n.jobs, t))
  BY <1>3, <1>7, TailHas
<1>9. ASSUME Head(e.jobs) # ShutdownStatus, Orderly(e) PROVE Orderly(n)
  BY <1>3, <1>7, <1>9, TailHas, TailBefore DEF Orderly
<1> QED
  BY <1>2, <1>3, <1>4, <1>7, <1>8, <1>9 DEF Follows, Quiet

LEMMA NextJobStep ==
  ASSUME Inv, NEW p \in Participants, NEW name, NextJob(p, name), name # "Status"
  PROVE  Follows(io[p], Done(p)) /\ Done(p) \in LifecycleRecord
<1>1. TypeOK /\ io[p].jobs # <<>> /\ Head(io[p].jobs) # ShutdownStatus
  BY DEF Inv, NextJob, ShutdownStatus
<1> QED
  BY <1>1, DoneStep

(* A job that only concerns the state machine. *)
LEMMA LifecycleStep ==
  ASSUME Inv, NEW p \in Participants, NEW name, NextJob(p, name), name # "Status",
         NEW outcomes, Lifecycle(p, outcomes),
         \A n \in outcomes : Follows(Done(p), n)
  PROVE  Inv'
<1>1. PICK n \in outcomes : io' = [io EXCEPT ![p] = n]
  BY DEF Lifecycle
<1>2. Follows(io[p], n)
  BY NextJobStep, FollowsTransitive
<1>3. /\ life' \in [Participants -> Lives] /\ todo' \subseteq todo
      /\ UNCHANGED <<bar, acks, cache, sys, conn, chan, gone>>
  BY DEF Lifecycle, monitorVars, Inv, TypeOK
<1> QED
  BY <1>1, <1>2, <1>3, IoOnly

(* A plain job is deferred. *)
LEMMA PlainDeferred ==
  ASSUME NEW e \in LifecycleRecord,
         NEW name \in {"Initialize", "StartAutonomous", "CompleteReady", "Register", "Command",
                       "Pause", "Continue", "Stop", "Error", "Abort"}
  PROVE  Follows(e, Defer(e, Job(name))) /\ Defer(e, Job(name)) \in LifecycleRecord
<1>1. PICK job : job = Job(name)
  OBVIOUS
<1>2. job \in Jobs /\ job \notin JobTokens
  BY <1>1, JobTypes
<1>3. job # FinalBarrier
  BY <1>1 DEF Job, FinalBarrier
<1> QED
  BY <1>1, <1>2, <1>3, DeferStep DEF Follows

LEMMA LifecycleJobs ==
  ASSUME Inv, NEW p \in Participants,
         \/ InitializeJob(p) \/ StartAutonomousJob(p) \/ CompleteReadyJob(p)
         \/ PauseJob(p) \/ ContinueJob(p) \/ StopJob(p) \/ ErrorJob(p) \/ AbortJob(p)
  PROVE  Inv'
<1>1. CASE InitializeJob(p)
  <2>1. NextJob(p, "Initialize") /\ Lifecycle(p, {Initialize(Done(p))})
    BY <1>1 DEF InitializeJob
  <2>2. \A n \in {Initialize(Done(p))} : Follows(Done(p), n)
    BY <2>1, NextJobStep, InitializeStep
  <2> QED
    BY <2>1, <2>2, LifecycleStep
<1>2. CASE StartAutonomousJob(p)
  <2>1. NextJob(p, "StartAutonomous") /\ Lifecycle(p, ServicesCreated(p, Done(p)))
    BY <1>2 DEF StartAutonomousJob
  <2>2. \A n \in ServicesCreated(p, Done(p)) : Follows(Done(p), n)
    BY <2>1, NextJobStep, ServicesCreatedStep
  <2> QED
    BY <2>1, <2>2, LifecycleStep
<1>3. CASE CompleteReadyJob(p)
  <2>1. /\ NextJob(p, "CompleteReady")
        /\ Lifecycle(p, CompleteCommunicationReadyHandler(p, Done(p)))
    BY <1>3 DEF CompleteReadyJob
  <2>2. \A n \in CompleteCommunicationReadyHandler(p, Done(p)) : Follows(Done(p), n)
    BY <2>1, NextJobStep, CompleteReadyStep
  <2> QED
    BY <2>1, <2>2, LifecycleStep
<1>4. CASE PauseJob(p)
  <2>1. PICK n : n = IF io[p].state = "Running" THEN Enter(Done(p), "Paused")
                     ELSE Defer(Done(p), Job("Error"))
    OBVIOUS
  <2>2. NextJob(p, "Pause") /\ Lifecycle(p, {n})
    BY <1>4, <2>1 DEF PauseJob
  <2>3. Follows(Done(p), n)
    BY <2>1, <2>2, NextJobStep, EnterStep, PlainDeferred, StateNames
  <2> QED
    BY <2>2, <2>3, LifecycleStep
<1>5. CASE ContinueJob(p)
  <2>1. PICK n : n = IF io[p].state = "Paused" THEN Enter(Done(p), "Running")
                     ELSE Defer(Done(p), Job("Error"))
    OBVIOUS
  <2>2. NextJob(p, "Continue") /\ Lifecycle(p, {n})
    BY <1>5, <2>1 DEF ContinueJob
  <2>3. Follows(Done(p), n)
    BY <2>1, <2>2, NextJobStep, EnterStep, PlainDeferred, StateNames
  <2> QED
    BY <2>2, <2>3, LifecycleStep
<1>6. CASE StopJob(p)
  <2>1. NextJob(p, "Stop") /\ Lifecycle(p, StopSimulation(p, Done(p)))
    BY <1>6 DEF StopJob
  <2>2. \A n \in StopSimulation(p, Done(p)) : Follows(Done(p), n)
    BY <2>1, NextJobStep, StopStep
  <2> QED
    BY <2>1, <2>2, LifecycleStep
<1>7. CASE ErrorJob(p)
  <2>1. PICK n : n = IF life[p] \in {"idle", "aborted"} THEN Done(p) ELSE ToError(Done(p))
    OBVIOUS
  <2>2. NextJob(p, "Error") /\ Lifecycle(p, {n})
    BY <1>7, <2>1 DEF ErrorJob
  <2>3. Follows(Done(p), n)
    BY <2>1, <2>2, NextJobStep, ToErrorStep, SelfFollows
  <2> QED
    BY <2>2, <2>3, LifecycleStep
<1>8. CASE AbortJob(p)
  <2>1. NextJob(p, "Abort") /\ Lifecycle(p, {AbortSimulation(Done(p))})
    BY <1>8 DEF AbortJob
  <2>2. \A n \in {AbortSimulation(Done(p))} : Follows(Done(p), n)
    BY <2>1, NextJobStep, AbortStep
  <2> QED
    BY <2>1, <2>2, LifecycleStep
<1> QED
  BY <1>1, <1>2, <1>3, <1>4, <1>5, <1>6, <1>7, <1>8

-----------------------------------------------------------------------------
(* Users. *)

LEMMA UserTypes ==
  ASSUME Inv, NEW p \in Participants
  PROVE  /\ io[p] \in LifecycleRecord /\ life \in [Participants -> Lives]
         /\ \A l \in Lives : [life EXCEPT ![p] = l] \in [Participants -> Lives]
BY DEF Inv, TypeOK

LEMMA UserSteps ==
  ASSUME Inv, NEW p \in Participants,
         \/ StartLifecycle(p) \/ PublishLifecycle(p) \/ CreateController(p)
         \/ Request(p) \/ RequestAbort(p) \/ CompleteCommunicationReadyHandlerAsync(p)
  PROVE  Inv'
<1>1. io[p] \in LifecycleRecord /\ life \in [Participants -> Lives]
  BY UserTypes
<1>2. {"idle", "aborted", "starting", "started", "ignored"} \subseteq Lives
  BY DEF Lives
<1>3. CASE StartLifecycle(p)
  <2>1. UNCHANGED <<bar, acks, cache, sys, conn, chan, gone>> /\ todo' \subseteq todo
        /\ life' \in [Participants -> Lives]
    BY <1>2, <1>3, UserTypes DEF StartLifecycle, monitorVars
  <2>2. PICK n : n = IF life[p] = "idle" THEN io[p] ELSE Defer(io[p], Job("Abort"))
    OBVIOUS
  <2>3. Follows(io[p], n)
    BY <1>1, <2>2, SelfFollows, PlainDeferred
  <2>4. io' = [io EXCEPT ![p] = n]
    <3>1. io = [io EXCEPT ![p] = io[p]]
      BY DEF Inv, TypeOK
    <3> QED
      BY <1>3, <2>2, <3>1 DEF StartLifecycle
  <2> QED
    BY <2>1, <2>3, <2>4, IoOnly
<1>4. CASE PublishLifecycle(p)
  <2>1. UNCHANGED <<bar, acks, cache, sys, conn, chan, gone>> /\ todo' \subseteq todo
        /\ life' \in [Participants -> Lives]
    BY <1>2, <1>4, UserTypes DEF PublishLifecycle, monitorVars
  <2>2. PICK i : i = Defer(io[p], Job("Initialize"))
    OBVIOUS
  <2>3. Follows(io[p], i) /\ Follows(i, Defer(i, Job("StartAutonomous")))
    BY <1>1, <2>2, PlainDeferred
  <2>4. PICK n : n = IF p \in Coordinated THEN i ELSE Defer(i, Job("StartAutonomous"))
    OBVIOUS
  <2>5. Follows(io[p], n)
    BY <2>3, <2>4, FollowsTransitive
  <2>6. io' = [io EXCEPT ![p] = n]
    BY <1>4, <2>2, <2>4 DEF PublishLifecycle
  <2> QED
    BY <2>1, <2>5, <2>6, IoOnly
<1>5. CASE CreateController(p)
  <2>1. UNCHANGED <<bar, acks, cache, sys, conn, chan, gone>> /\ todo' \subseteq todo
        /\ life' \in [Participants -> Lives]
    BY <1>1, <1>5 DEF CreateController, UserCall, monitorVars
  <2>2. PICK i : i = [io[p] EXCEPT !.pending = TRUE]
    OBVIOUS
  <2>3. /\ i \in LifecycleRecord /\ i.jobs = io[p].jobs /\ i.state = io[p].state
        /\ i.final = io[p].final
    BY <1>1, <2>2 DEF LifecycleRecord
  <2>4. Follows(io[p], i) /\ Follows(i, Defer(i, Job("Register")))
    BY <2>3, FieldFollows, PlainDeferred
  <2>5. io' = [io EXCEPT ![p] = Defer(i, Job("Register"))]
    BY <1>5, <2>2 DEF CreateController
  <2> QED
    BY <2>1, <2>4, <2>5, FollowsTransitive, IoOnly
<1>6. CASE Request(p)
  <2>1. PICK call \in {"Pause", "Continue", "Stop", "Error"} :
          /\ UserCall(p, call) /\ UNCHANGED life
          /\ io' = [io EXCEPT ![p] = Defer(@, Job(call))]
    BY <1>6 DEF Request
  <2>2. UNCHANGED <<bar, acks, cache, sys, conn, chan, gone>> /\ todo' \subseteq todo
        /\ life' \in [Participants -> Lives]
    BY <1>1, <2>1 DEF UserCall, monitorVars
  <2>3. Follows(io[p], Defer(io[p], Job(call)))
    BY <1>1, PlainDeferred
  <2>4. io' = [io EXCEPT ![p] = Defer(io[p], Job(call))]
    BY <2>1
  <2> QED
    BY <2>2, <2>3, <2>4, IoOnly
<1>7. CASE RequestAbort(p)
  <2>1. UNCHANGED <<bar, acks, cache, sys, conn, chan, gone>> /\ todo' \subseteq todo
        /\ life' \in [Participants -> Lives]
    BY <1>1, <1>2, <1>7, UserTypes DEF RequestAbort, UserCall, monitorVars
  <2>2. PICK i : i = Defer(io[p], Job("Abort"))
    OBVIOUS
  <2>3. /\ Follows(io[p], Defer(io[p], Job("Command")))
        /\ Follows(io[p], i) /\ Follows(i, Defer(i, Job("Command")))
    BY <1>1, <2>2, PlainDeferred
  <2>4. PICK n : n = IF life[p] \in {"idle", "aborted"} THEN Defer(io[p], Job("Command"))
                     ELSE Defer(i, Job("Command"))
    OBVIOUS
  <2>5. Follows(io[p], n)
    BY <2>3, <2>4, FollowsTransitive
  <2>6. io' = [io EXCEPT ![p] = n]
    BY <1>7, <2>2, <2>4 DEF RequestAbort
  <2> QED
    BY <2>1, <2>5, <2>6, IoOnly
<1>8. CASE CompleteCommunicationReadyHandlerAsync(p)
  <2>1. UNCHANGED <<bar, acks, cache, sys, conn, chan, gone>> /\ todo' \subseteq todo
        /\ life' \in [Participants -> Lives]
    BY <1>1, <1>8 DEF CompleteCommunicationReadyHandlerAsync, monitorVars
  <2>2. PICK i : i = [io[p] EXCEPT !.ready = "completed"]
    OBVIOUS
  <2>3. /\ i \in LifecycleRecord /\ i.jobs = io[p].jobs /\ i.state = io[p].state
        /\ i.final = io[p].final
    BY <1>1, <2>2 DEF LifecycleRecord
  <2>4. Follows(io[p], i) /\ Follows(i, Defer(i, Job("CompleteReady")))
    BY <2>3, FieldFollows, PlainDeferred
  <2>5. io' = [io EXCEPT ![p] = Defer(i, Job("CompleteReady"))]
    BY <1>8, <2>2 DEF CompleteCommunicationReadyHandlerAsync
  <2> QED
    BY <2>1, <2>4, <2>5, FollowsTransitive, IoOnly
<1> QED
  BY <1>3, <1>4, <1>5, <1>6, <1>7, <1>8

-----------------------------------------------------------------------------
(* Messages. *)

QuietQueue(s, t) ==
  \A x \in {CallToken, ReplyToken, Job("End")} : NoNew(s, t, x)

LEMMA QuietAppend ==
  ASSUME NEW s \in Seq(Messages), NEW m \in Messages, m \notin {CallToken, ReplyToken, Job("End")}
  PROVE  /\ Append(s, m) \in Seq(Messages)
         /\ QuietQueue(s, Append(s, m)) /\ KeepsOrder(s, Append(s, m))
<1>1. \A x \in {CallToken, ReplyToken, Job("End")} : NoNew(s, Append(s, m), x)
  BY AppendHas DEF NoNew
<1>2. Has(s, ShutdownStatus) => Has(Append(s, m), ShutdownStatus)
  BY AppendHas
<1>3. Before(s, ShutdownStatus, CallToken) => Before(Append(s, m), ShutdownStatus, CallToken)
  BY AppendBefore
<1> QED
  BY <1>1, <1>2, <1>3 DEF QuietQueue, KeepsOrder

LEMMA QuietTail ==
  ASSUME NEW s \in Seq(Messages), s # <<>>
  PROVE  /\ Tail(s) \in Seq(Messages) /\ Head(s) \in Messages
         /\ QuietQueue(s, Tail(s))
         /\ Head(s) # ShutdownStatus => KeepsOrder(s, Tail(s))
<1>1. \A x \in {CallToken, ReplyToken, Job("End")} : NoNew(s, Tail(s), x)
  BY TailHas DEF NoNew
<1>2. ASSUME Head(s) # ShutdownStatus PROVE KeepsOrder(s, Tail(s))
  BY <1>2, TailHas, TailBefore DEF KeepsOrder
<1> QED
  BY <1>1, <1>2 DEF QuietQueue

(* new is old, with m sent by p to those in qs that can read it. *)
Sent(old, new, p, qs, m) ==
  /\ new \in [Participants -> [Participants -> Seq(Messages)]]
  /\ \A y \in Participants : y \in qs \ gone => new[p][y] = Append(old[p][y], m)
  /\ \A x, y \in Participants : x # p \/ y \notin qs \ gone => new[x][y] = old[x][y]

LEMMA SendStep ==
  ASSUME NEW ch \in [Participants -> [Participants -> Seq(Messages)]],
         NEW p \in Participants, NEW qs, NEW m \in Messages
  PROVE  Sent(ch, Send(ch, p, qs, m), p, qs, m)
<1>1. PICK row : row = [q \in Participants |->
                          IF q \in qs \ gone THEN Append(ch[p][q], m) ELSE ch[p][q]]
  OBVIOUS
<1>2. row \in [Participants -> Seq(Messages)]
  BY <1>1
<1>3. Send(ch, p, qs, m) = [ch EXCEPT ![p] = row]
  BY <1>1 DEF Send
<1> QED
  BY <1>1, <1>2, <1>3 DEF Sent

LEMMA TakenStep ==
  ASSUME TypeOK, NEW p \in Participants, NEW q \in Participants, chan[q][p] # <<>>
  PROVE  /\ Taken(p, q) \in [Participants -> [Participants -> Seq(Messages)]]
         /\ \A x, y \in Participants :
              Taken(p, q)[x][y] = IF x = q /\ y = p THEN Tail(chan[x][y]) ELSE chan[x][y]
         /\ chan[q][p] \in Seq(Messages)
<1>1. chan \in [Participants -> [Participants -> Seq(Messages)]]
  BY DEF TypeOK
<1>2. Tail(chan[q][p]) \in Seq(Messages)
  BY <1>1
<1> QED
  BY <1>1, <1>2 DEF Taken

(* A step of one IO thread that may send and receive, but no part of a     *)
(* barrier.                                                                *)
LEMMA QuietStep ==
  ASSUME Inv, NEW p \in Participants, NEW n \in LifecycleRecord, io' = [io EXCEPT ![p] = n],
         n.final = io[p].final,
         \A t \in JobTokens : NoNew(io[p].jobs, n.jobs, t),
         \A y \in Participants : Peers(p, y) => Told(p, y)' \/ (Orderly(io[p]) => Orderly(n)),
         chan' \in [Participants -> [Participants -> Seq(Messages)]],
         \A x, y \in Participants : QuietQueue(chan[x][y], chan[x][y]'),
         \A x, y \in Participants : Known(x, y)' \/ KeepsOrder(chan[x][y], chan[x][y]'),
         \A x, y \in Participants : Known(x, y) => Known(x, y)',
         cache' \in [Participants -> [Participants -> ParticipantStates \cup {NoStatus}]],
         sys' \in [Participants -> ParticipantStates],
         acks' \in [Participants -> SUBSET Participants],
         life' \in [Participants -> Lives],
         UNCHANGED <<bar, conn, gone, todo>>
  PROVE  Inv'
<1>1. TypeOK
  BY DEF Inv
<1>2. io' \in [Participants -> LifecycleRecord] /\ io'[p] = n
      /\ \A x \in Participants : x # p => io'[x] = io[x]
  BY <1>1, OneIo
<1>3. TypeOK'
  BY <1>1, <1>2 DEF TypeOK
<1>4. \A x \in Participants : \A t \in JobTokens : NoNew(io[x].jobs, io'[x].jobs, t)
  BY <1>2, NoNewSelf
<1>5. \A x, y \in Participants : TokensKept(x, y)
  BY <1>4 DEF TokensKept, JobTokens, QuietQueue
<1>6. \A x, y \in Participants : Peers(x, y) => OrderKept(x, y)
  BY <1>2 DEF OrderKept
<1>7. \A x \in Participants : io[x].final' = io[x].final
  BY <1>2
<1>8. \A x, y \in Participants :
        Has(chan[x][y]', Job("End")) => Has(chan[x][y], Job("End")) \/ x \in gone'
  BY DEF QuietQueue, NoNew
<1>9. \A x, y \in Participants : Peers(x, y)' => Peers(x, y)
  BY DEF Peers
<1> QED
  BY <1>3, <1>5, <1>6, <1>7, <1>8, <1>9, Frame

(* The parts of TypeOK the steps below use. *)
LEMMA Typing ==
  ASSUME Inv
  PROVE  /\ TypeOK
         /\ \A x \in Participants : io[x] \in LifecycleRecord
         /\ chan \in [Participants -> [Participants -> Seq(Messages)]]
         /\ cache \in [Participants -> [Participants -> ParticipantStates \cup {NoStatus}]]
         /\ sys \in [Participants -> ParticipantStates]
         /\ acks \in [Participants -> SUBSET Participants]
         /\ life \in [Participants -> Lives]
         /\ conn \in [Participants -> SUBSET Participants]
BY DEF Inv, TypeOK

(* The messages of services other than the barrier. *)
LEMMA QuietMessages ==
  /\ \A name \in {"Subscribe", "Acknowledge", "Abort"} :
       Job(name) \in Messages /\ Job(name) \notin {CallToken, ReplyToken, Job("End")}
  /\ \A s \in ParticipantStates :
       /\ <<"Status", s>> \in Messages
       /\ <<"Status", s>> \notin {CallToken, ReplyToken, Job("End")}
BY DEF Job, Messages, CallToken, ReplyToken

LEMMA PairParts ==
  ASSUME NEW A, NEW B, NEW j \in A \X B
  PROVE  j = <<j[1], j[2]>> /\ j[1] \in A /\ j[2] \in B
OBVIOUS

LEMMA StatusParts ==
  /\ \A m \in Messages :
       m[1] = "Status" => \E s \in ParticipantStates : m = <<"Status", s>>
  /\ \A j \in Jobs :
       j[1] = "Status" => \E s \in ParticipantStates : j = <<"Status", s>>
  /\ \A j \in Jobs :
       j[1] = "Barrier" => \E a \in Actions : j = <<"Barrier", a>>
  /\ \A j \in Jobs :
       j[1] = "Reply" => \E p \in Participants : j = <<"Reply", p>>
  /\ \A j \in Jobs : j[1] = "Call" => j = CallToken
  /\ \A j \in Jobs : j[1] = "StartAutonomous" => j = Job("StartAutonomous")
  /\ \A m \in Messages :
       /\ m[1] = "Call" => m = CallToken
       /\ m[1] = "Reply" => m = ReplyToken
       /\ m[1] = "End" => m = Job("End")
<1> DEFINE Names == {"Initialize", "StartAutonomous", "CompleteReady", "Register", "Command",
                     "Call", "Pause", "Continue", "Stop", "Error", "Abort"}
           Kinds == {"Subscribe", "Acknowledge", "Call", "Reply", "Abort", "End"}
<1>1. \A j \in Jobs :
        \/ \E name \in Names : j = <<name, "">>
        \/ \E s \in ParticipantStates : j = <<"Status", s>>
        \/ \E a \in Actions : j = <<"Barrier", a>>
        \/ \E p \in Participants : j = <<"Reply", p>>
  <2>1. SUFFICES ASSUME NEW j \in Jobs
                 PROVE  \/ \E name \in Names : j = <<name, "">>
                        \/ \E s \in ParticipantStates : j = <<"Status", s>>
                        \/ \E a \in Actions : j = <<"Barrier", a>>
                        \/ \E p \in Participants : j = <<"Reply", p>>
    OBVIOUS
  <2>2. \/ j \in Names \X {""} \/ j \in {"Status"} \X ParticipantStates
        \/ j \in {"Barrier"} \X Actions \/ j \in {"Reply"} \X Participants
    BY DEF Jobs
  <2>3. ASSUME j \in Names \X {""} PROVE \E name \in Names : j = <<name, "">>
    <3>1. PICK A : A = Names
      OBVIOUS
    <3>2. j \in A \X {""}
      BY <2>3, <3>1
    <3>3. j = <<j[1], j[2]>> /\ j[1] \in A /\ j[2] \in {""}
      BY <3>2, PairParts
    <3> QED
      BY <3>1, <3>3
  <2>4. ASSUME j \in {"Status"} \X ParticipantStates
        PROVE  \E s \in ParticipantStates : j = <<"Status", s>>
    BY <2>4
  <2>5. ASSUME j \in {"Barrier"} \X Actions
        PROVE  \E a \in Actions : j = <<"Barrier", a>>
    BY <2>5
  <2>6. ASSUME j \in {"Reply"} \X Participants
        PROVE  \E p \in Participants : j = <<"Reply", p>>
    BY <2>6
  <2> QED
    BY <2>2, <2>3, <2>4, <2>5, <2>6
<1>2. \A m \in Messages :
        \/ \E name \in Kinds : m = <<name, "">>
        \/ \E s \in ParticipantStates : m = <<"Status", s>>
  <2>1. SUFFICES ASSUME NEW m \in Messages
                 PROVE  \/ \E name \in Kinds : m = <<name, "">>
                        \/ \E s \in ParticipantStates : m = <<"Status", s>>
    OBVIOUS
  <2>2. m \in Kinds \X {""} \/ m \in {"Status"} \X ParticipantStates
    BY DEF Messages
  <2>3. ASSUME m \in Kinds \X {""} PROVE \E name \in Kinds : m = <<name, "">>
    <3>1. PICK B : B = {""}
      OBVIOUS
    <3>2. m \in Kinds \X B
      BY <2>3, <3>1
    <3>3. m = <<m[1], m[2]>> /\ m[1] \in Kinds /\ m[2] \in B
      BY <3>2, PairParts
    <3> QED
      BY <3>1, <3>3
  <2>4. ASSUME m \in {"Status"} \X ParticipantStates
        PROVE  \E s \in ParticipantStates : m = <<"Status", s>>
    BY <2>4
  <2> QED
    BY <2>2, <2>3, <2>4
<1>3. /\ CallToken = <<"Call", "">> /\ ReplyToken = <<"Reply", "">> /\ Job("End") = <<"End", "">>
      /\ Job("StartAutonomous") = <<"StartAutonomous", "">>
  BY DEF CallToken, ReplyToken, Job
<1>4. ASSUME NEW j \in Jobs
      PROVE  /\ j[1] = "Status" => \E s \in ParticipantStates : j = <<"Status", s>>
             /\ j[1] = "Barrier" => \E a \in Actions : j = <<"Barrier", a>>
             /\ j[1] = "Reply" => \E p \in Participants : j = <<"Reply", p>>
             /\ j[1] = "Call" => j = CallToken
             /\ j[1] = "StartAutonomous" => j = Job("StartAutonomous")
  <2>1. CASE \E name \in Names : j = <<name, "">>
    <3>1. PICK name \in Names : j = <<name, "">>
      BY <2>1
    <3>2. j[1] = name
      BY <3>1
    <3> QED
      BY <3>1, <3>2, <1>3
  <2>2. CASE \E s \in ParticipantStates : j = <<"Status", s>>
    BY <2>2
  <2>3. CASE \E a \in Actions : j = <<"Barrier", a>>
    BY <2>3
  <2>4. CASE \E p \in Participants : j = <<"Reply", p>>
    BY <2>4
  <2> QED
    BY <1>1, <2>1, <2>2, <2>3, <2>4
<1>5. ASSUME NEW m \in Messages
      PROVE  /\ m[1] = "Status" => \E s \in ParticipantStates : m = <<"Status", s>>
             /\ m[1] = "Call" => m = CallToken
             /\ m[1] = "Reply" => m = ReplyToken
             /\ m[1] = "End" => m = Job("End")
  <2>1. CASE \E name \in Kinds : m = <<name, "">>
    <3>1. PICK name \in Kinds : m = <<name, "">>
      BY <2>1
    <3>2. m[1] = name
      BY <3>1
    <3> QED
      BY <3>1, <3>2, <1>3
  <2>2. CASE \E s \in ParticipantStates : m = <<"Status", s>>
    BY <2>2
  <2> QED
    BY <1>2, <2>1, <2>2
<1> QED
  BY <1>4, <1>5

LEMMA StatusReceived ==
  ASSUME Inv, NEW p \in Participants, NEW q \in Participants, NEW s \in ParticipantStates,
         NEW e \in LifecycleRecord, ReceiveStatus(p, q, s, e)
  PROVE  /\ cache' \in [Participants -> [Participants -> ParticipantStates \cup {NoStatus}]]
         /\ sys' \in [Participants -> ParticipantStates]
         /\ \A x, y \in Participants : Known(x, y) => Known(x, y)'
         /\ s = "Shutdown" => Known(q, p)'
         /\ \E n : Follows(e, n) /\ io' = [io EXCEPT ![p] = n]
<1>1. PICK c : c = UpdateParticipantStatus(cache[p], q, s)
  OBVIOUS
<1>2. /\ c \in [Participants -> ParticipantStates \cup {NoStatus}]
      /\ \A x \in Participants : cache[p][x] = "Shutdown" => c[x] = "Shutdown"
      /\ s = "Shutdown" => c[q] = "Shutdown"
  BY <1>1, Typing DEF UpdateParticipantStatus
<1>3. cache' = [cache EXCEPT ![p] = c]
  BY <1>1 DEF ReceiveStatus
<1>4. /\ cache' \in [Participants -> [Participants -> ParticipantStates \cup {NoStatus}]]
      /\ \A x, y \in Participants : Known(x, y) => Known(x, y)'
      /\ s = "Shutdown" => Known(q, p)'
  BY <1>2, <1>3, Typing DEF Known
<1>5. PICK y : y = SystemStateAfter(cache[p], sys[p], q, s)
  OBVIOUS
<1>6. y \in ParticipantStates
  BY <1>5, AfterType, Typing
<1>7. sys' = [sys EXCEPT ![p] = y]
  BY <1>5 DEF ReceiveStatus
<1>8. sys' \in [Participants -> ParticipantStates]
  BY <1>6, <1>7, Typing
<1>9. PICK n \in IF y = sys[p] THEN {e} ELSE NewSystemState(p, e, y) : io' = [io EXCEPT ![p] = n]
  BY <1>5 DEF ReceiveStatus
<1>10. Follows(e, n)
  BY <1>9, SelfFollows, NewSystemStateStep
<1> QED
  BY <1>4, <1>8, <1>9, <1>10

LEMMA FollowsNoNew ==
  ASSUME NEW e, NEW n, Follows(e, n)
  PROVE  /\ n \in LifecycleRecord /\ n.final = e.final
         /\ \A t \in JobTokens : NoNew(e.jobs, n.jobs, t)
         /\ Orderly(e) => Orderly(n)
BY DEF Follows, Quiet, NoNew

LEMMA QuietSent ==
  ASSUME Inv, NEW p \in Participants, NEW qs, NEW m \in Messages,
         m \notin {CallToken, ReplyToken, Job("End")}, chan' = Send(chan, p, qs, m)
  PROVE  /\ chan' \in [Participants -> [Participants -> Seq(Messages)]]
         /\ \A x, y \in Participants :
              QuietQueue(chan[x][y], chan[x][y]') /\ KeepsOrder(chan[x][y], chan[x][y]')
<1>1. /\ chan' \in [Participants -> [Participants -> Seq(Messages)]]
      /\ \A x, y \in Participants : chan'[x][y] \in {chan[x][y], Append(chan[x][y], m)}
  <2>1. chan \in [Participants -> [Participants -> Seq(Messages)]]
    BY Typing
  <2>2. Sent(chan, chan', p, qs, m)
    BY <2>1, SendStep
  <2> QED
    BY <2>2 DEF Sent
<1>2. ASSUME NEW x \in Participants, NEW y \in Participants
      PROVE  QuietQueue(chan[x][y], chan'[x][y]) /\ KeepsOrder(chan[x][y], chan'[x][y])
  <2>1. chan[x][y] \in Seq(Messages)
    BY Typing
  <2>2. QuietQueue(chan[x][y], chan[x][y]) /\ KeepsOrder(chan[x][y], chan[x][y])
    BY NoNewSelf DEF QuietQueue
  <2> QED
    BY <1>1, <2>1, <2>2, QuietAppend
<1> QED
  BY <1>1, <1>2

LEMMA QuietTaken ==
  ASSUME Inv, NEW p \in Participants, NEW q \in Participants, chan[q][p] # <<>>,
         chan' = Taken(p, q)
  PROVE  /\ chan' \in [Participants -> [Participants -> Seq(Messages)]]
         /\ Head(chan[q][p]) \in Messages
         /\ \A x, y \in Participants : QuietQueue(chan[x][y], chan[x][y]')
         /\ \A x, y \in Participants :
              (x = q /\ y = p /\ Head(chan[q][p]) = ShutdownStatus)
                \/ KeepsOrder(chan[x][y], chan[x][y]')
<1>1. /\ chan' \in [Participants -> [Participants -> Seq(Messages)]]
      /\ \A x, y \in Participants :
           chan'[x][y] = IF x = q /\ y = p THEN Tail(chan[x][y]) ELSE chan[x][y]
      /\ chan[q][p] \in Seq(Messages)
  BY TakenStep, Typing
<1>2. /\ Head(chan[q][p]) \in Messages /\ QuietQueue(chan[q][p], Tail(chan[q][p]))
      /\ Head(chan[q][p]) # ShutdownStatus => KeepsOrder(chan[q][p], Tail(chan[q][p]))
  BY <1>1, QuietTail
<1>3. \A s : QuietQueue(s, s) /\ KeepsOrder(s, s)
  BY NoNewSelf DEF QuietQueue
<1> QED
  BY <1>1, <1>2, <1>3

(* A job whose name is Status sends and delivers a state. *)
LEMMA StatusJobStep ==
  ASSUME Inv, NEW p \in Participants, StatusJob(p)
  PROVE  Inv'
<1>1. p \notin gone /\ io[p].jobs # <<>> /\ Head(io[p].jobs)[1] = "Status"
  BY DEF StatusJob, NextJob
<1>2. io[p].jobs \in Seq(Jobs) /\ Done(p) \in LifecycleRecord /\ Done(p).final = io[p].final
      /\ Done(p).jobs = Tail(io[p].jobs)
      /\ (Head(io[p].jobs) # ShutdownStatus => Follows(io[p], Done(p)))
  BY <1>1, DoneStep, Typing
<1>3. Head(io[p].jobs) \in Jobs
  BY <1>1, <1>2
<1>4. PICK s \in ParticipantStates : Head(io[p].jobs) = <<"Status", s>>
  BY <1>1, <1>3, StatusParts
<1>5. Argument(p) = s
  BY <1>4 DEF Argument
<1>6. PICK m : m = Head(io[p].jobs)
  OBVIOUS
<1>7. m \in Messages /\ m \notin {CallToken, ReplyToken, Job("End")}
  BY <1>4, <1>6, QuietMessages
<1>8. chan' = Send(chan, p, conn[p], m)
  BY <1>6 DEF StatusJob
<1>9. ReceiveStatus(p, p, s, Done(p)) /\ UNCHANGED <<life, bar, acks, conn, gone, todo>>
  BY <1>5 DEF StatusJob
<1>10. /\ chan' \in [Participants -> [Participants -> Seq(Messages)]]
       /\ \A x, y \in Participants :
            QuietQueue(chan[x][y], chan[x][y]') /\ KeepsOrder(chan[x][y], chan[x][y]')
  BY <1>7, <1>8, QuietSent
<1>11. /\ cache' \in [Participants -> [Participants -> ParticipantStates \cup {NoStatus}]]
       /\ sys' \in [Participants -> ParticipantStates]
       /\ \A x, y \in Participants : Known(x, y) => Known(x, y)'
       /\ \E n : Follows(Done(p), n) /\ io' = [io EXCEPT ![p] = n]
  BY <1>2, <1>9, StatusReceived
<1>12. PICK n : Follows(Done(p), n) /\ io' = [io EXCEPT ![p] = n]
  BY <1>11
<1>13. \A t \in JobTokens : NoNew(io[p].jobs, Done(p).jobs, t)
  BY <1>1, <1>2, TailHas DEF NoNew
<1>14. /\ n \in LifecycleRecord /\ n.final = io[p].final
       /\ \A t \in JobTokens : NoNew(io[p].jobs, n.jobs, t)
  <2>1. /\ n \in LifecycleRecord /\ n.final = Done(p).final
        /\ \A t \in JobTokens : NoNew(Done(p).jobs, n.jobs, t)
    BY <1>12, FollowsNoNew
  <2> QED
    BY <2>1, <1>2, <1>13 DEF NoNew
<1>15. ASSUME NEW y \in Participants, Peers(p, y)
       PROVE  Told(p, y)' \/ (Orderly(io[p]) => Orderly(n))
  <2>1. CASE m = ShutdownStatus
    <3>1. y \in conn[p] \ gone
      BY <1>15 DEF Inv, ConnectedIn, Peers
    <3>2. chan'[p][y] = Append(chan[p][y], m) /\ chan[p][y] \in Seq(Messages)
      <4>1. chan \in [Participants -> [Participants -> Seq(Messages)]]
        BY Typing
      <4>2. Sent(chan, chan', p, conn[p], m)
        BY <4>1, <1>7, <1>8, SendStep
      <4> QED
        BY <4>1, <4>2, <3>1 DEF Sent
    <3>3. Has(chan'[p][y], ShutdownStatus)
      BY <1>7, <2>1, <3>2, AppendHas
    <3> QED
      BY <3>3 DEF Told
  <2>2. CASE m # ShutdownStatus
    <3>1. Follows(io[p], n)
      BY <1>2, <1>6, <1>12, <2>2, FollowsTransitive
    <3> QED
      BY <3>1, FollowsNoNew
  <2> QED
    BY <2>1, <2>2
<1>16. life' \in [Participants -> Lives] /\ acks' \in [Participants -> SUBSET Participants]
  BY <1>9, Typing
<1> QED
  BY <1>9, <1>10, <1>11, <1>12, <1>14, <1>15, <1>16, QuietStep

(* Sending of an abort, and the registration of a controller. *)
LEMMA CommandJobStep ==
  ASSUME Inv, NEW p \in Participants, CommandJob(p)
  PROVE  Inv'
<1>1. Follows(io[p], Done(p))
  BY NextJobStep DEF CommandJob
<1>2. /\ chan' = Send(chan, p, conn[p], Job("Abort")) /\ io' = [io EXCEPT ![p] = Done(p)]
      /\ UNCHANGED <<life, bar, acks, cache, sys, conn, gone, todo>>
  BY DEF CommandJob, SendJob, monitorVars
<1>3. /\ chan' \in [Participants -> [Participants -> Seq(Messages)]]
      /\ \A x, y \in Participants :
           QuietQueue(chan[x][y], chan[x][y]') /\ KeepsOrder(chan[x][y], chan[x][y]')
  <2>1. Job("Abort") \in Messages /\ Job("Abort") \notin {CallToken, ReplyToken, Job("End")}
    BY QuietMessages
  <2> QED
    BY <1>2, <2>1, QuietSent
<1>4. /\ Done(p) \in LifecycleRecord /\ Done(p).final = io[p].final
      /\ \A t \in JobTokens : NoNew(io[p].jobs, Done(p).jobs, t)
      /\ Orderly(io[p]) => Orderly(Done(p))
  BY <1>1, FollowsNoNew
<1>5. \A x, y \in Participants : Known(x, y) => Known(x, y)'
  BY <1>2 DEF Known
<1>6. /\ cache' \in [Participants -> [Participants -> ParticipantStates \cup {NoStatus}]]
      /\ sys' \in [Participants -> ParticipantStates]
      /\ acks' \in [Participants -> SUBSET Participants]
      /\ life' \in [Participants -> Lives]
  BY <1>2, Typing
<1> QED
  BY <1>2, <1>3, <1>4, <1>5, <1>6, QuietStep

LEMMA RegisterJobStep ==
  ASSUME Inv, NEW p \in Participants, RegisterJob(p)
  PROVE  Inv'
<1>1. Follows(io[p], Done(p)) /\ Done(p) \in LifecycleRecord
  BY NextJobStep DEF RegisterJob
<1>2. /\ chan' = Send(chan, p, conn[p], Job("Subscribe"))
      /\ acks' = [acks EXCEPT ![p] = conn[p]]
      /\ UNCHANGED <<life, bar, cache, sys, conn, gone, todo>>
  BY DEF RegisterJob, monitorVars
<1>3. /\ chan' \in [Participants -> [Participants -> Seq(Messages)]]
      /\ \A x, y \in Participants :
           QuietQueue(chan[x][y], chan[x][y]') /\ KeepsOrder(chan[x][y], chan[x][y]')
  <2>1. Job("Subscribe") \in Messages
        /\ Job("Subscribe") \notin {CallToken, ReplyToken, Job("End")}
    BY QuietMessages
  <2> QED
    BY <1>2, <2>1, QuietSent
<1>4. PICK n \in IF conn[p] = {} THEN AsyncSubscriptionsCompleted(p, Done(p)) ELSE {Done(p)} :
           io' = [io EXCEPT ![p] = n]
  BY DEF RegisterJob
<1>5. Follows(io[p], n)
  BY <1>1, <1>4, AsyncSubscriptionsStep, FollowsTransitive
<1>6. /\ n \in LifecycleRecord /\ n.final = io[p].final
      /\ \A t \in JobTokens : NoNew(io[p].jobs, n.jobs, t)
      /\ Orderly(io[p]) => Orderly(n)
  BY <1>5, FollowsNoNew
<1>7. \A x, y \in Participants : Known(x, y) => Known(x, y)'
  BY <1>2 DEF Known
<1>8. /\ cache' \in [Participants -> [Participants -> ParticipantStates \cup {NoStatus}]]
      /\ sys' \in [Participants -> ParticipantStates]
      /\ acks' \in [Participants -> SUBSET Participants]
      /\ life' \in [Participants -> Lives]
  BY <1>2, Typing
<1> QED
  BY <1>2, <1>3, <1>4, <1>6, <1>7, <1>8, QuietStep

(* A message that is no part of a barrier is handled; sent says whether an *)
(* acknowledge is sent back.                                               *)
LEMMA ReceiveStatusStep ==
  ASSUME Inv, NEW p \in Participants, NEW q \in Participants, ReceiveParticipantStatus(p, q)
  PROVE  Inv'
<1>1. chan[q][p] # <<>> /\ Head(chan[q][p])[1] = "Status" /\ chan' = Taken(p, q)
  BY DEF ReceiveParticipantStatus, Receives
<1>2. /\ chan' \in [Participants -> [Participants -> Seq(Messages)]]
      /\ Head(chan[q][p]) \in Messages
      /\ \A x, y \in Participants : QuietQueue(chan[x][y], chan[x][y]')
      /\ \A x, y \in Participants :
           (x = q /\ y = p /\ Head(chan[q][p]) = ShutdownStatus)
             \/ KeepsOrder(chan[x][y], chan[x][y]')
  BY <1>1, QuietTaken
<1>3. PICK s \in ParticipantStates : Head(chan[q][p]) = <<"Status", s>>
  BY <1>1, <1>2, StatusParts
<1>4. ReceiveStatus(p, q, s, io[p]) /\ UNCHANGED <<life, bar, acks, conn, gone, todo>>
  BY <1>3 DEF ReceiveParticipantStatus
<1>5. /\ cache' \in [Participants -> [Participants -> ParticipantStates \cup {NoStatus}]]
      /\ sys' \in [Participants -> ParticipantStates]
      /\ \A x, y \in Participants : Known(x, y) => Known(x, y)'
      /\ s = "Shutdown" => Known(q, p)'
      /\ \E n : Follows(io[p], n) /\ io' = [io EXCEPT ![p] = n]
  BY <1>4, StatusReceived, Typing
<1>6. PICK n : Follows(io[p], n) /\ io' = [io EXCEPT ![p] = n]
  BY <1>5
<1>7. /\ n \in LifecycleRecord /\ n.final = io[p].final
      /\ \A t \in JobTokens : NoNew(io[p].jobs, n.jobs, t)
      /\ Orderly(io[p]) => Orderly(n)
  BY <1>6, FollowsNoNew
<1>8. \A x, y \in Participants : Known(x, y)' \/ KeepsOrder(chan[x][y], chan[x][y]')
  <2>1. Head(chan[q][p]) = ShutdownStatus => s = "Shutdown"
    BY <1>3 DEF ShutdownStatus
  <2> QED
    BY <2>1, <1>2, <1>5
<1>9. life' \in [Participants -> Lives] /\ acks' \in [Participants -> SUBSET Participants]
  BY <1>4, Typing
<1> QED
  BY <1>2, <1>4, <1>5, <1>6, <1>7, <1>8, <1>9, QuietStep

LEMMA SameIo ==
  ASSUME Inv, NEW p \in Participants
  PROVE  io = [io EXCEPT ![p] = io[p]]
BY DEF Inv, TypeOK

LEMMA ReceiveCommandStep ==
  ASSUME Inv, NEW p \in Participants, NEW q \in Participants, ReceiveSystemCommand(p, q)
  PROVE  Inv'
<1>1. chan[q][p] # <<>> /\ Head(chan[q][p])[1] = "Abort" /\ chan' = Taken(p, q)
      /\ UNCHANGED <<bar, acks, cache, sys, conn, gone, todo>>
  BY DEF ReceiveSystemCommand, Receives, monitorVars
<1>2. Head(chan[q][p]) # ShutdownStatus
  BY <1>1 DEF ShutdownStatus
<1>3. /\ chan' \in [Participants -> [Participants -> Seq(Messages)]]
      /\ \A x, y \in Participants :
           QuietQueue(chan[x][y], chan[x][y]') /\ KeepsOrder(chan[x][y], chan[x][y]')
  BY <1>1, <1>2, QuietTaken
<1>4. PICK n : n = IF life[p] \in {"idle", "aborted"} THEN io[p] ELSE Defer(io[p], Job("Abort"))
  OBVIOUS
<1>5. Follows(io[p], n)
  BY <1>4, Typing, SelfFollows, PlainDeferred
<1>6. io' = [io EXCEPT ![p] = n]
  <2>1. CASE life[p] \in {"idle", "aborted"}
    BY <2>1, <1>4, SameIo DEF ReceiveSystemCommand
  <2>2. CASE life[p] \notin {"idle", "aborted"}
    BY <2>2, <1>4 DEF ReceiveSystemCommand
  <2> QED
    BY <2>1, <2>2
<1>7. /\ n \in LifecycleRecord /\ n.final = io[p].final
      /\ \A t \in JobTokens : NoNew(io[p].jobs, n.jobs, t)
      /\ Orderly(io[p]) => Orderly(n)
  BY <1>5, FollowsNoNew
<1>8. life' \in [Participants -> Lives]
  <2>1. "aborted" \in Lives
    BY DEF Lives
  <2> QED
    BY <2>1, UserTypes DEF ReceiveSystemCommand
<1>9. /\ cache' \in [Participants -> [Participants -> ParticipantStates \cup {NoStatus}]]
      /\ sys' \in [Participants -> ParticipantStates]
      /\ acks' \in [Participants -> SUBSET Participants]
      /\ \A x, y \in Participants : Known(x, y) => Known(x, y)'
  BY <1>1, Typing DEF Known
<1> QED
  BY <1>1, <1>3, <1>6, <1>7, <1>8, <1>9, QuietStep

LEMMA ReceiveAcknowledgeStep ==
  ASSUME Inv, NEW p \in Participants, NEW q \in Participants,
         ReceiveSubscriptionAcknowledge(p, q)
  PROVE  Inv'
<1>1. /\ chan[q][p] # <<>> /\ Head(chan[q][p])[1] = "Acknowledge" /\ chan' = Taken(p, q)
      /\ acks' = [acks EXCEPT ![p] = @ \ {q}]
      /\ UNCHANGED <<life, bar, cache, sys, conn, gone, todo>>
  BY DEF ReceiveSubscriptionAcknowledge, Receives, monitorVars
<1>2. Head(chan[q][p]) # ShutdownStatus
  BY <1>1 DEF ShutdownStatus
<1>3. /\ chan' \in [Participants -> [Participants -> Seq(Messages)]]
      /\ \A x, y \in Participants :
           QuietQueue(chan[x][y], chan[x][y]') /\ KeepsOrder(chan[x][y], chan[x][y]')
  BY <1>1, <1>2, QuietTaken
<1>4. \E n : Follows(io[p], n) /\ io' = [io EXCEPT ![p] = n]
  <2>1. CASE acks[p] \ {q} # {}
    BY <2>1, SameIo, SelfFollows, Typing DEF ReceiveSubscriptionAcknowledge
  <2>2. CASE acks[p] \ {q} = {}
    <3>1. PICK n \in AsyncSubscriptionsCompleted(p, io[p]) : io' = [io EXCEPT ![p] = n]
      BY <2>2 DEF ReceiveSubscriptionAcknowledge
    <3>2. Follows(io[p], n)
      BY <3>1, AsyncSubscriptionsStep, Typing
    <3> QED
      BY <3>1, <3>2
  <2> QED
    BY <2>1, <2>2
<1>5. PICK n : Follows(io[p], n) /\ io' = [io EXCEPT ![p] = n]
  BY <1>4
<1>6. /\ n \in LifecycleRecord /\ n.final = io[p].final
      /\ \A t \in JobTokens : NoNew(io[p].jobs, n.jobs, t)
      /\ Orderly(io[p]) => Orderly(n)
  BY <1>5, FollowsNoNew
<1>7. /\ cache' \in [Participants -> [Participants -> ParticipantStates \cup {NoStatus}]]
      /\ sys' \in [Participants -> ParticipantStates]
      /\ acks' \in [Participants -> SUBSET Participants]
      /\ life' \in [Participants -> Lives]
      /\ \A x, y \in Participants : Known(x, y) => Known(x, y)'
  BY <1>1, Typing DEF Known
<1> QED
  BY <1>1, <1>3, <1>5, <1>6, <1>7, QuietStep

LEMMA ReceiveAnnouncementStep ==
  ASSUME Inv, NEW p \in Participants, NEW q \in Participants,
         ReceiveSubscriptionAnnouncement(p, q)
  PROVE  Inv'
<1>1. /\ chan[q][p] # <<>> /\ Head(chan[q][p])[1] = "Subscribe"
      /\ chan' = Send(Taken(p, q), p, {q}, Job("Acknowledge"))
      /\ UNCHANGED <<life, io, bar, acks, cache, sys, conn, gone, todo>>
  BY DEF ReceiveSubscriptionAnnouncement, Receives, monitorVars
<1>2. Head(chan[q][p]) # ShutdownStatus
  BY <1>1 DEF ShutdownStatus
<1>3. /\ Taken(p, q) \in [Participants -> [Participants -> Seq(Messages)]]
      /\ \A x, y \in Participants :
           Taken(p, q)[x][y] = IF x = q /\ y = p THEN Tail(chan[x][y]) ELSE chan[x][y]
      /\ chan[q][p] \in Seq(Messages)
  BY <1>1, TakenStep, Typing
<1>4. PICK t \in [Participants -> [Participants -> Seq(Messages)]] : t = Taken(p, q)
  BY <1>3
<1>5. \A x, y \in Participants : QuietQueue(chan[x][y], t[x][y]) /\ KeepsOrder(chan[x][y], t[x][y])
  <2>1. /\ QuietQueue(chan[q][p], Tail(chan[q][p])) /\ KeepsOrder(chan[q][p], Tail(chan[q][p]))
    BY <1>1, <1>2, <1>3, QuietTail
  <2>2. \A s : QuietQueue(s, s) /\ KeepsOrder(s, s)
    BY NoNewSelf DEF QuietQueue
  <2> QED
    BY <1>3, <1>4, <2>1, <2>2
<1>6. PICK m : m = Job("Acknowledge")
  OBVIOUS
<1>7. m \in Messages /\ m \notin {CallToken, ReplyToken, Job("End")}
  BY <1>6, QuietMessages
<1>8. Sent(t, chan', p, {q}, m)
  BY <1>1, <1>4, <1>6, <1>7, SendStep
<1>9. /\ chan' \in [Participants -> [Participants -> Seq(Messages)]]
      /\ \A x, y \in Participants : chan'[x][y] \in {t[x][y], Append(t[x][y], m)}
  BY <1>8 DEF Sent
<1>10. \A x, y \in Participants :
         QuietQueue(chan[x][y], chan[x][y]') /\ KeepsOrder(chan[x][y], chan[x][y]')
  <2>1. SUFFICES ASSUME NEW x \in Participants, NEW y \in Participants
                 PROVE  QuietQueue(chan[x][y], chan[x][y]') /\ KeepsOrder(chan[x][y], chan[x][y]')
    OBVIOUS
  <2>2. t[x][y] \in Seq(Messages)
    OBVIOUS
  <2>3. QuietQueue(t[x][y], Append(t[x][y], m)) /\ KeepsOrder(t[x][y], Append(t[x][y], m))
    BY <2>2, <1>7, QuietAppend
  <2>4. \/ QuietQueue(t[x][y], chan'[x][y]) /\ KeepsOrder(t[x][y], chan'[x][y])
        \/ chan'[x][y] = t[x][y]
    BY <1>9, <2>3
  <2> QED
    BY <1>5, <2>4 DEF QuietQueue, NoNew, KeepsOrder
<1>11. /\ io[p] \in LifecycleRecord /\ io' = [io EXCEPT ![p] = io[p]]
       /\ \A t1 \in JobTokens : NoNew(io[p].jobs, io[p].jobs, t1)
  BY <1>1, SameIo, Typing, NoNewSelf
<1>12. /\ cache' \in [Participants -> [Participants -> ParticipantStates \cup {NoStatus}]]
       /\ sys' \in [Participants -> ParticipantStates]
       /\ acks' \in [Participants -> SUBSET Participants]
       /\ life' \in [Participants -> Lives]
       /\ \A x, y \in Participants : Known(x, y) => Known(x, y)'
  BY <1>1, Typing DEF Known
<1> QED
  BY <1>1, <1>9, <1>10, <1>11, <1>12, QuietStep

-----------------------------------------------------------------------------
(* The end of a participant. *)

LEMMA DisconnectStep ==
  ASSUME Inv, NEW p \in Participants, NEW lossy, Disconnect(p, lossy), todo' \subseteq todo
  PROVE  Inv'
<1>1. /\ gone' = gone \cup {p} /\ UNCHANGED <<life, bar, acks, cache, sys, conn>>
      /\ io' = [io EXCEPT ![p].jobs = <<>>]
  BY DEF Disconnect, monitorVars
<1>2. chan' = [a \in Participants |-> [b \in Participants |->
         IF b = p \/ b \in gone THEN <<>>
         ELSE IF a = p THEN Append(IF b \in lossy THEN <<>> ELSE chan[p][b], Job("End"))
         ELSE chan[a][b]]]
  BY DEF Disconnect
<1>3. PICK n : n = [io[p] EXCEPT !.jobs = <<>>]
  OBVIOUS
<1>4. n \in LifecycleRecord /\ n.final = io[p].final
  <2>1. PICK e \in LifecycleRecord : e = io[p]
    BY Typing
  <2>2. n = [e EXCEPT !.jobs = <<>>] /\ <<>> \in Seq(Jobs)
    BY <1>3, <2>1
  <2> QED
    BY <2>1, <2>2 DEF LifecycleRecord
<1>5. io' \in [Participants -> LifecycleRecord] /\ io'[p] = n
      /\ \A x \in Participants : x # p => io'[x] = io[x]
  <2>1. io' = [io EXCEPT ![p] = n]
    BY <1>1, <1>3, Typing DEF TypeOK
  <2> QED
    BY <2>1, <1>4, OneIo, Typing
<1>6. Job("End") \in Messages
  BY DEF Job, Messages
<1>7. PICK m \in Messages : m = Job("End")
  BY <1>6
<1>8. ASSUME NEW x \in Participants, NEW y \in Participants
      PROVE  /\ chan'[x][y] \in Seq(Messages)
             /\ Peers(x, y)' => chan'[x][y] = chan[x][y]
             /\ x = p \/ chan'[x][y] \in {<<>>, chan[x][y]}
  <2>1. chan[x][y] \in Seq(Messages) /\ chan[p][y] \in Seq(Messages) /\ <<>> \in Seq(Messages)
    BY Typing
  <2>2. Append(IF y \in lossy THEN <<>> ELSE chan[p][y], m) \in Seq(Messages)
    BY <2>1
  <2> QED
    BY <1>1, <1>2, <1>7, <2>1, <2>2 DEF Peers
<1>9. chan' \in [Participants -> [Participants -> Seq(Messages)]]
  BY <1>2, <1>8
<1>10. TypeOK'
  BY <1>1, <1>5, <1>9, Typing DEF TypeOK
<1>11. \A x, y \in Participants :
         Has(chan[x][y]', Job("End")) => Has(chan[x][y], Job("End")) \/ x \in gone'
  BY <1>1, <1>8, EmptyHas
<1>12. ASSUME NEW x \in Participants, NEW y \in Participants, Peers(x, y)'
       PROVE  TokensKept(x, y) /\ OrderKept(x, y)
  <2>1. x # p /\ y # p /\ Peers(y, x)'
    BY <1>1, <1>12 DEF Peers
  <2>2. io'[x] = io[x] /\ io'[y] = io[y] /\ chan'[x][y] = chan[x][y] /\ chan'[y][x] = chan[y][x]
    BY <2>1, <1>5, <1>8, <1>12
  <2> QED
    BY <2>2, <1>1, NoNewSelf DEF TokensKept, OrderKept, Known
<1>13. \A x \in Participants : io[x].final' = io[x].final
  BY <1>4, <1>5
<1>14. \A x, y \in Participants : Known(x, y) => Known(x, y)'
  BY <1>1 DEF Known
<1> QED
  BY <1>1, <1>10, <1>11, <1>12, <1>13, <1>14, Frame

-----------------------------------------------------------------------------
(* The steps of a barrier. *)

(* The token, deferred as a job. *)
LEMMA TokenDeferred ==
  ASSUME NEW e \in LifecycleRecord, NEW t \in JobTokens
  PROVE  /\ Defer(e, t) \in LifecycleRecord /\ Defer(e, t).final = e.final
         /\ Defer(e, t).jobs = Append(e.jobs, t) /\ e.jobs \in Seq(Jobs) /\ t \in Jobs
         /\ Orderly(e) => Orderly(Defer(e, t))
         /\ \A x \in JobTokens : x # t => NoNew(e.jobs, Defer(e, t).jobs, x)
<1>1. t \in Jobs /\ t # FinalBarrier
  <2>1. t \in Jobs
    BY JobTypes DEF JobTokens
  <2>2. t # FinalBarrier
    BY JobTypes DEF FinalBarrier, Actions
  <2> QED
    BY <2>1, <2>2
<1>2. PICK n : n = Defer(e, t)
  OBVIOUS
<1>3. e.jobs \in Seq(Jobs)
  BY DEF LifecycleRecord
<1>4. Append(e.jobs, t) \in Seq(Jobs)
  BY <1>1, <1>3
<1>5. n \in LifecycleRecord /\ n.final = e.final /\ n.state = e.state
      /\ n.jobs = Append(e.jobs, t)
  BY <1>2, <1>4 DEF Defer, LifecycleRecord
<1>6. ASSUME Orderly(e) PROVE Orderly(n)
  <2>1. Before(n.jobs, ShutdownStatus, FinalBarrier)
    BY <1>1, <1>3, <1>5, <1>6, AppendBefore DEF Orderly
  <2>2. Has(e.jobs, ShutdownStatus) => Has(n.jobs, ShutdownStatus)
    BY <1>1, <1>3, <1>5, AppendHas
  <2> QED
    BY <2>1, <2>2, <1>5, <1>6 DEF Orderly
<1>7. \A x \in JobTokens : x # t => NoNew(e.jobs, n.jobs, x)
  BY <1>1, <1>3, <1>5, AppendHas DEF NoNew
<1> QED
  BY <1>1, <1>2, <1>3, <1>5, <1>6, <1>7

LEMMA TokenFacts ==
  /\ CallToken \in JobTokens /\ \A p \in Participants : ReplyTo(p) \in JobTokens
  /\ \A p \in Participants : ReplyTo(p) # CallToken
  /\ \A p, q \in Participants : ReplyTo(p) = ReplyTo(q) => p = q
  /\ CallToken \in Messages /\ ReplyToken \in Messages /\ CallToken # ReplyToken
  /\ CallToken # ShutdownStatus /\ ReplyToken # ShutdownStatus
  /\ CallToken # Job("End") /\ ReplyToken # Job("End") /\ Job("End") # ShutdownStatus
BY DEF JobTokens, CallToken, ReplyTo, ReplyToken, Job, Messages, ShutdownStatus

(* The step that sends the call to all connected peers. *)
LEMMA CallJobStep ==
  ASSUME Inv, NEW p \in Participants, CallJob(p)
  PROVE  Inv'
<1>1. NextJob(p, "Call") /\ p \notin gone
  BY DEF CallJob, NextJob
<1>2. PICK n : n = Done(p)
  OBVIOUS
<1>3. Follows(io[p], n) /\ n \in LifecycleRecord
  BY <1>1, <1>2, NextJobStep
<1>4. /\ io[p].jobs # <<>> /\ io[p].jobs \in Seq(Jobs) /\ n.jobs = Tail(io[p].jobs)
      /\ Head(io[p].jobs) = CallToken
  <2>1. io[p].jobs # <<>> /\ Head(io[p].jobs)[1] = "Call"
    BY <1>1 DEF NextJob
  <2>2. io[p].jobs \in Seq(Jobs) /\ n.jobs = Tail(io[p].jobs)
    BY <1>2, <2>1, DoneStep, Typing
  <2>3. Head(io[p].jobs) \in Jobs
    BY <2>1, <2>2
  <2> QED
    BY <2>1, <2>2, <2>3, StatusParts
<1>5. /\ chan' = Send(chan, p, conn[p], CallToken) /\ io' = [io EXCEPT ![p] = n]
      /\ UNCHANGED <<life, bar, acks, cache, sys, conn, gone, todo>>
  BY <1>2 DEF CallJob, SendJob, monitorVars, CallToken
<1>6. Sent(chan, chan', p, conn[p], CallToken)
  BY <1>5, SendStep, TokenFacts, Typing
<1>7. io' \in [Participants -> LifecycleRecord] /\ io'[p] = n
      /\ \A x \in Participants : x # p => io'[x] = io[x]
  BY <1>3, <1>5, OneIo, Typing
<1>8. TypeOK'
  BY <1>5, <1>6, <1>7, Typing DEF TypeOK, Sent
<1>9. /\ n.final = io[p].final
      /\ \A t \in JobTokens : NoNew(io[p].jobs, n.jobs, t)
      /\ Orderly(io[p]) => Orderly(n)
  BY <1>3, FollowsNoNew
<1>10. \A x, y \in Participants : chan[x][y] \in Seq(Messages)
  BY Typing
<1>11. ASSUME NEW x \in Participants, NEW y \in Participants
       PROVE  /\ NoNew(chan[x][y], chan'[x][y], ReplyToken)
              /\ NoNew(chan[x][y], chan'[x][y], Job("End"))
  <2>1. chan'[x][y] \in {chan[x][y], Append(chan[x][y], CallToken)}
    BY <1>6 DEF Sent
  <2>2. /\ NoNew(chan[x][y], Append(chan[x][y], CallToken), ReplyToken)
        /\ NoNew(chan[x][y], Append(chan[x][y], CallToken), Job("End"))
    BY <1>10, AppendHas, TokenFacts DEF NoNew
  <2> QED
    BY <2>1, <2>2, NoNewSelf
<1>12. ASSUME NEW x \in Participants, NEW y \in Participants, Peers(x, y), x # p
       PROVE  OneToken(x, y)' /\ Passes(x, y)'
  <2>1. chan'[x][y] = chan[x][y]
    BY <1>6, <1>12 DEF Sent
  <2>2. TokensKept(x, y)
    BY <2>1, <1>7, <1>9, <1>11, <1>12, NoNewSelf, TokenFacts DEF TokensKept
  <2>3. OrderKept(x, y)
    BY <2>1, <1>5, <1>7, <1>12, NoNewSelf DEF OrderKept, Known
  <2> QED
    BY <2>2, <2>3, <1>5, <1>12, PairKept DEF Inv, Tokens, LastBarrier
<1>13. ASSUME NEW y \in Participants, Peers(p, y)
       PROVE  OneToken(p, y)' /\ Passes(p, y)'
  <2>1. OneToken(p, y) /\ Passes(p, y)
    BY <1>13 DEF Inv, Tokens, LastBarrier
  <2>2. y \in conn[p] \ gone /\ y # p
    BY <1>13 DEF Inv, ConnectedIn, Peers
  <2>3. /\ chan'[p][y] = Append(chan[p][y], CallToken) /\ chan'[y][p] = chan[y][p]
        /\ io'[y] = io[y] /\ bar'[p] = bar[p] /\ cache' = cache
    BY <2>2, <1>5, <1>6, <1>7 DEF Sent
  <2>4. /\ Has(io[p].jobs, CallToken) /\ ~Has(n.jobs, CallToken) /\ Once(n.jobs, CallToken)
    BY <2>1, <1>4, TailHas DEF OneToken
  <2>5. /\ ~Has(chan[p][y], CallToken) /\ ~Has(io[y].jobs, ReplyTo(p))
        /\ ~Has(chan[y][p], ReplyToken) /\ y \in bar[p].expect
    BY <2>1, <2>4 DEF OneToken
  <2>6. /\ Once(chan'[p][y], CallToken)
        /\ Has(chan[p][y], ShutdownStatus) => Has(chan'[p][y], ShutdownStatus)
    BY <2>1, <2>3, <2>5, <1>10, AppendHas, TokenFacts DEF OneToken
  <2>7. OneToken(p, y)'
    BY <2>1, <2>3, <2>4, <2>5, <2>6, <1>7 DEF OneToken
  <2>8. ASSUME bar[p].then = "Final", ~Known(p, y)
        PROVE  Before(chan'[p][y], ShutdownStatus, CallToken)
    <3>1. Before(chan[p][y], ShutdownStatus, CallToken) /\ Has(chan[p][y], ShutdownStatus)
      BY <2>1, <2>8 DEF Passes, Told
    <3> QED
      BY <3>1, <2>3, <1>10, AppendBefore, TokenFacts
  <2>9. Known(p, y)' <=> Known(p, y)
    BY <2>3 DEF Known
  <2>10. Told(p, y) => Told(p, y)'
    BY <2>6, <2>9 DEF Told
  <2>11. Told(p, y)' \/ Orderly(io[p])'
    BY <2>1, <2>10, <1>7, <1>9 DEF Passes
  <2>12. ASSUME bar[p].then = "Final"
         PROVE  /\ Told(p, y)'
                /\ Known(p, y)' \/ Before(chan[p][y], ShutdownStatus, CallToken)'
                /\ (Has(io[y].jobs, ReplyTo(p)) \/ Has(chan[y][p], ReplyToken)
                      \/ y \notin bar[p].expect)' => Known(p, y)'
    BY <2>1, <2>3, <2>5, <2>8, <2>9, <2>10, <2>12 DEF Passes
  <2>13. Passes(p, y)'
    BY <2>3, <2>11, <2>12 DEF Passes
  <2> QED
    BY <2>7, <2>13
<1>14. Tokens' /\ LastBarrier'
  <2>1. \A x, y \in Participants : Peers(x, y)' => Peers(x, y)
    BY <1>5 DEF Peers
  <2> QED
    BY <2>1, <1>12, <1>13 DEF Tokens, LastBarrier
<1>15. BarrierTypes' /\ Finished' /\ ConnectedIn'
  <2>1. \A x \in Participants : io[x].final' = io[x].final
    BY <1>7, <1>9
  <2>2. BarrierTypes' /\ Finished'
    BY <2>1, <1>5 DEF Inv, BarrierTypes, Finished, Known
  <2>3. ConnectedIn'
    BY <1>5, <1>11 DEF Inv, ConnectedIn, Peers, NoNew
  <2> QED
    BY <2>2, <2>3
<1> QED
  BY <1>8, <1>14, <1>15 DEF Inv

(* The step that sends the reply to the participant that called. *)
LEMMA ReplyJobStep ==
  ASSUME Inv, NEW p \in Participants, ReplyJob(p)
  PROVE  Inv'
<1>1. NextJob(p, "Reply") /\ p \notin gone
  BY DEF ReplyJob, NextJob
<1>2. PICK n : n = Done(p)
  OBVIOUS
<1>3. Follows(io[p], n) /\ n \in LifecycleRecord
  BY <1>1, <1>2, NextJobStep
<1>4. \E z \in Participants :
        /\ io[p].jobs # <<>> /\ io[p].jobs \in Seq(Jobs) /\ n.jobs = Tail(io[p].jobs)
        /\ Head(io[p].jobs) = ReplyTo(z) /\ Argument(p) = z
  <2>1. io[p].jobs # <<>> /\ Head(io[p].jobs)[1] = "Reply"
    BY <1>1 DEF NextJob
  <2>2. io[p].jobs \in Seq(Jobs) /\ n.jobs = Tail(io[p].jobs)
    BY <1>2, <2>1, DoneStep, Typing
  <2>3. Head(io[p].jobs) \in Jobs
    BY <2>1, <2>2
  <2>4. PICK z \in Participants : Head(io[p].jobs) = <<"Reply", z>>
    BY <2>1, <2>3, StatusParts
  <2>5. Argument(p) = z /\ Head(io[p].jobs) = ReplyTo(z)
    BY <2>4 DEF Argument, ReplyTo
  <2> QED
    BY <2>1, <2>2, <2>5
<1>5. PICK z \in Participants :
        /\ io[p].jobs # <<>> /\ io[p].jobs \in Seq(Jobs) /\ n.jobs = Tail(io[p].jobs)
        /\ Head(io[p].jobs) = ReplyTo(z) /\ Argument(p) = z
  BY <1>4
<1>6. /\ chan' = Send(chan, p, {z}, ReplyToken) /\ io' = [io EXCEPT ![p] = n]
      /\ UNCHANGED <<life, bar, acks, cache, sys, conn, gone, todo>>
  BY <1>2, <1>5 DEF ReplyJob, SendJob, monitorVars, ReplyToken
<1>7. Sent(chan, chan', p, {z}, ReplyToken)
  BY <1>6, SendStep, TokenFacts, Typing
<1>8. io' \in [Participants -> LifecycleRecord] /\ io'[p] = n
      /\ \A x \in Participants : x # p => io'[x] = io[x]
  BY <1>3, <1>6, OneIo, Typing
<1>9. TypeOK'
  BY <1>6, <1>7, <1>8, Typing DEF TypeOK, Sent
<1>10. /\ n.final = io[p].final
       /\ \A t \in JobTokens : NoNew(io[p].jobs, n.jobs, t)
       /\ Orderly(io[p]) => Orderly(n)
  BY <1>3, FollowsNoNew
<1>11. \A x, y \in Participants : chan[x][y] \in Seq(Messages)
  BY Typing
<1>12. ASSUME NEW x \in Participants, NEW y \in Participants
       PROVE  /\ NoNew(chan[x][y], chan'[x][y], CallToken)
              /\ NoNew(chan[x][y], chan'[x][y], Job("End"))
              /\ KeepsOrder(chan[x][y], chan'[x][y])
  <2>1. chan'[x][y] \in {chan[x][y], Append(chan[x][y], ReplyToken)}
    BY <1>7 DEF Sent
  <2>2. /\ NoNew(chan[x][y], Append(chan[x][y], ReplyToken), CallToken)
        /\ NoNew(chan[x][y], Append(chan[x][y], ReplyToken), Job("End"))
    BY <1>11, AppendHas, TokenFacts DEF NoNew
  <2>3. KeepsOrder(chan[x][y], Append(chan[x][y], ReplyToken))
    BY <1>11, AppendHas, AppendBefore, TokenFacts DEF KeepsOrder
  <2> QED
    BY <2>1, <2>2, <2>3, NoNewSelf
<1>13. ASSUME NEW x \in Participants, NEW y \in Participants, Peers(x, y)
       PROVE  OrderKept(x, y)
  BY <1>6, <1>8, <1>10, <1>12 DEF OrderKept, Known
<1>14. ASSUME NEW x \in Participants, NEW y \in Participants, Peers(x, y), ~(x = z /\ y = p)
       PROVE  OneToken(x, y)' /\ Passes(x, y)'
  <2>1. NoNew(chan[y][x], chan'[y][x], ReplyToken)
    <3>1. chan'[y][x] = chan[y][x]
      BY <1>7, <1>14 DEF Sent
    <3> QED
      BY <3>1, NoNewSelf
  <2>2. TokensKept(x, y)
    BY <2>1, <1>8, <1>10, <1>12, NoNewSelf, TokenFacts DEF TokensKept
  <2> QED
    BY <2>2, <1>6, <1>13, <1>14, PairKept DEF Inv, Tokens, LastBarrier
<1>15. ASSUME Peers(z, p)
       PROVE  OneToken(z, p)' /\ Passes(z, p)'
  <2>1. OneToken(z, p) /\ Passes(z, p)
    BY <1>15 DEF Inv, Tokens, LastBarrier
  <2>2. z # p /\ z \notin gone
    BY <1>15 DEF Peers
  <2>3. /\ chan'[p][z] = Append(chan[p][z], ReplyToken) /\ chan'[z][p] = chan[z][p]
        /\ io'[z] = io[z] /\ bar'[z] = bar[z] /\ cache' = cache
    BY <2>2, <1>6, <1>7, <1>8 DEF Sent
  <2>4. /\ Has(io[p].jobs, ReplyTo(z)) /\ ~Has(n.jobs, ReplyTo(z)) /\ Once(n.jobs, ReplyTo(z))
    BY <2>1, <1>5, TailHas DEF OneToken
  <2>5. /\ ~Has(chan[z][p], CallToken) /\ ~Has(io[z].jobs, CallToken)
        /\ ~Has(chan[p][z], ReplyToken) /\ p \in bar[z].expect
    BY <2>1, <2>4 DEF OneToken
  <2>6. Once(chan'[p][z], ReplyToken)
    BY <2>1, <2>3, <2>5, <1>11, AppendHas, TokenFacts DEF OneToken
  <2>7. OneToken(z, p)'
    BY <2>1, <2>3, <2>4, <2>5, <2>6, <1>8 DEF OneToken
  <2>8. OrderKept(z, p)
    BY <1>13, <1>15
  <2>9. Known(z, p)' <=> Known(z, p)
    BY <2>3 DEF Known
  <2>10. Told(z, p) => Told(z, p)'
    BY <2>3, <2>9 DEF Told
  <2>11. Told(z, p)' \/ Orderly(io[z])'
    BY <2>1, <2>3, <2>10 DEF Passes
  <2>12. ASSUME bar[z].then = "Final"
         PROVE  Told(z, p)' /\ Known(z, p)'
    BY <2>1, <2>4, <2>9, <2>10, <2>12 DEF Passes
  <2>13. Passes(z, p)'
    BY <2>3, <2>11, <2>12 DEF Passes
  <2> QED
    BY <2>7, <2>13
<1>16. Tokens' /\ LastBarrier'
  <2>1. \A x, y \in Participants : Peers(x, y)' => Peers(x, y)
    BY <1>6 DEF Peers
  <2> QED
    BY <2>1, <1>14, <1>15 DEF Tokens, LastBarrier
<1>17. BarrierTypes' /\ Finished' /\ ConnectedIn'
  <2>1. \A x \in Participants : io[x].final' = io[x].final
    BY <1>8, <1>10
  <2>2. BarrierTypes' /\ Finished'
    BY <2>1, <1>6 DEF Inv, BarrierTypes, Finished, Known
  <2>3. ConnectedIn'
    BY <1>6, <1>12 DEF Inv, ConnectedIn, Peers, NoNew
  <2> QED
    BY <2>2, <2>3
<1> QED
  BY <1>9, <1>16, <1>17 DEF Inv

(* The step that starts a barrier, or completes one that waits for nobody. *)
LEMMA BarrierJobStep ==
  ASSUME Inv, NEW p \in Participants, BarrierJob(p)
  PROVE  Inv'
<1>1. NextJob(p, "Barrier") /\ p \notin gone
      /\ UNCHANGED <<life, acks, cache, sys, conn, chan, gone, todo>>
  BY DEF BarrierJob, NextJob, monitorVars
<1>2. PICK d : d = Done(p)
  OBVIOUS
<1>3. Follows(io[p], d) /\ d \in LifecycleRecord
  BY <1>1, <1>2, NextJobStep
<1>4. \E a \in Actions :
        /\ io[p].jobs # <<>> /\ io[p].jobs \in Seq(Jobs) /\ d.jobs = Tail(io[p].jobs)
        /\ Head(io[p].jobs) = <<"Barrier", a>> /\ Argument(p) = a
  <2>1. io[p].jobs # <<>> /\ Head(io[p].jobs)[1] = "Barrier"
    BY <1>1 DEF NextJob
  <2>2. io[p].jobs \in Seq(Jobs) /\ d.jobs = Tail(io[p].jobs)
    BY <1>2, <2>1, DoneStep, Typing
  <2>3. Head(io[p].jobs) \in Jobs
    BY <2>1, <2>2
  <2>4. PICK a \in Actions : Head(io[p].jobs) = <<"Barrier", a>>
    BY <2>1, <2>3, StatusParts
  <2>5. Argument(p) = a
    BY <2>4 DEF Argument
  <2> QED
    BY <2>1, <2>2, <2>4, <2>5
<1>5. PICK a \in Actions :
        /\ io[p].jobs # <<>> /\ io[p].jobs \in Seq(Jobs) /\ d.jobs = Tail(io[p].jobs)
        /\ Head(io[p].jobs) = <<"Barrier", a>> /\ Argument(p) = a
  BY <1>4
<1>6. /\ d.final = io[p].final
      /\ \A t \in JobTokens : NoNew(io[p].jobs, d.jobs, t)
      /\ Orderly(io[p]) => Orderly(d)
  BY <1>3, FollowsNoNew
<1>7. CASE bar[p] # NoBarrier
  <2>1. io' = [io EXCEPT ![p] = d] /\ UNCHANGED bar
    BY <1>2, <1>7 DEF BarrierJob
  <2>2. life' \in [Participants -> Lives]
    BY <1>1, Typing
  <2> QED
    BY <2>1, <2>2, <1>1, <1>3, IoOnly
<1>8. CASE bar[p] = NoBarrier /\ conn[p] = {}
  <2>1. PICK n \in Complete(p, d, a) : io' = [io EXCEPT ![p] = n]
    BY <1>2, <1>5, <1>8 DEF BarrierJob
  <2>2. UNCHANGED bar
    BY <1>8 DEF BarrierJob
  <2>3. n \in LifecycleRecord /\ Quiet(d, n)
    BY <2>1, <1>3, CompleteStep
  <2>4. \A t \in JobTokens : NoNew(io[p].jobs, n.jobs, t)
    BY <2>3, <1>6 DEF Quiet, NoNew
  <2>5. Orderly(io[p]) => Orderly(n)
    BY <2>3, <1>6 DEF Quiet
  <2>6. io' \in [Participants -> LifecycleRecord] /\ io'[p] = n
        /\ \A x \in Participants : x # p => io'[x] = io[x]
    BY <2>1, <2>3, OneIo, Typing
  <2>7. TypeOK'
    BY <2>2, <2>6, <1>1, Typing DEF TypeOK
  <2>8. ASSUME NEW x \in Participants, NEW y \in Participants, Peers(x, y)
        PROVE  OneToken(x, y)' /\ Passes(x, y)'
    <3>1. TokensKept(x, y)
      BY <2>4, <2>6, <1>1, NoNewSelf, TokenFacts DEF TokensKept
    <3>2. OrderKept(x, y)
      BY <2>5, <2>6, <1>1, NoNewSelf DEF OrderKept, Known
    <3> QED
      BY <3>1, <3>2, <2>2, <2>8, PairKept DEF Inv, Tokens, LastBarrier
  <2>9. Tokens' /\ LastBarrier'
    <3>1. \A x, y \in Participants : Peers(x, y)' => Peers(x, y)
      BY <1>1 DEF Peers
    <3> QED
      BY <3>1, <2>8 DEF Tokens, LastBarrier
  <2>10. BarrierTypes' /\ ConnectedIn'
    BY <2>2, <1>1 DEF Inv, BarrierTypes, ConnectedIn, Peers
  <2>11. Finished'
    <3>1. SUFFICES ASSUME NEW x \in Participants, NEW y \in Participants, x # y,
                          y \notin gone, x \in conn[y], io'[x].final # NoStatus
                   PROVE  Known(x, y)
      BY <1>1 DEF Finished, Known
    <3>2. x # p
      BY <3>1, <1>1, <1>8 DEF Inv, ConnectedIn, Peers
    <3> QED
      BY <3>1, <3>2, <2>6 DEF Inv, Finished
  <2> QED
    BY <2>7, <2>9, <2>10, <2>11 DEF Inv
<1>9. CASE bar[p] = NoBarrier /\ conn[p] # {}
  <2>1. PICK n : n = Defer(d, CallToken)
    OBVIOUS
  <2>2. /\ bar' = [bar EXCEPT ![p] = [expect |-> conn[p], then |-> a]]
        /\ io' = [io EXCEPT ![p] = n]
    BY <2>1, <1>2, <1>5, <1>9 DEF BarrierJob, CallToken
  <2>3. /\ n \in LifecycleRecord /\ n.final = d.final
        /\ n.jobs = Append(d.jobs, CallToken) /\ d.jobs \in Seq(Jobs) /\ CallToken \in Jobs
        /\ Orderly(d) => Orderly(n)
        /\ \A x \in JobTokens : x # CallToken => NoNew(d.jobs, n.jobs, x)
    BY <2>1, <1>3, TokenDeferred, TokenFacts
  <2>4. io' \in [Participants -> LifecycleRecord] /\ io'[p] = n
        /\ \A x \in Participants : x # p => io'[x] = io[x]
    BY <2>2, <2>3, OneIo, Typing
  <2>5. /\ bar' \in [Participants -> [expect : SUBSET Participants, then : Actions \cup {"none"}]]
        /\ bar'[p].expect = conn[p] /\ bar'[p].then = a
        /\ \A x \in Participants : x # p => bar'[x] = bar[x]
    BY <2>2, Typing DEF TypeOK
  <2>6. TypeOK'
    BY <2>4, <2>5, <1>1, Typing DEF TypeOK
  <2>7. ASSUME NEW x \in Participants, NEW y \in Participants, Peers(x, y), x # p
        PROVE  OneToken(x, y)' /\ Passes(x, y)'
    <3>1. NoNew(io[p].jobs, n.jobs, ReplyTo(x))
      BY <2>3, <1>6, TokenFacts DEF NoNew
    <3>2. TokensKept(x, y)
      BY <3>1, <2>4, <2>7, <1>1, NoNewSelf DEF TokensKept
    <3>3. OrderKept(x, y)
      BY <2>4, <2>7, <1>1, NoNewSelf DEF OrderKept, Known
    <3> QED
      BY <3>2, <3>3, <2>5, <2>7, PairKept DEF Inv, Tokens, LastBarrier
  <2>8. ASSUME NEW y \in Participants, Peers(p, y)
        PROVE  OneToken(p, y)' /\ Passes(p, y)'
    <3>1. OneToken(p, y) /\ Passes(p, y) /\ y \in conn[p] /\ y # p
      BY <2>8 DEF Inv, Tokens, LastBarrier, ConnectedIn, Peers
    <3>2. y \notin bar[p].expect
      BY <1>9 DEF NoBarrier
    <3>3. /\ ~Has(io[p].jobs, CallToken) /\ ~Has(chan[p][y], CallToken)
          /\ ~Has(io[y].jobs, ReplyTo(p)) /\ ~Has(chan[y][p], ReplyToken)
      BY <3>1, <3>2 DEF OneToken
    <3>4. ~Has(d.jobs, CallToken) /\ Once(d.jobs, CallToken)
      BY <3>1, <3>3, <1>6, TokenFacts DEF NoNew, OneToken
    <3>5. Once(n.jobs, CallToken)
      BY <3>4, <2>3, AppendHas
    <3>6. io'[y] = io[y] /\ chan' = chan /\ cache' = cache
      BY <3>1, <2>4, <1>1
    <3>7. OneToken(p, y)'
      BY <3>1, <3>3, <3>5, <3>6, <2>4, <2>5 DEF OneToken
    <3>8. Told(p, y) \/ Orderly(n)
      BY <3>1, <2>3, <1>6 DEF Passes
    <3>9. a = "Final" => Told(p, y)
      <4>1. SUFFICES ASSUME a = "Final" PROVE ~Orderly(io[p])
        BY <3>1 DEF Passes
      <4>2. Head(io[p].jobs) = FinalBarrier
        BY <4>1, <1>5 DEF FinalBarrier
      <4> QED
        BY <4>2, <1>5, TailBefore DEF Orderly
    <3>10. Before(chan[p][y], ShutdownStatus, CallToken)
      BY <3>3 DEF Has, Before
    <3>11. (Told(p, y)' <=> Told(p, y)) /\ (Known(p, y)' <=> Known(p, y))
      BY <3>6 DEF Told, Known
    <3>12. Passes(p, y)'
      BY <3>1, <3>3, <3>6, <3>8, <3>9, <3>10, <3>11, <2>4, <2>5 DEF Passes
    <3> QED
      BY <3>7, <3>12
  <2>9. Tokens' /\ LastBarrier'
    <3>1. \A x, y \in Participants : Peers(x, y)' => Peers(x, y)
      BY <1>1 DEF Peers
    <3> QED
      BY <3>1, <2>7, <2>8 DEF Tokens, LastBarrier
  <2>10. BarrierTypes' /\ ConnectedIn'
    BY <2>5, <1>1 DEF Inv, BarrierTypes, ConnectedIn, Peers
  <2>11. Finished'
    <3>1. \A x \in Participants : io[x].final' = io[x].final
      BY <2>3, <2>4, <1>6
    <3> QED
      BY <3>1, <1>1 DEF Inv, Finished, Known
  <2> QED
    BY <2>6, <2>9, <2>10, <2>11 DEF Inv
<1> QED
  BY <1>7, <1>8, <1>9

(* The call arrives: behind the status Shutdown, if it is the last one. *)
LEMMA ReceiveCallStep ==
  ASSUME Inv, NEW p \in Participants, NEW q \in Participants, ReceiveCall(p, q)
  PROVE  Inv'
<1>1. /\ chan[q][p] # <<>> /\ Head(chan[q][p])[1] = "Call" /\ chan' = Taken(p, q)
      /\ io' = [io EXCEPT ![p] = Defer(io[p], ReplyTo(q))]
      /\ UNCHANGED <<life, bar, acks, cache, sys, conn, gone, todo>>
  BY DEF ReceiveCall, Receives, monitorVars, ReplyTo
<1>2. /\ chan' \in [Participants -> [Participants -> Seq(Messages)]]
      /\ Head(chan[q][p]) \in Messages
      /\ \A x, y \in Participants : QuietQueue(chan[x][y], chan[x][y]')
      /\ \A x, y \in Participants :
           (x = q /\ y = p /\ Head(chan[q][p]) = ShutdownStatus)
             \/ KeepsOrder(chan[x][y], chan[x][y]')
  BY <1>1, QuietTaken
<1>3. /\ \A x, y \in Participants :
           chan'[x][y] = IF x = q /\ y = p THEN Tail(chan[x][y]) ELSE chan[x][y]
      /\ chan[q][p] \in Seq(Messages)
  BY <1>1, TakenStep, Typing
<1>4. Head(chan[q][p]) = CallToken
  BY <1>1, <1>2, StatusParts
<1>5. PICK n : n = Defer(io[p], ReplyTo(q))
  OBVIOUS
<1>6. /\ n \in LifecycleRecord /\ n.final = io[p].final
      /\ n.jobs = Append(io[p].jobs, ReplyTo(q)) /\ io[p].jobs \in Seq(Jobs)
      /\ ReplyTo(q) \in Jobs
      /\ Orderly(io[p]) => Orderly(n)
      /\ \A x \in JobTokens : x # ReplyTo(q) => NoNew(io[p].jobs, n.jobs, x)
  BY <1>5, TokenDeferred, TokenFacts, Typing
<1>7. io' \in [Participants -> LifecycleRecord] /\ io'[p] = n
      /\ \A x \in Participants : x # p => io'[x] = io[x]
  BY <1>1, <1>5, <1>6, OneIo, Typing
<1>8. TypeOK'
  BY <1>1, <1>2, <1>7, Typing DEF TypeOK
<1>9. \A x, y \in Participants : KeepsOrder(chan[x][y], chan'[x][y])
  BY <1>2, <1>4, TokenFacts
<1>10. \A x, y \in Participants : Peers(x, y) => OrderKept(x, y)
  BY <1>1, <1>6, <1>7, <1>9 DEF OrderKept, Known
<1>11. ASSUME NEW x \in Participants, NEW y \in Participants, Peers(x, y), ~(x = q /\ y = p)
       PROVE  OneToken(x, y)' /\ Passes(x, y)'
  <2>1. NoNew(io[x].jobs, io'[x].jobs, CallToken)
    BY <1>6, <1>7, NoNewSelf, TokenFacts
  <2>2. NoNew(io[y].jobs, io'[y].jobs, ReplyTo(x))
    <3>1. CASE y # p
      BY <3>1, <1>7, NoNewSelf
    <3>2. CASE y = p
      <4>1. ReplyTo(x) # ReplyTo(q) /\ ReplyTo(x) \in JobTokens
        BY <3>2, <1>11, TokenFacts
      <4> QED
        BY <4>1, <3>2, <1>6, <1>7
    <3> QED
      BY <3>1, <3>2
  <2>3. TokensKept(x, y)
    BY <2>1, <2>2, <1>2 DEF TokensKept, QuietQueue
  <2> QED
    BY <2>3, <1>1, <1>10, <1>11, PairKept DEF Inv, Tokens, LastBarrier
<1>12. ASSUME Peers(q, p)
       PROVE  OneToken(q, p)' /\ Passes(q, p)'
  <2>1. OneToken(q, p) /\ Passes(q, p) /\ q # p
    BY <1>12 DEF Inv, Tokens, LastBarrier, Peers
  <2>2. /\ Has(chan[q][p], CallToken) /\ ~Has(chan'[q][p], CallToken)
        /\ Once(chan'[q][p], CallToken)
    BY <2>1, <1>1, <1>3, <1>4, TailHas DEF OneToken
  <2>3. /\ ~Has(io[q].jobs, CallToken) /\ ~Has(io[p].jobs, ReplyTo(q))
        /\ ~Has(chan[p][q], ReplyToken) /\ p \in bar[q].expect
    BY <2>1, <2>2 DEF OneToken
  <2>4. io'[q] = io[q] /\ chan'[p][q] = chan[p][q] /\ bar' = bar /\ cache' = cache
    BY <2>1, <1>1, <1>3, <1>7
  <2>5. Once(n.jobs, ReplyTo(q))
    BY <2>1, <2>3, <1>6, AppendHas DEF OneToken
  <2>6. OneToken(q, p)'
    BY <2>1, <2>2, <2>3, <2>4, <2>5, <1>7 DEF OneToken
  <2>7. OrderKept(q, p)
    BY <1>10, <1>12
  <2>8. (Known(q, p)' <=> Known(q, p)) /\ (Told(q, p) => Told(q, p)')
    BY <2>4, <1>9 DEF Known, Told, KeepsOrder
  <2>9. bar[q].then = "Final" => Known(q, p)
    <3>1. ~Before(chan[q][p], ShutdownStatus, CallToken)
      BY <1>1, <1>3, <1>4, TailBefore
    <3> QED
      BY <3>1, <2>1 DEF Passes
  <2>10. Told(q, p)' \/ Orderly(io[q])'
    BY <2>1, <2>4, <2>8 DEF Passes
  <2>11. bar[q].then = "Final" => Known(q, p)' /\ Told(q, p)'
    BY <2>8, <2>9 DEF Told
  <2>12. Passes(q, p)'
    BY <2>4, <2>10, <2>11 DEF Passes
  <2> QED
    BY <2>6, <2>12
<1>13. Tokens' /\ LastBarrier'
  <2>1. \A x, y \in Participants : Peers(x, y)' => Peers(x, y)
    BY <1>1 DEF Peers
  <2> QED
    BY <2>1, <1>11, <1>12 DEF Tokens, LastBarrier
<1>14. BarrierTypes' /\ Finished' /\ ConnectedIn'
  <2>1. \A x \in Participants : io[x].final' = io[x].final
    BY <1>6, <1>7
  <2>2. BarrierTypes' /\ Finished'
    BY <2>1, <1>1 DEF Inv, BarrierTypes, Finished, Known
  <2>3. ConnectedIn'
    BY <1>1, <1>2 DEF Inv, ConnectedIn, Peers, NoNew, QuietQueue
  <2> QED
    BY <2>2, <2>3
<1> QED
  BY <1>8, <1>13, <1>14 DEF Inv

(* q has replied or is lost: the barrier of p is completed if p expected   *)
(* nobody else, and then everybody knows of the shutdown it was about.     *)
LEMMA ReturnStep ==
  ASSUME Inv, NEW p \in Participants, NEW q \in Participants, p \notin gone,
         chan[q][p] # <<>>, chan' = Taken(p, q),
         Head(chan[q][p]) = ReplyToken \/ (Head(chan[q][p]) = Job("End") /\ q \in gone),
         NEW e \in ReceiveCallReturn(p, bar[p], q), NEW n, Follows(e, n),
         io' = [io EXCEPT ![p] = n],
         bar' = [bar EXCEPT ![p] = BarrierWithout(bar[p], q)],
         cache' \in [Participants -> [Participants -> ParticipantStates \cup {NoStatus}]],
         sys' \in [Participants -> ParticipantStates],
         conn' \in [Participants -> SUBSET Participants],
         \A y \in Participants : conn'[y] \subseteq conn[y],
         \A x, y \in Participants : Peers(x, y) => y \in conn'[x],
         \A x, y \in Participants : x \in conn'[y] => (Known(x, y) => Known(x, y)'),
         UNCHANGED <<life, acks, gone, todo>>
  PROVE  Inv'
<1>1. /\ chan' \in [Participants -> [Participants -> Seq(Messages)]]
      /\ \A x, y \in Participants : QuietQueue(chan[x][y], chan[x][y]')
      /\ \A x, y \in Participants : KeepsOrder(chan[x][y], chan[x][y]')
  BY QuietTaken, TokenFacts
<1>2. /\ \A x, y \in Participants :
           chan'[x][y] = IF x = q /\ y = p THEN Tail(chan[x][y]) ELSE chan[x][y]
      /\ chan[q][p] \in Seq(Messages)
  BY TakenStep, Typing
<1>3. bar[p] \in [expect : SUBSET Participants, then : Actions \cup {"none"}]
  BY DEF Inv, TypeOK
<1>4. PICK b : b = BarrierWithout(bar[p], q)
  OBVIOUS
<1>5. /\ b \in [expect : SUBSET Participants, then : Actions \cup {"none"}]
      /\ b.expect = bar[p].expect \ {q}
      /\ b = NoBarrier \/ (b.then = bar[p].then /\ bar[p] # NoBarrier)
      /\ NoBarrier.then = "none" /\ NoBarrier.expect = {}
  <2>1. NoBarrier \in [expect : SUBSET Participants, then : Actions \cup {"none"}]
        /\ NoBarrier.then = "none" /\ NoBarrier.expect = {}
    BY DEF NoBarrier
  <2>2. CASE bar[p].expect \ {q} = {}
    <3>1. b = NoBarrier
      BY <1>4, <2>2 DEF BarrierWithout
    <3> QED
      BY <3>1, <2>1, <2>2
  <2>3. CASE bar[p].expect \ {q} # {}
    <3>1. b = [bar[p] EXCEPT !.expect = @ \ {q}]
      BY <1>4, <2>3 DEF BarrierWithout
    <3>2. b.expect = bar[p].expect \ {q} /\ b.then = bar[p].then
      BY <3>1, <1>3
    <3>3. b \in [expect : SUBSET Participants, then : Actions \cup {"none"}]
      BY <3>1, <1>3
    <3>4. bar[p] # NoBarrier
      BY <2>1, <2>3
    <3> QED
      BY <2>1, <3>2, <3>3, <3>4
  <2> QED
    BY <2>2, <2>3
<1>6. /\ bar' \in [Participants -> [expect : SUBSET Participants, then : Actions \cup {"none"}]]
      /\ bar'[p] = b /\ \A x \in Participants : x # p => bar'[x] = bar[x]
  BY <1>4, <1>5 DEF Inv, TypeOK
<1>7. /\ e \in LifecycleRecord /\ Quiet(io[p], e)
      /\ e.final = io[p].final \/ (bar[p].then = "Final" /\ bar[p].expect \ {q} = {})
  <2>1. CASE bar[p] # NoBarrier /\ b = NoBarrier
    <3>1. e \in Complete(p, io[p], bar[p].then) /\ bar[p].then \in Actions
      BY <2>1, <1>4 DEF ReceiveCallReturn, Inv, BarrierTypes
    <3>2. bar[p].expect \ {q} = {}
      BY <2>1, <1>5
    <3> QED
      BY <3>1, <3>2, CompleteStep, Typing
  <2>2. CASE ~(bar[p] # NoBarrier /\ b = NoBarrier)
    <3>1. e = io[p]
      BY <2>2, <1>4 DEF ReceiveCallReturn
    <3> QED
      BY <3>1, SelfFollows, Typing DEF Follows
  <2> QED
    BY <2>1, <2>2
<1>8. /\ n \in LifecycleRecord /\ n.final = e.final
      /\ \A t \in JobTokens : NoNew(io[p].jobs, n.jobs, t)
      /\ Orderly(io[p]) => Orderly(n)
  BY <1>7 DEF Follows, Quiet, NoNew
<1>9. io' \in [Participants -> LifecycleRecord] /\ io'[p] = n
      /\ \A x \in Participants : x # p => io'[x] = io[x]
  BY <1>8, OneIo, Typing
<1>10. TypeOK'
  BY <1>1, <1>6, <1>9, Typing DEF TypeOK
<1>11. \A x, y \in Participants : Peers(x, y) => (Known(x, y) => Known(x, y)')
  BY DEF Peers
<1>12. \A x, y \in Participants : Peers(x, y) => TokensKept(x, y) /\ OrderKept(x, y)
  <2>1. \A x \in Participants : \A t \in JobTokens : NoNew(io[x].jobs, io'[x].jobs, t)
    BY <1>8, <1>9, NoNewSelf
  <2>2. \A x, y \in Participants : TokensKept(x, y)
    BY <2>1, <1>1, TokenFacts DEF TokensKept, QuietQueue
  <2>3. \A x, y \in Participants : Peers(x, y) => OrderKept(x, y)
    BY <1>1, <1>8, <1>9, <1>11 DEF OrderKept
  <2> QED
    BY <2>2, <2>3
<1>13. ASSUME NEW x \in Participants, NEW y \in Participants, Peers(x, y), x # p
       PROVE  OneToken(x, y)' /\ Passes(x, y)'
  BY <1>6, <1>12, <1>13, PairKept DEF Inv, Tokens, LastBarrier
<1>14. ASSUME NEW y \in Participants, Peers(p, y)
       PROVE  /\ OneToken(p, y)' /\ Passes(p, y)'
              /\ bar[p].then = "Final" /\ bar[p].expect \ {q} = {} => Known(p, y)
  <2>1. OneToken(p, y) /\ Passes(p, y) /\ y # p /\ TokensKept(p, y) /\ OrderKept(p, y)
    BY <1>12, <1>14 DEF Inv, Tokens, LastBarrier, Peers
  <2>2. CASE y = q
    <3>1. Head(chan[q][p]) = ReplyToken
      BY <2>2, <1>14 DEF Peers
    <3>2. Has(chan[q][p], ReplyToken) /\ ~Has(chan'[q][p], ReplyToken)
      BY <3>1, <2>1, <2>2, <1>2, TailHas DEF OneToken
    <3>3. /\ ~Has(io[p].jobs, CallToken) /\ ~Has(chan[p][y], CallToken)
          /\ ~Has(io[y].jobs, ReplyTo(p))
      BY <3>2, <2>1, <2>2 DEF OneToken
    <3>4. /\ ~Has(io[p].jobs, CallToken)' /\ ~Has(chan[p][y], CallToken)'
          /\ ~Has(io[y].jobs, ReplyTo(p))' /\ ~Has(chan[y][p], ReplyToken)'
      BY <3>2, <3>3, <2>1, <2>2 DEF TokensKept, NoNew
    <3>5. OneToken(p, y)'
      BY <3>4, <2>1 DEF OneToken, TokensKept, NoNew
    <3>6. bar[p].then = "Final" => Known(p, y)
      BY <3>2, <2>1, <2>2 DEF Passes
    <3>7. Told(p, y) => Told(p, y)'
      BY <2>1 DEF Told, OrderKept, KeepsOrder
    <3>8. Told(p, y)' \/ Orderly(io[p])'
      BY <3>7, <2>1 DEF Passes, OrderKept
    <3>9. bar'[p].then = "Final" => Known(p, y)' /\ Told(p, y)'
      BY <3>6, <2>1, <1>5, <1>6 DEF OrderKept, Told
    <3>10. Passes(p, y)'
      BY <3>8, <3>9 DEF Passes
    <3> QED
      BY <3>5, <3>6, <3>10
  <2>3. CASE y # q
    <3>1. y \in bar'[p].expect <=> y \in bar[p].expect
      BY <2>3, <1>5, <1>6
    <3>2. OneToken(p, y)'
      BY <3>1, <2>1 DEF OneToken, TokensKept, NoNew
    <3>3. Told(p, y) => Told(p, y)'
      BY <2>1 DEF Told, OrderKept, KeepsOrder
    <3>4. Told(p, y)' \/ Orderly(io[p])'
      BY <3>3, <2>1 DEF Passes, OrderKept
    <3>5. bar'[p].then = "Final" => bar[p].then = "Final"
      BY <1>5, <1>6
    <3>6. ASSUME bar[p].then = "Final"
          PROVE  /\ Told(p, y)'
                 /\ Known(p, y)' \/ Before(chan[p][y], ShutdownStatus, CallToken)'
                 /\ (Has(io[y].jobs, ReplyTo(p)) \/ Has(chan[y][p], ReplyToken)
                       \/ y \notin bar[p].expect)' => Known(p, y)'
      BY <3>1, <3>3, <3>6, <2>1 DEF Passes, OrderKept, TokensKept, NoNew, KeepsOrder
    <3>7. Passes(p, y)'
      BY <3>4, <3>5, <3>6 DEF Passes
    <3>8. bar[p].then = "Final" /\ bar[p].expect \ {q} = {} => Known(p, y)
      BY <2>1, <2>3 DEF Passes
    <3> QED
      BY <3>2, <3>7, <3>8
  <2> QED
    BY <2>2, <2>3
<1>15. Tokens' /\ LastBarrier'
  <2>1. \A x, y \in Participants : Peers(x, y)' => Peers(x, y)
    BY DEF Peers
  <2> QED
    BY <2>1, <1>13, <1>14 DEF Tokens, LastBarrier
<1>16. BarrierTypes'
  <2>1. \A x \in Participants : bar[x] = NoBarrier \/ bar[x].then \in Actions
    BY DEF Inv, BarrierTypes
  <2>2. b = NoBarrier \/ b.then \in Actions
    BY <2>1, <1>5
  <2>3. \A x \in Participants : bar'[x] = NoBarrier \/ bar'[x].then \in Actions
    BY <2>1, <2>2, <1>6
  <2> QED
    BY <2>3 DEF BarrierTypes, NoBarrier
<1>17. ConnectedIn'
  <2>1. \A x, y \in Participants : Peers(x, y)' => Peers(x, y)
    BY DEF Peers
  <2>2. \A x, y \in Participants : Has(chan'[y][x], Job("End")) => y \in gone
    BY <1>1 DEF Inv, ConnectedIn, QuietQueue, NoNew
  <2> QED
    BY <2>1, <2>2 DEF ConnectedIn
<1>18. Finished'
  <2>1. SUFFICES ASSUME NEW x \in Participants, NEW y \in Participants, x # y,
                        y \notin gone, x \in conn'[y], io'[x].final # NoStatus
                 PROVE  Known(x, y)
    BY DEF Finished
  <2>2. x \in conn[y]
    BY <2>1
  <2>3. CASE x # p \/ e.final = io[p].final
    BY <2>1, <2>2, <2>3, <1>8, <1>9 DEF Inv, Finished
  <2>4. CASE x = p /\ e.final # io[p].final
    <3>1. Peers(p, y)
      BY <2>1, <2>4 DEF Peers
    <3> QED
      BY <3>1, <2>4, <1>7, <1>14
  <2> QED
    BY <2>3, <2>4
<1> QED
  BY <1>10, <1>15, <1>16, <1>17, <1>18 DEF Inv

LEMMA ReceiveReplyStep ==
  ASSUME Inv, NEW p \in Participants, NEW q \in Participants, ReceiveReply(p, q)
  PROVE  Inv'
<1>1. /\ p \notin gone /\ chan[q][p] # <<>> /\ Head(chan[q][p])[1] = "Reply"
      /\ chan' = Taken(p, q) /\ bar' = [bar EXCEPT ![p] = BarrierWithout(bar[p], q)]
      /\ UNCHANGED <<life, acks, cache, sys, conn, gone, todo>>
  BY DEF ReceiveReply, Receives, monitorVars
<1>2. PICK e \in ReceiveCallReturn(p, bar[p], q) : io' = [io EXCEPT ![p] = e]
  BY DEF ReceiveReply
<1>3. e \in LifecycleRecord
  <2>1. bar[p] # NoBarrier => bar[p].then \in Actions
    BY DEF Inv, BarrierTypes
  <2> QED
    BY <2>1, <1>2, CompleteStep, Typing DEF ReceiveCallReturn
<1>4. Follows(e, e)
  BY <1>3, SelfFollows
<1>5. Head(chan[q][p]) = ReplyToken
  <2>1. Head(chan[q][p]) \in Messages
    BY <1>1, QuietTaken
  <2> QED
    BY <2>1, <1>1, StatusParts
<1>6. /\ cache' \in [Participants -> [Participants -> ParticipantStates \cup {NoStatus}]]
      /\ sys' \in [Participants -> ParticipantStates]
      /\ conn' \in [Participants -> SUBSET Participants]
  BY <1>1, Typing
<1>7. /\ \A y \in Participants : conn'[y] \subseteq conn[y]
      /\ \A x, y \in Participants : Peers(x, y) => y \in conn'[x]
      /\ \A x, y \in Participants : x \in conn'[y] => (Known(x, y) => Known(x, y)')
  BY <1>1 DEF Inv, ConnectedIn, Known
<1> QED
  BY <1>1, <1>2, <1>4, <1>5, <1>6, <1>7, ReturnStep

(* The end of q is noticed by p, and forgotten with q. *)
LEMMA PeerShutdownStep ==
  ASSUME Inv, NEW p \in Participants, NEW q \in Participants, OnPeerShutdown(p, q)
  PROVE  Inv'
<1>1. /\ p \notin gone /\ chan[q][p] # <<>> /\ Head(chan[q][p])[1] = "End"
      /\ chan' = Taken(p, q) /\ UNCHANGED <<life, acks, gone, todo>>
  BY DEF OnPeerShutdown, Receives
<1>2. Head(chan[q][p]) = Job("End") /\ chan[q][p] \in Seq(Messages)
  <2>1. Head(chan[q][p]) \in Messages /\ chan[q][p] \in Seq(Messages)
    BY <1>1, QuietTaken, Typing
  <2> QED
    BY <2>1, <1>1, StatusParts
<1>3. q \in gone
  <2>1. Has(chan[q][p], Job("End"))
    BY <1>1, <1>2, TailHas
  <2> QED
    BY <2>1 DEF Inv, ConnectedIn
<1>4. CASE io[p].final # NoStatus
  <2>1. UNCHANGED <<io, bar, cache, sys, conn>>
    BY <1>4 DEF OnPeerShutdown, monitorVars
  <2>2. /\ chan' \in [Participants -> [Participants -> Seq(Messages)]]
        /\ \A x, y \in Participants :
             QuietQueue(chan[x][y], chan[x][y]') /\ KeepsOrder(chan[x][y], chan[x][y]')
    BY <1>1, <1>2, QuietTaken, TokenFacts
  <2>3. /\ io[p] \in LifecycleRecord /\ io' = [io EXCEPT ![p] = io[p]]
        /\ \A t \in JobTokens : NoNew(io[p].jobs, io[p].jobs, t)
    BY <2>1, SameIo, Typing, NoNewSelf
  <2>4. /\ cache' \in [Participants -> [Participants -> ParticipantStates \cup {NoStatus}]]
        /\ sys' \in [Participants -> ParticipantStates]
        /\ acks' \in [Participants -> SUBSET Participants]
        /\ life' \in [Participants -> Lives]
        /\ \A x, y \in Participants : Known(x, y) => Known(x, y)'
    BY <2>1, <1>1, Typing DEF Known
  <2> QED
    BY <2>1, <2>2, <2>3, <2>4, <1>1, QuietStep
<1>5. CASE io[p].final = NoStatus
  <2>1. PICK lost \in BOOLEAN : lost = (cache[p][q] \notin {NoStatus, "Shutdown"})
    OBVIOUS
  <2>2. PICK c1 : c1 = IF lost THEN UpdateParticipantStatus(cache[p], q, "Error") ELSE cache[p]
    OBVIOUS
  <2>3. PICK y1 : y1 = IF lost THEN SystemStateAfter(cache[p], sys[p], q, "Error") ELSE sys[p]
    OBVIOUS
  <2>4. PICK y2 : y2 = SystemStateWithout(c1, y1, q)
    OBVIOUS
  <2>5. /\ bar' = [bar EXCEPT ![p] = BarrierWithout(bar[p], q)]
        /\ cache' = [cache EXCEPT ![p] = RemoveParticipant(c1, q)]
        /\ sys' = [sys EXCEPT ![p] = y2]
        /\ conn' = [conn EXCEPT ![p] = @ \ {q}]
        /\ \E e \in ReceiveCallReturn(p, bar[p], q) :
             \E n \in IF y2 = y1 THEN {e} ELSE NewSystemState(p, e, y2) :
               io' = [io EXCEPT ![p] = n]
    BY <2>1, <2>2, <2>3, <2>4, <1>5 DEF OnPeerShutdown
  <2>6. y1 \in ParticipantStates /\ y2 \in ParticipantStates
    BY <2>3, <2>4, AfterType, WithoutType, Typing
  <2>7. sys' \in [Participants -> ParticipantStates]
    BY <2>5, <2>6, Typing
  <2>8. /\ c1 \in [Participants -> ParticipantStates \cup {NoStatus}]
        /\ \A x \in Participants : x # q => c1[x] = cache[p][x]
    BY <2>2, Typing, StateNames DEF UpdateParticipantStatus
  <2>9. PICK r : r = RemoveParticipant(c1, q)
    OBVIOUS
  <2>10. /\ r \in [Participants -> ParticipantStates \cup {NoStatus}]
         /\ \A x \in Participants : x # q => r[x] = cache[p][x]
    BY <2>8, <2>9 DEF RemoveParticipant
  <2>11. /\ cache' \in [Participants -> [Participants -> ParticipantStates \cup {NoStatus}]]
         /\ \A x, y \in Participants : ~(x = q /\ y = p) => (Known(x, y) => Known(x, y)')
    BY <2>5, <2>9, <2>10, Typing DEF Known
  <2>12. /\ conn' \in [Participants -> SUBSET Participants]
         /\ \A y \in Participants : conn'[y] \subseteq conn[y]
         /\ q \notin conn'[p]
         /\ \A x, y \in Participants : y \in conn[x] /\ y # q => y \in conn'[x]
    BY <2>5, Typing
  <2>13. \A x, y \in Participants : Peers(x, y) => y \in conn'[x]
    BY <2>12, <1>3 DEF Inv, ConnectedIn, Peers
  <2>14. \A x, y \in Participants : x \in conn'[y] => (Known(x, y) => Known(x, y)')
    BY <2>11, <2>12
  <2>15. PICK e \in ReceiveCallReturn(p, bar[p], q) :
           \E n \in IF y2 = y1 THEN {e} ELSE NewSystemState(p, e, y2) :
             io' = [io EXCEPT ![p] = n]
    BY <2>5
  <2>16. PICK n \in IF y2 = y1 THEN {e} ELSE NewSystemState(p, e, y2) :
           io' = [io EXCEPT ![p] = n]
    BY <2>15
  <2>17. e \in LifecycleRecord
    <3>1. bar[p] # NoBarrier => bar[p].then \in Actions
      BY DEF Inv, BarrierTypes
    <3> QED
      BY <3>1, <2>15, CompleteStep, Typing DEF ReceiveCallReturn
  <2>18. Follows(e, n)
    BY <2>16, <2>17, SelfFollows, NewSystemStateStep
  <2> QED
    BY <2>5, <2>7, <2>11, <2>12, <2>13, <2>14, <2>15, <2>16, <2>18, <1>1, <1>2, <1>3, ReturnStep
<1> QED
  BY <1>4, <1>5

-----------------------------------------------------------------------------
(* The invariant. *)

LEMMA InitInv == Init => Inv
<1> SUFFICES ASSUME Init PROVE Inv
  OBVIOUS
<1>1. PICK e0 : e0 = [state |-> "Invalid", ready |-> "no", pending |-> FALSE, waits |-> FALSE,
                      final |-> NoStatus, jobs |-> <<>>]
  OBVIOUS
<1>2. e0 \in LifecycleRecord /\ e0.jobs = <<>> /\ e0.state = "Invalid" /\ e0.final = NoStatus
  <2>1. <<>> \in Seq(Jobs)
    OBVIOUS
  <2> QED
    BY <1>1, <2>1, StateNames DEF LifecycleRecord
<1>3. io = [p \in Participants |-> e0]
  BY <1>1 DEF Init
<1>4. /\ \A p \in Participants : io[p] = e0
      /\ \A p, q \in Participants : chan[p][q] = <<>> /\ cache[p][q] = NoStatus
      /\ \A p \in Participants : bar[p] = NoBarrier /\ conn[p] = Participants \ {p}
      /\ gone = {}
  BY <1>3 DEF Init
<1>5. NoBarrier.then = "none"
  BY DEF NoBarrier
<1>6. TypeOK
  <2>1. io \in [Participants -> LifecycleRecord]
    BY <1>2, <1>3
  <2>2. bar \in [Participants -> [expect : SUBSET Participants, then : Actions \cup {"none"}]]
    BY DEF Init, NoBarrier
  <2>3. chan \in [Participants -> [Participants -> Seq(Messages)]]
    BY DEF Init
  <2>4. life \in [Participants -> Lives] /\ sys \in [Participants -> ParticipantStates]
    BY StateNames DEF Init, Lives
  <2>5. todo \subseteq UNION Scripts
    BY DEF Init
  <2> QED
    BY <2>1, <2>2, <2>3, <2>4, <2>5 DEF Init, TypeOK
<1>7. BarrierTypes /\ Finished
  BY <1>2, <1>4 DEF BarrierTypes, Finished
<1>8. ConnectedIn
  BY <1>4, EmptyHas DEF ConnectedIn, Peers
<1>9. Tokens
  <2>1. ASSUME NEW p \in Participants, NEW q \in Participants PROVE OneToken(p, q)
    <3>1. io[p].jobs = <<>> /\ io[q].jobs = <<>> /\ chan[p][q] = <<>> /\ chan[q][p] = <<>>
      BY <1>2, <1>4
    <3> QED
      BY <3>1, EmptyHas DEF OneToken
  <2> QED
    BY <2>1 DEF Tokens
<1>10. LastBarrier
  <2>1. Orderly(e0)
    BY <1>2, EmptyHas DEF Orderly
  <2> QED
    BY <2>1, <1>4, <1>5 DEF LastBarrier, Passes
<1> QED
  BY <1>6, <1>7, <1>8, <1>9, <1>10 DEF Inv

LEMMA NextInv == Inv /\ [Next]_vars => Inv'
<1> SUFFICES ASSUME Inv, [Next]_vars PROVE Inv'
  OBVIOUS
<1>1. CASE UNCHANGED vars
  <2>1. UNCHANGED <<life, io, bar, acks, cache, sys, conn, chan, gone, todo>>
    BY <1>1 DEF vars, monitorVars
  <2>2. TypeOK'
    BY <2>1 DEF Inv, TypeOK
  <2>3. BarrierTypes' /\ ConnectedIn' /\ Finished'
    BY <2>1 DEF Inv, BarrierTypes, ConnectedIn, Finished, Peers, Known
  <2>4. Tokens'
    BY <2>1 DEF Inv, Tokens, OneToken, Peers
  <2>5. LastBarrier'
    BY <2>1 DEF Inv, LastBarrier, Passes, Peers, Told, Known
  <2> QED
    BY <2>2, <2>3, <2>4, <2>5 DEF Inv
<1>2. ASSUME NEW p \in Participants, IoThread(p) PROVE Inv'
  BY <1>2, LifecycleJobs, StatusJobStep, CommandJobStep, CallJobStep, ReplyJobStep,
     RegisterJobStep, BarrierJobStep DEF IoThread
<1>3. ASSUME NEW p \in Participants, User(p) PROVE Inv'
  <2>1. CASE Leave(p)
    <3>1. Disconnect(p, {}) /\ todo' \subseteq todo
      BY <2>1 DEF Leave
    <3> QED
      BY <3>1, DisconnectStep
  <2>2. CASE Crash(p)
    <3>1. PICK lossy \in SUBSET (Participants \ {p}) : Disconnect(p, lossy)
      BY <2>2 DEF Crash
    <3>2. todo' \subseteq todo
      BY <2>2 DEF Crash
    <3> QED
      BY <3>1, <3>2, DisconnectStep
  <2> QED
    BY <2>1, <2>2, <1>3, UserSteps DEF User
<1>4. ASSUME NEW p \in Participants, NEW q \in Participants, Receive(p, q) PROVE Inv'
  BY <1>4, ReceiveStatusStep, ReceiveCommandStep, ReceiveCallStep, ReceiveReplyStep,
     ReceiveAnnouncementStep, ReceiveAcknowledgeStep, PeerShutdownStep DEF Receive
<1> QED
  BY <1>1, <1>2, <1>3, <1>4 DEF Next

(* The inductive invariant: the barrier of a participant passes each of    *)
(* the others at most once at a time, and the last one behind the status   *)
(* Shutdown.                                                               *)
THEOREM InvHolds == Spec => []Inv
<1>1. Init => Inv
  BY InitInv
<1>2. Inv /\ [Next]_vars => Inv'
  BY NextInv
<1> QED
  BY <1>1, <1>2, PTL DEF Spec

(* Every variable keeps its type: the state machines, the system state     *)
(* each monitor derives, and the messages.                                 *)
THEOREM TypeCorrect == Spec => []TypeOK
<1>1. Inv => TypeOK
  BY DEF Inv
<1> QED
  BY <1>1, InvHolds, PTL

(* When the future of StartLifecycle is set, every other monitor knows     *)
(* that the participant has shut down.                                     *)
THEOREM FinalKnown == Spec => []FinalIsKnown
<1>1. Inv => FinalIsKnown
  <2>1. SUFFICES ASSUME Inv, NEW p \in Participants, NEW q \in Participants,
                        io[p].final # NoStatus, p \notin gone, q \notin gone,
                        io[q].final = NoStatus
                 PROVE  cache[q][p] = "Shutdown"
    BY DEF FinalIsKnown
  <2>2. p # q
    BY <2>1
  <2>3. p \in conn[q]
    BY <2>1, <2>2 DEF Inv, ConnectedIn, Peers
  <2> QED
    BY <2>1, <2>2, <2>3 DEF Inv, Finished, Known
<1> QED
  BY <1>1, InvHolds, PTL

(* Only the end of a connection makes a participant lose a peer. *)
LEMMA PeerLost ==
  ASSUME Inv, [Next]_vars, NEW p \in Participants, NEW q, q \in conn[p], q \notin conn'[p]
  PROVE  p \notin gone /\ q \in gone
<1>1. CASE UNCHANGED conn
  BY <1>1
<1>2. CASE \E x, y \in Participants : OnPeerShutdown(x, y)
  <2>1. PICK x \in Participants, y \in Participants : OnPeerShutdown(x, y)
    BY <1>2
  <2>2. UNCHANGED conn \/ conn' = [conn EXCEPT ![x] = @ \ {y}]
    BY <2>1 DEF OnPeerShutdown
  <2>3. p = x /\ q = y
    BY <2>2, <1>1, Typing
  <2>4. x \notin gone /\ chan[y][x] # <<>> /\ Head(chan[y][x])[1] = "End"
    BY <2>1 DEF OnPeerShutdown, Receives
  <2>5. Head(chan[y][x]) = Job("End") /\ chan[y][x] \in Seq(Messages)
    <3>1. chan[y][x] \in Seq(Messages)
      BY Typing
    <3>2. Head(chan[y][x]) \in Messages
      BY <3>1, <2>4
    <3> QED
      BY <3>1, <3>2, <2>4, StatusParts
  <2>6. Has(chan[y][x], Job("End"))
    BY <2>4, <2>5, TailHas
  <2> QED
    BY <2>3, <2>4, <2>6 DEF Inv, ConnectedIn
<1>3. UNCHANGED conn \/ \E x, y \in Participants : OnPeerShutdown(x, y)
  <2>1. ASSUME NEW x \in Participants, IoThread(x) PROVE UNCHANGED conn
    BY <2>1 DEF IoThread, InitializeJob, StartAutonomousJob, CompleteReadyJob, PauseJob,
       ContinueJob, StopJob, ErrorJob, AbortJob, Lifecycle, StatusJob, CommandJob, CallJob,
       ReplyJob, SendJob, RegisterJob, BarrierJob
  <2>2. ASSUME NEW x \in Participants, User(x) PROVE UNCHANGED conn
    BY <2>2 DEF User, StartLifecycle, PublishLifecycle, CreateController, Request, RequestAbort,
       UserCall, CompleteCommunicationReadyHandlerAsync, Leave, Crash, Disconnect
  <2>3. ASSUME NEW x \in Participants, NEW y \in Participants, Receive(x, y)
        PROVE  UNCHANGED conn \/ OnPeerShutdown(x, y)
    BY <2>3 DEF Receive, ReceiveParticipantStatus, ReceiveSystemCommand, ReceiveCall,
       ReceiveReply, ReceiveSubscriptionAnnouncement, ReceiveSubscriptionAcknowledge
  <2>4. CASE UNCHANGED vars
    BY <2>4 DEF vars
  <2> QED
    BY <2>1, <2>2, <2>3, <2>4 DEF Next
<1> QED
  BY <1>1, <1>2, <1>3

(* The end of a participant whose future was set is never taken for a lost *)
(* connection.                                                             *)
THEOREM NobodyIsMissed == Spec => NoFalseAlarm
<1> DEFINE Step ==
      \A p, q \in Participants :
        conn'[p] = conn[p] \ {q} /\ q \in conn[p] /\ io[q].final # NoStatus =>
          cache[p][q] \in {NoStatus, "Shutdown"}
<1>1. Inv /\ [Next]_vars => Step
  <2>1. SUFFICES ASSUME Inv, [Next]_vars, NEW p \in Participants, NEW q \in Participants,
                        conn'[p] = conn[p] \ {q}, q \in conn[p], io[q].final # NoStatus
                 PROVE  cache[p][q] = "Shutdown"
    OBVIOUS
  <2>2. p \notin gone /\ q \in gone
    BY <2>1, PeerLost
  <2>3. p # q
    BY <2>2
  <2> QED
    BY <2>1, <2>2, <2>3 DEF Inv, Finished, Known
<1>2. Inv /\ [Next]_vars => [Step]_vars
  BY <1>1
<1>3. Spec => [][Step]_vars
  BY <1>2, InvHolds, PTL DEF Spec
<1> QED
  BY <1>3 DEF NoFalseAlarm

-----------------------------------------------------------------------------
(* The start of a simulation whose participants are all required.          *)

AllRequired == Required = Participants

StartBarrier == <<"Barrier", "Start">>
ShutdownBarrier == <<"Barrier", "Shutdown">>
StartJob == Job("StartAutonomous")

(* Statuses: the first of all, those of a start, those that follow the     *)
(* CommunicationReadyHandler.                                              *)
StatusOf(s) == <<"Status", s>>
Created == StatusOf("ServicesCreated")
Starters == {StatusOf(s) : s \in StartingStates \cup {"Running"}}
ReadyStatuses == {StatusOf("ReadyToRun"), StatusOf("Running")}

HasAny(s, X) == \E i \in 1..Len(s) : s[i] \in X

(* The first status comes first. *)
Leads(s) == \A i \in 1..Len(s) : s[i] = Created => \A j \in 1..(i - 1) : s[j] \notin Starters

Early == {"Invalid", "ServicesCreated", "CommunicationInitializing", "CommunicationInitialized"}
Communicating == {"CommunicationInitializing", "CommunicationInitialized"}
Going == {"ReadyToRun", "Running", "Paused"}

(* An IO thread e with a barrier for action t: the first barrier is asked  *)
(* for or active; so is that of StoppedState; it is past its start; it has *)
(* run.                                                                    *)
Asks(t, e) == t = "Start" \/ Has(e.jobs, StartBarrier)
Stops(t, e) == t = "Shutdown" \/ Has(e.jobs, ShutdownBarrier)
Begun(t, e) == Asks(t, e) \/ e.waits \/ e.state \in Communicating
Past(t, e) == e.state \notin Early /\ ~Asks(t, e) /\ ~e.waits
Over(t, e) == Past(t, e) /\ e.state \notin Going

(* There is one first barrier, completed before anything that follows it.  *)
OneStart(t, e) ==
  /\ Once(e.jobs, StartBarrier)
  /\ t = "Start" => ~Has(e.jobs, StartBarrier)
  /\ e.state \in Communicating \/ e.waits => ~Asks(t, e)
  /\ e.state \in {"Invalid", "ServicesCreated", "CommunicationInitialized"} => ~e.waits
  /\ e.state = "Invalid" => ~Asks(t, e)
  /\ e.state \in Going \cup {"Stopping", "Stopped"} \/ HasAny(e.jobs, ReadyStatuses) => Past(t, e)
  /\ Stops(t, e) => Over(t, e)

(* The order of the statuses of one participant on their way to another:   *)
(* js, ch and c are the jobs of the one, the channel and the status known. *)
InOrder(st, js, ch, c) ==
  /\ Leads(js) /\ Leads(ch)
  /\ st = "Invalid" => ~HasAny(js, Starters)
  /\ st = "Invalid" \/ Has(js, Created) => ~HasAny(ch, Starters)
  /\ st = "Invalid" \/ Has(js, Created) \/ Has(ch, Created) => StatusOf(c) \notin Starters

HasArrived(st, js, ch) == st # "Invalid" /\ ~Has(js, Created) /\ ~Has(ch, Created)

(* What the state machine does to all this. *)
Ordered(e, n) ==
  /\ e.state # "Invalid" => n.state # "Invalid"
  /\ e.state # "Invalid" /\ Has(n.jobs, Created) => Has(e.jobs, Created)
  /\ n.state = "Invalid" /\ HasAny(n.jobs, Starters) => HasAny(e.jobs, Starters)
  /\ Leads(e.jobs) /\ (e.state = "Invalid" => ~HasAny(e.jobs, Starters)) => Leads(n.jobs)

Kept(t, e, n) ==
  OneStart(t, e) => /\ OneStart(t, n)
                    /\ Past(t, e) => Past(t, n)
                    /\ Over(t, e) => Over(t, n)

NoneStarted(e, n) == NoNew(e.jobs, n.jobs, StartJob)

Moves(t, e, n) == Ordered(e, n) /\ Kept(t, e, n) /\ NoneStarted(e, n)

BeginsNothing(t, e, n) == Begun(t, n) => Begun(t, e)
RunsNothing(p, e, n) ==
  p \in Coordinated /\ n.state \in {"Running", "Paused"} => e.state \in {"Running", "Paused"}

Goes(p, t, e, n) == Moves(t, e, n) /\ BeginsNothing(t, e, n) /\ RunsNothing(p, e, n)

-----------------------------------------------------------------------------
LEMMA StatusNames ==
  /\ \A s \in ParticipantStates :
       /\ StatusOf(s) \in Starters <=> s \in StartingStates \cup {"Running"}
       /\ StatusOf(s) \in ReadyStatuses <=> s \in {"ReadyToRun", "Running"}
       /\ StatusOf(s) = Created <=> s = "ServicesCreated"
       /\ StatusOf(s) \in Jobs /\ StatusOf(s) \in Messages
       /\ StatusOf(s) \notin {StartBarrier, ShutdownBarrier, StartJob}
  /\ ReadyStatuses \subseteq Starters /\ Created \in Starters /\ Created \notin ReadyStatuses
  /\ \A x \in {StartBarrier, ShutdownBarrier, StartJob} : x \in Jobs /\ x \notin Starters
  /\ StartBarrier # ShutdownBarrier /\ StartBarrier # StartJob /\ ShutdownBarrier # StartJob
<1>1. \A s, u : StatusOf(s) = StatusOf(u) <=> s = u
  BY DEF StatusOf
<1>2. \A s : StatusOf(s) \in Starters <=> s \in StartingStates \cup {"Running"}
  BY <1>1 DEF Starters
<1>3. \A s : StatusOf(s) \in ReadyStatuses <=> s \in {"ReadyToRun", "Running"}
  BY <1>1 DEF ReadyStatuses
<1>4. \A s : StatusOf(s) = Created <=> s = "ServicesCreated"
  BY <1>1 DEF Created, StatusOf
<1>5. \A s \in ParticipantStates : StatusOf(s) \in Jobs /\ StatusOf(s) \in Messages
  <2>1. SUFFICES ASSUME NEW s \in ParticipantStates
                 PROVE  StatusOf(s) \in Jobs /\ StatusOf(s) \in Messages
    OBVIOUS
  <2>2. PICK x : x = <<"Status", s>>
    OBVIOUS
  <2>3. x \in Jobs
    BY <2>2, JobTypes
  <2>4. x \in Messages
    BY <2>2, QuietMessages
  <2> QED
    BY <2>2, <2>3, <2>4 DEF StatusOf
<1>6. \A s : StatusOf(s) \notin {StartBarrier, ShutdownBarrier, StartJob}
  <2>1. \A s : StatusOf(s)[1] = "Status"
    BY DEF StatusOf
  <2>2. StartBarrier[1] # "Status" /\ ShutdownBarrier[1] # "Status" /\ StartJob[1] # "Status"
    BY DEF StartBarrier, ShutdownBarrier, StartJob, Job
  <2> QED
    BY <2>1, <2>2
<1>7. ReadyStatuses \subseteq Starters /\ Created \in Starters /\ Created \notin ReadyStatuses
  BY <1>2, <1>3 DEF ReadyStatuses, Created, StartingStates
<1>8. \A x \in {StartBarrier, ShutdownBarrier, StartJob} : x \in Jobs /\ x \notin Starters
  <2>1. StartBarrier \in Jobs /\ ShutdownBarrier \in Jobs /\ StartJob \in Jobs
    BY JobTypes DEF StartBarrier, ShutdownBarrier, StartJob, Actions
  <2>2. \A x \in Starters : x \notin {StartBarrier, ShutdownBarrier, StartJob}
    BY <1>6 DEF Starters
  <2> QED
    BY <2>1, <2>2
<1>9. StartBarrier # ShutdownBarrier /\ StartBarrier # StartJob /\ ShutdownBarrier # StartJob
  BY DEF StartBarrier, ShutdownBarrier, StartJob, Job
<1> QED
  BY <1>2, <1>3, <1>4, <1>5, <1>6, <1>7, <1>8, <1>9

LEMMA AppendAny ==
  ASSUME NEW S, NEW s \in Seq(S), NEW y \in S
  PROVE  /\ \A X : HasAny(Append(s, y), X) <=> HasAny(s, X) \/ y \in X
         /\ Leads(s) /\ (y = Created => ~HasAny(s, Starters)) => Leads(Append(s, y))
<1>1. /\ Len(Append(s, y)) = Len(s) + 1 /\ Len(s) \in Nat
      /\ \A i \in 1..Len(s) : Append(s, y)[i] = s[i]
      /\ Append(s, y)[Len(s) + 1] = y
  OBVIOUS
<1>2. ASSUME NEW X PROVE HasAny(Append(s, y), X) <=> HasAny(s, X) \/ y \in X
  <2>1. ASSUME HasAny(Append(s, y), X) PROVE HasAny(s, X) \/ y \in X
    BY <1>1, <2>1 DEF HasAny
  <2>2. ASSUME HasAny(s, X) PROVE HasAny(Append(s, y), X)
    BY <1>1, <2>2 DEF HasAny
  <2>3. ASSUME y \in X PROVE HasAny(Append(s, y), X)
    BY <1>1, <2>3 DEF HasAny
  <2> QED
    BY <2>1, <2>2, <2>3
<1>3. ASSUME Leads(s), y = Created => ~HasAny(s, Starters) PROVE Leads(Append(s, y))
  <2>1. SUFFICES ASSUME NEW i \in 1..(Len(s) + 1), Append(s, y)[i] = Created,
                        NEW j \in 1..(i - 1)
                 PROVE  Append(s, y)[j] \notin Starters
    BY <1>1 DEF Leads
  <2>2. j \in 1..Len(s) /\ Append(s, y)[j] = s[j]
    BY <1>1
  <2>3. CASE i \in 1..Len(s)
    BY <1>1, <1>3, <2>1, <2>2, <2>3 DEF Leads
  <2>4. CASE i = Len(s) + 1
    BY <1>1, <1>3, <2>1, <2>2, <2>4 DEF HasAny
  <2> QED
    BY <1>1, <2>3, <2>4
<1> QED
  BY <1>2, <1>3

LEMMA TailAny ==
  ASSUME NEW S, NEW s \in Seq(S), s # <<>>
  PROVE  /\ \A X : HasAny(Tail(s), X) => HasAny(s, X)
         /\ \A X : HasAny(s, X) => Head(s) \in X \/ HasAny(Tail(s), X)
         /\ \A X : Head(s) \in X => HasAny(s, X)
         /\ Leads(s) => Leads(Tail(s))
         /\ Leads(s) /\ Head(s) \in Starters => ~Has(Tail(s), Created)
<1>1. /\ Head(s) \in S /\ Tail(s) \in Seq(S) /\ Len(s) \in Nat /\ Len(s) > 0
      /\ Len(Tail(s)) = Len(s) - 1 /\ Head(s) = s[1]
      /\ \A i \in 1..(Len(s) - 1) : Tail(s)[i] = s[i + 1]
  OBVIOUS
<1>2. ASSUME NEW X, HasAny(Tail(s), X) PROVE HasAny(s, X)
  BY <1>1, <1>2 DEF HasAny
<1>3. ASSUME NEW X, HasAny(s, X), Head(s) \notin X PROVE HasAny(Tail(s), X)
  <2>1. PICK i \in 1..Len(s) : s[i] \in X
    BY <1>3 DEF HasAny
  <2>2. i - 1 \in 1..(Len(s) - 1) /\ Tail(s)[i - 1] \in X
    BY <1>1, <1>3, <2>1
  <2> QED
    BY <2>2, <1>1 DEF HasAny
<1>4. ASSUME NEW X, Head(s) \in X PROVE HasAny(s, X)
  BY <1>1, <1>4 DEF HasAny
<1>5. ASSUME Leads(s) PROVE Leads(Tail(s))
  BY <1>1, <1>5 DEF Leads
<1>6. ASSUME Leads(s), Head(s) \in Starters, Has(Tail(s), Created) PROVE FALSE
  <2>1. PICK i \in 1..(Len(s) - 1) : s[i + 1] = Created
    BY <1>1, <1>6 DEF Has
  <2>2. i + 1 \in 1..Len(s) /\ 1 \in 1..((i + 1) - 1)
    BY <1>1
  <2> QED
    BY <2>1, <2>2, <1>1, <1>6 DEF Leads
<1> QED
  BY <1>2, <1>3, <1>4, <1>5, <1>6

LEMMA EmptyAny ==
  /\ \A X : ~HasAny(<<>>, X)
  /\ Leads(<<>>)
BY DEF HasAny, Leads

LEMMA HasIsAny ==
  ASSUME NEW s, NEW x, NEW X, x \in X, Has(s, x)
  PROVE  HasAny(s, X)
BY DEF Has, HasAny

(* What is known of an IO thread that has been given another job. *)
LEMMA DeferFacts ==
  ASSUME NEW e \in LifecycleRecord, NEW job \in Jobs
  PROVE  /\ Defer(e, job) \in LifecycleRecord
         /\ Defer(e, job).state = e.state /\ Defer(e, job).waits = e.waits
         /\ \A x : Has(Defer(e, job).jobs, x) <=> Has(e.jobs, x) \/ x = job
         /\ \A x : Once(e.jobs, x) /\ (x # job \/ ~Has(e.jobs, x)) => Once(Defer(e, job).jobs, x)
         /\ \A X : HasAny(Defer(e, job).jobs, X) <=> HasAny(e.jobs, X) \/ job \in X
         /\ Leads(e.jobs) /\ (job = Created => ~HasAny(e.jobs, Starters))
              => Leads(Defer(e, job).jobs)
<1>1. PICK n : n = Defer(e, job)
  OBVIOUS
<1>2. n = [e EXCEPT !.jobs = Append(@, job)]
  BY <1>1 DEF Defer
<1>3. e.jobs \in Seq(Jobs)
  BY DEF LifecycleRecord
<1>4. Append(e.jobs, job) \in Seq(Jobs)
  BY <1>3
<1>5. /\ n \in LifecycleRecord /\ n.state = e.state /\ n.waits = e.waits
      /\ n.jobs = Append(e.jobs, job)
  BY <1>2, <1>4 DEF LifecycleRecord
<1>6. /\ \A x : Has(n.jobs, x) <=> Has(e.jobs, x) \/ x = job
      /\ \A x : Once(e.jobs, x) /\ (x # job \/ ~Has(e.jobs, x)) => Once(n.jobs, x)
  BY <1>3, <1>5, AppendHas
<1>7. /\ \A X : HasAny(n.jobs, X) <=> HasAny(e.jobs, X) \/ job \in X
      /\ Leads(e.jobs) /\ (job = Created => ~HasAny(e.jobs, Starters)) => Leads(n.jobs)
  BY <1>3, <1>5, AppendAny
<1> QED
  BY <1>1, <1>5, <1>6, <1>7

LEMMA EnterFacts ==
  ASSUME NEW e \in LifecycleRecord, NEW s \in ParticipantStates
  PROVE  /\ Enter(e, s) \in LifecycleRecord
         /\ Enter(e, s).state = s /\ Enter(e, s).waits = e.waits
         /\ \A x \in {StartBarrier, ShutdownBarrier, StartJob} :
              NoNew(e.jobs, Enter(e, s).jobs, x)
         /\ \A x \in {StartBarrier, ShutdownBarrier, StartJob} :
              Has(e.jobs, x) => Has(Enter(e, s).jobs, x)
         /\ Has(Enter(e, s).jobs, Created) => Has(e.jobs, Created) \/ s = "ServicesCreated"
         /\ HasAny(Enter(e, s).jobs, Starters)
              => HasAny(e.jobs, Starters) \/ s \in StartingStates \cup {"Running"}
         /\ HasAny(Enter(e, s).jobs, ReadyStatuses)
              => HasAny(e.jobs, ReadyStatuses) \/ s \in {"ReadyToRun", "Running"}
         /\ Leads(e.jobs) /\ (s = "ServicesCreated" => ~HasAny(e.jobs, Starters))
              => Leads(Enter(e, s).jobs)
<1>1. PICK n : n = Enter(e, s)
  OBVIOUS
<1>2. PICK job : job = StatusOf(s)
  OBVIOUS
<1>3. n = [e EXCEPT !.state = s, !.jobs = Append(@, job)]
  BY <1>1, <1>2 DEF Enter, StatusOf
<1>4. /\ job \in Jobs /\ job \notin {StartBarrier, ShutdownBarrier, StartJob}
      /\ job \in Starters <=> s \in StartingStates \cup {"Running"}
      /\ job \in ReadyStatuses <=> s \in {"ReadyToRun", "Running"}
      /\ job = Created <=> s = "ServicesCreated"
  BY <1>2, StatusNames
<1>5. e.jobs \in Seq(Jobs)
  BY DEF LifecycleRecord
<1>6. Append(e.jobs, job) \in Seq(Jobs)
  BY <1>4, <1>5
<1>7. n.state = s /\ n.waits = e.waits /\ n.jobs = Append(e.jobs, job)
  BY <1>3 DEF LifecycleRecord
<1>8. n \in LifecycleRecord
  BY <1>3, <1>6 DEF LifecycleRecord
<1>9. /\ \A x : Has(n.jobs, x) <=> Has(e.jobs, x) \/ x = job
      /\ \A x : Once(e.jobs, x) /\ (x # job \/ ~Has(e.jobs, x)) => Once(n.jobs, x)
  BY <1>4, <1>5, <1>7, AppendHas
<1>10. /\ \A X : HasAny(n.jobs, X) <=> HasAny(e.jobs, X) \/ job \in X
       /\ Leads(e.jobs) /\ (job = Created => ~HasAny(e.jobs, Starters)) => Leads(n.jobs)
  BY <1>4, <1>5, <1>7, AppendAny
<1>11. \A x \in {StartBarrier, ShutdownBarrier, StartJob} : NoNew(e.jobs, n.jobs, x)
  BY <1>4, <1>9 DEF NoNew
<1>12. Has(n.jobs, Created) => Has(e.jobs, Created) \/ s = "ServicesCreated"
  BY <1>4, <1>9
<1> QED
  BY <1>1, <1>4, <1>7, <1>8, <1>9, <1>10, <1>11, <1>12

LEMMA SelfGoes ==
  ASSUME NEW p, NEW t, NEW e
  PROVE  Goes(p, t, e, e)
BY DEF Goes, Moves, Ordered, Kept, NoneStarted, NoNew, BeginsNothing, RunsNothing

LEMMA MovesTransitive ==
  ASSUME NEW t, NEW d, NEW e, NEW n, Moves(t, d, e), Moves(t, e, n)
  PROVE  Moves(t, d, n)
<1>1. Ordered(d, n)
  BY DEF Moves, Ordered
<1>2. Kept(t, d, n)
  BY DEF Moves, Kept
<1>3. NoneStarted(d, n)
  BY DEF Moves, NoneStarted, NoNew
<1> QED
  BY <1>1, <1>2, <1>3 DEF Moves

LEMMA GoesTransitive ==
  ASSUME NEW p, NEW t, NEW d, NEW e, NEW n, Goes(p, t, d, e), Goes(p, t, e, n)
  PROVE  Goes(p, t, d, n)
BY MovesTransitive DEF Goes, BeginsNothing, RunsNothing

(* Neither the state, the jobs nor the wait for acknowledges. *)
LEMMA FieldGoes ==
  ASSUME NEW p, NEW t, NEW e, NEW n, n.jobs = e.jobs, n.state = e.state, n.waits = e.waits
  PROVE  Goes(p, t, e, n)
BY DEF Goes, Moves, Ordered, Kept, NoneStarted, NoNew, BeginsNothing, RunsNothing, OneStart,
   Past, Over, Begun, Asks, Stops

(* A job that has no part in the start. *)
LEMMA PlainGoes ==
  ASSUME NEW p, NEW t, NEW e \in LifecycleRecord, NEW job \in Jobs,
         job \notin Starters \cup {StartBarrier, ShutdownBarrier, StartJob}
  PROVE  Goes(p, t, e, Defer(e, job)) /\ Defer(e, job) \in LifecycleRecord
<1>1. PICK n : n = Defer(e, job)
  OBVIOUS
<1>2. /\ n \in LifecycleRecord /\ n.state = e.state /\ n.waits = e.waits
      /\ \A x : Has(n.jobs, x) <=> Has(e.jobs, x) \/ x = job
      /\ \A x : Once(e.jobs, x) /\ (x # job \/ ~Has(e.jobs, x)) => Once(n.jobs, x)
      /\ \A X : HasAny(n.jobs, X) <=> HasAny(e.jobs, X) \/ job \in X
      /\ Leads(e.jobs) /\ (job = Created => ~HasAny(e.jobs, Starters)) => Leads(n.jobs)
  BY <1>1, DeferFacts
<1>3. job # Created /\ job \notin ReadyStatuses
  BY StatusNames
<1>4. /\ Has(n.jobs, StartBarrier) <=> Has(e.jobs, StartBarrier)
      /\ Has(n.jobs, ShutdownBarrier) <=> Has(e.jobs, ShutdownBarrier)
      /\ Has(n.jobs, StartJob) <=> Has(e.jobs, StartJob)
      /\ Has(n.jobs, Created) <=> Has(e.jobs, Created)
      /\ HasAny(n.jobs, Starters) <=> HasAny(e.jobs, Starters)
      /\ HasAny(n.jobs, ReadyStatuses) <=> HasAny(e.jobs, ReadyStatuses)
      /\ Once(e.jobs, StartBarrier) => Once(n.jobs, StartBarrier)
      /\ Once(e.jobs, StartJob) => Once(n.jobs, StartJob)
      /\ Leads(e.jobs) => Leads(n.jobs)
  BY <1>2, <1>3
<1>5. Ordered(e, n) /\ NoneStarted(e, n)
  BY <1>2, <1>4 DEF Ordered, NoneStarted, NoNew
<1>6. Kept(t, e, n)
  BY <1>2, <1>4 DEF Kept, OneStart, Past, Over, Asks, Stops
<1>7. BeginsNothing(t, e, n) /\ RunsNothing(p, e, n)
  BY <1>2, <1>4 DEF BeginsNothing, RunsNothing, Begun, Asks
<1> QED
  BY <1>1, <1>2, <1>5, <1>6, <1>7 DEF Goes, Moves

(* A state that neither belongs to the start nor follows it. *)
LEMMA EnterLate ==
  ASSUME NEW p, NEW t, NEW e \in LifecycleRecord,
         NEW s \in {"Error", "ShuttingDown", "Shutdown", "Aborting"}
  PROVE  Goes(p, t, e, Enter(e, s)) /\ Enter(e, s) \in LifecycleRecord /\ Enter(e, s).state = s
<1>1. PICK n : n = Enter(e, s)
  OBVIOUS
<1>2. s \in ParticipantStates /\ s \notin StartingStates \cup {"Running"}
  BY StateNames DEF StartingStates
<1>3. /\ n \in LifecycleRecord /\ n.state = s /\ n.waits = e.waits
      /\ \A x \in {StartBarrier, ShutdownBarrier, StartJob} :
           NoNew(e.jobs, n.jobs, x) /\ (Has(e.jobs, x) => Has(n.jobs, x))
      /\ Has(n.jobs, Created) => Has(e.jobs, Created)
      /\ HasAny(n.jobs, Starters) => HasAny(e.jobs, Starters)
      /\ HasAny(n.jobs, ReadyStatuses) => HasAny(e.jobs, ReadyStatuses)
      /\ Leads(e.jobs) => Leads(n.jobs)
  BY <1>1, <1>2, EnterFacts DEF StartingStates
<1>4. Ordered(e, n) /\ NoneStarted(e, n)
  BY <1>3 DEF Ordered, NoneStarted
<1>5. Kept(t, e, n)
  BY <1>3 DEF Kept, OneStart, Past, Over, Asks, Stops, NoNew, Early, Communicating, Going
<1>6. BeginsNothing(t, e, n) /\ RunsNothing(p, e, n)
  BY <1>3 DEF BeginsNothing, RunsNothing, Begun, Asks, NoNew, Communicating
<1> QED
  BY <1>1, <1>3, <1>4, <1>5, <1>6 DEF Goes, Moves

(* The end of a run. *)
LEMMA EnterStop ==
  ASSUME NEW p, NEW t, NEW e \in LifecycleRecord, e.state \in {"Running", "Paused", "Stopping"},
         NEW s \in {"Stopping", "Stopped"}
  PROVE  Goes(p, t, e, Enter(e, s)) /\ Enter(e, s) \in LifecycleRecord /\ Enter(e, s).state = s
<1>1. PICK n : n = Enter(e, s)
  OBVIOUS
<1>2. s \in ParticipantStates /\ s \notin StartingStates \cup {"Running"}
  BY StateNames DEF StartingStates
<1>3. /\ n \in LifecycleRecord /\ n.state = s /\ n.waits = e.waits
      /\ \A x \in {StartBarrier, ShutdownBarrier, StartJob} :
           NoNew(e.jobs, n.jobs, x) /\ (Has(e.jobs, x) => Has(n.jobs, x))
      /\ Has(n.jobs, Created) => Has(e.jobs, Created)
      /\ HasAny(n.jobs, Starters) => HasAny(e.jobs, Starters)
      /\ HasAny(n.jobs, ReadyStatuses) => HasAny(e.jobs, ReadyStatuses)
      /\ Leads(e.jobs) => Leads(n.jobs)
  BY <1>1, <1>2, EnterFacts DEF StartingStates
<1>4. Ordered(e, n) /\ NoneStarted(e, n)
  BY <1>3 DEF Ordered, NoneStarted
<1>5. Kept(t, e, n)
  BY <1>3 DEF Kept, OneStart, Past, Over, Asks, Stops, NoNew, Early, Communicating, Going
<1>6. BeginsNothing(t, e, n) /\ RunsNothing(p, e, n)
  BY <1>3 DEF BeginsNothing, RunsNothing, Begun, Asks, NoNew, Communicating
<1> QED
  BY <1>1, <1>3, <1>4, <1>5, <1>6 DEF Goes, Moves

(* A participant that is ready runs, pauses and continues. *)
LEMMA EnterRun ==
  ASSUME NEW t, NEW e \in LifecycleRecord, e.state \in Going, NEW s \in {"Running", "Paused"}
  PROVE  /\ Moves(t, e, Enter(e, s)) /\ BeginsNothing(t, e, Enter(e, s))
         /\ Enter(e, s) \in LifecycleRecord /\ Enter(e, s).state = s
<1>1. PICK n : n = Enter(e, s)
  OBVIOUS
<1>2. s \in ParticipantStates
  BY StateNames
<1>3. /\ n \in LifecycleRecord /\ n.state = s /\ n.waits = e.waits
      /\ \A x \in {StartBarrier, ShutdownBarrier, StartJob} :
           NoNew(e.jobs, n.jobs, x) /\ (Has(e.jobs, x) => Has(n.jobs, x))
      /\ Has(n.jobs, Created) => Has(e.jobs, Created)
      /\ Leads(e.jobs) => Leads(n.jobs)
  BY <1>1, <1>2, EnterFacts
<1>4. Ordered(e, n) /\ NoneStarted(e, n)
  BY <1>3 DEF Ordered, NoneStarted
<1>5. Kept(t, e, n)
  BY <1>3 DEF Kept, OneStart, Past, Over, Asks, Stops, NoNew, Early, Communicating, Going
<1>6. BeginsNothing(t, e, n)
  BY <1>3 DEF BeginsNothing, Begun, Asks, NoNew, Communicating
<1> QED
  BY <1>1, <1>3, <1>4, <1>5, <1>6 DEF Moves

(* The CommunicationReadyHandler is complete. *)
LEMMA EnterReady ==
  ASSUME NEW p, NEW t, NEW e \in LifecycleRecord, e.state = "CommunicationInitialized"
  PROVE  /\ Goes(p, t, e, Enter(e, "ReadyToRun")) /\ Enter(e, "ReadyToRun") \in LifecycleRecord
         /\ Enter(e, "ReadyToRun").state = "ReadyToRun"
<1>1. PICK n : n = Enter(e, "ReadyToRun")
  OBVIOUS
<1>2. "ReadyToRun" \in ParticipantStates
  BY StateNames
<1>3. /\ n \in LifecycleRecord /\ n.state = "ReadyToRun" /\ n.waits = e.waits
      /\ \A x \in {StartBarrier, ShutdownBarrier, StartJob} :
           NoNew(e.jobs, n.jobs, x) /\ (Has(e.jobs, x) => Has(n.jobs, x))
      /\ Has(n.jobs, Created) => Has(e.jobs, Created)
      /\ Leads(e.jobs) => Leads(n.jobs)
  BY <1>1, <1>2, EnterFacts
<1>4. Ordered(e, n) /\ NoneStarted(e, n)
  BY <1>3 DEF Ordered, NoneStarted
<1>5. Kept(t, e, n)
  BY <1>3 DEF Kept, OneStart, Past, Over, Asks, Stops, NoNew, Early, Communicating, Going
<1>6. BeginsNothing(t, e, n) /\ RunsNothing(p, e, n)
  BY <1>3 DEF BeginsNothing, RunsNothing, Begun, Asks, NoNew, Communicating
<1> QED
  BY <1>1, <1>3, <1>4, <1>5, <1>6 DEF Goes, Moves

LEMMA ToErrorGoes ==
  ASSUME NEW p, NEW t, NEW e \in LifecycleRecord
  PROVE  Goes(p, t, e, ToError(e)) /\ ToError(e) \in LifecycleRecord
BY EnterLate, SelfGoes DEF ToError

(* ServicesCreated is the first state of all. *)
LEMMA InitializeGoes ==
  ASSUME NEW p, NEW t, NEW e \in LifecycleRecord
  PROVE  Goes(p, t, e, Initialize(e))
<1>1. CASE e.state = "Invalid"
  <2>1. PICK n : n = Enter(e, "ServicesCreated")
    OBVIOUS
  <2>2. /\ n \in LifecycleRecord /\ n.state = "ServicesCreated" /\ n.waits = e.waits
        /\ \A x \in {StartBarrier, ShutdownBarrier, StartJob} :
             NoNew(e.jobs, n.jobs, x) /\ (Has(e.jobs, x) => Has(n.jobs, x))
        /\ HasAny(n.jobs, ReadyStatuses) => HasAny(e.jobs, ReadyStatuses)
        /\ Leads(e.jobs) /\ ~HasAny(e.jobs, Starters) => Leads(n.jobs)
    <3>1. "ServicesCreated" \in ParticipantStates
      BY StateNames
    <3> QED
      BY <2>1, <3>1, EnterFacts
  <2>3. Ordered(e, n) /\ NoneStarted(e, n)
    BY <1>1, <2>2 DEF Ordered, NoneStarted
  <2>4. Kept(t, e, n)
    BY <1>1, <2>2 DEF Kept, OneStart, Past, Over, Asks, Stops, NoNew, Early, Communicating, Going
  <2>5. BeginsNothing(t, e, n) /\ RunsNothing(p, e, n)
    BY <1>1, <2>2 DEF BeginsNothing, RunsNothing, Begun, Asks, NoNew, Communicating
  <2>6. Initialize(e) = n
    BY <1>1, <2>1 DEF Initialize
  <2> QED
    BY <2>3, <2>4, <2>5, <2>6 DEF Goes, Moves
<1>2. CASE e.state # "Invalid"
  BY <1>2, ToErrorGoes DEF Initialize
<1> QED
  BY <1>1, <1>2

LEMMA ReadyToRunMoves ==
  ASSUME NEW p, NEW t, NEW e \in LifecycleRecord, NEW n \in ReadyToRun(p, e)
  PROVE  /\ Moves(t, e, n) /\ BeginsNothing(t, e, n) /\ n \in LifecycleRecord
         /\ p \notin Coordinated => Goes(p, t, e, n)
<1>1. CASE e.state = "ReadyToRun"
  <2>1. n = Enter(e, "Running") \/ n = Enter(e, "Error")
    BY <1>1 DEF ReadyToRun, IfFaulty
  <2>2. e.state \in Going
    BY <1>1 DEF Going
  <2>3. n = Enter(e, "Running") => Moves(t, e, n) /\ BeginsNothing(t, e, n) /\ n \in LifecycleRecord
    BY <2>2, EnterRun
  <2>4. n = Enter(e, "Error") => Goes(p, t, e, n) /\ n \in LifecycleRecord
    BY EnterLate
  <2> QED
    BY <2>1, <2>3, <2>4 DEF Goes, RunsNothing
<1>2. CASE e.state # "ReadyToRun"
  <2>1. n = e \/ n = ToError(e)
    BY <1>2 DEF ReadyToRun
  <2>2. Goes(p, t, e, n) /\ n \in LifecycleRecord
    BY <2>1, SelfGoes, ToErrorGoes
  <2> QED
    BY <2>2 DEF Goes
<1> QED
  BY <1>1, <1>2

LEMMA CompleteReadyGoes ==
  ASSUME NEW p, NEW t, NEW e \in LifecycleRecord, NEW n \in CompleteCommunicationReadyHandler(p, e)
  PROVE  Goes(p, t, e, n) /\ n \in LifecycleRecord
<1>1. CASE e.state # "CommunicationInitialized"
  BY <1>1, ToErrorGoes DEF CompleteCommunicationReadyHandler
<1>2. CASE e.state = "CommunicationInitialized"
  <2>1. PICK i : i = Enter(e, "ReadyToRun")
    OBVIOUS
  <2>2. Goes(p, t, e, i) /\ i \in LifecycleRecord
    BY <1>2, <2>1, EnterReady
  <2>3. n = i \/ (p \notin Coordinated /\ n \in ReadyToRun(p, i))
    BY <1>2, <2>1 DEF CompleteCommunicationReadyHandler
  <2>4. n \in ReadyToRun(p, i) /\ p \notin Coordinated => Goes(p, t, i, n) /\ n \in LifecycleRecord
    BY <2>2, ReadyToRunMoves
  <2> QED
    BY <2>2, <2>3, <2>4, GoesTransitive
<1> QED
  BY <1>1, <1>2

LEMMA TriggerReadyGoes ==
  ASSUME NEW p, NEW t, NEW e \in LifecycleRecord, NEW n \in TriggerCommunicationReadyHandler(p, e)
  PROVE  Goes(p, t, e, n) /\ n \in LifecycleRecord
<1>1. CASE p \in AsyncReady
  <2>1. PICK i : i = [e EXCEPT !.ready = IF @ = "no" THEN "invoked" ELSE @]
    OBVIOUS
  <2>2. i \in LifecycleRecord /\ i.jobs = e.jobs /\ i.state = e.state /\ i.waits = e.waits
    BY <2>1 DEF LifecycleRecord
  <2>3. Goes(p, t, e, i)
    BY <2>2, FieldGoes
  <2>4. Goes(p, t, i, Enter(i, "Error")) /\ Enter(i, "Error") \in LifecycleRecord
    BY <2>2, EnterLate
  <2>5. n = i \/ n = Enter(i, "Error")
    BY <1>1, <2>1 DEF TriggerCommunicationReadyHandler, IfFaulty
  <2> QED
    BY <2>2, <2>3, <2>4, <2>5, GoesTransitive
<1>2. CASE p \notin AsyncReady
  <2>1. n \in CompleteCommunicationReadyHandler(p, e) \/ n = Enter(e, "Error")
    BY <1>2 DEF TriggerCommunicationReadyHandler, IfFaulty
  <2> QED
    BY <2>1, CompleteReadyGoes, EnterLate
<1> QED
  BY <1>1, <1>2

LEMMA CommunicationInitializedGoes ==
  ASSUME NEW p, NEW t, NEW e \in LifecycleRecord, NEW n \in CommunicationInitialized(p, e)
  PROVE  Goes(p, t, e, n) /\ n \in LifecycleRecord
<1>1. n \in TriggerCommunicationReadyHandler(p, e) \/ n = e \/ n = ToError(e)
  BY DEF CommunicationInitialized
<1> QED
  BY <1>1, TriggerReadyGoes, ToErrorGoes, SelfGoes

LEMMA SubscriptionsGoes ==
  ASSUME NEW p, NEW t, NEW e \in LifecycleRecord,
         e.waits \/ e.state = "CommunicationInitializing",
         NEW n \in SubscriptionsCompleted(p, e)
  PROVE  Goes(p, t, e, n) /\ n \in LifecycleRecord
<1>1. PICK w : w = [e EXCEPT !.waits = FALSE]
  OBVIOUS
<1>2. w \in LifecycleRecord /\ w.jobs = e.jobs /\ w.state = e.state /\ w.waits = FALSE
  BY <1>1 DEF LifecycleRecord
<1>3. PICK i : i = Enter(w, "CommunicationInitialized")
  OBVIOUS
<1>4. /\ i \in LifecycleRecord /\ i.state = "CommunicationInitialized" /\ i.waits = FALSE
      /\ \A x \in {StartBarrier, ShutdownBarrier, StartJob} :
           NoNew(e.jobs, i.jobs, x) /\ (Has(e.jobs, x) => Has(i.jobs, x))
      /\ Has(i.jobs, Created) => Has(e.jobs, Created)
      /\ HasAny(i.jobs, ReadyStatuses) => HasAny(e.jobs, ReadyStatuses)
      /\ Leads(e.jobs) => Leads(i.jobs)
  <2>1. "CommunicationInitialized" \in ParticipantStates
    BY StateNames
  <2> QED
    BY <1>2, <1>3, <2>1, EnterFacts
<1>5. Ordered(e, i) /\ NoneStarted(e, i)
  BY <1>4 DEF Ordered, NoneStarted
<1>6. Kept(t, e, i)
  BY <1>4 DEF Kept, OneStart, Past, Over, Asks, Stops, NoNew, Early, Communicating, Going
<1>7. BeginsNothing(t, e, i) /\ RunsNothing(p, e, i)
  BY <1>4 DEF BeginsNothing, RunsNothing, Begun, Communicating
<1>8. Goes(p, t, e, i)
  BY <1>5, <1>6, <1>7 DEF Goes, Moves
<1>9. n = i \/ n \in CommunicationInitialized(p, i)
  BY <1>1, <1>3 DEF SubscriptionsCompleted
<1> QED
  BY <1>4, <1>8, <1>9, CommunicationInitializedGoes, GoesTransitive

LEMMA AsyncSubscriptionsGoes ==
  ASSUME NEW p, NEW t, NEW e \in LifecycleRecord, NEW n \in AsyncSubscriptionsCompleted(p, e)
  PROVE  Goes(p, t, e, n) /\ n \in LifecycleRecord
<1>1. PICK i \in IF e.waits THEN SubscriptionsCompleted(p, e) ELSE {e} :
           n = [i EXCEPT !.pending = FALSE]
  BY DEF AsyncSubscriptionsCompleted
<1>2. Goes(p, t, e, i) /\ i \in LifecycleRecord
  BY <1>1, SubscriptionsGoes, SelfGoes
<1>3. n \in LifecycleRecord /\ n.jobs = i.jobs /\ n.state = i.state /\ n.waits = i.waits
  BY <1>1, <1>2 DEF LifecycleRecord
<1> QED
  BY <1>2, <1>3, FieldGoes, GoesTransitive

LEMMA CommunicationInitializingGoes ==
  ASSUME NEW p, NEW t, NEW e \in LifecycleRecord, e.state = "CommunicationInitializing",
         NEW n \in CommunicationInitializing(p, e)
  PROVE  Goes(p, t, e, n) /\ n \in LifecycleRecord
<1>1. CASE e.pending
  <2>1. n = [e EXCEPT !.waits = TRUE]
    BY <1>1 DEF CommunicationInitializing
  <2>2. n \in LifecycleRecord /\ n.jobs = e.jobs /\ n.state = e.state /\ n.waits = TRUE
    BY <2>1 DEF LifecycleRecord
  <2>3. Ordered(e, n) /\ NoneStarted(e, n)
    BY <2>2 DEF Ordered, NoneStarted, NoNew
  <2>4. Kept(t, e, n)
    BY <2>2 DEF Kept, OneStart, Past, Over, Asks, Stops, Early, Communicating, Going
  <2>5. BeginsNothing(t, e, n) /\ RunsNothing(p, e, n)
    BY <2>2 DEF BeginsNothing, RunsNothing, Begun, Communicating
  <2> QED
    BY <2>2, <2>3, <2>4, <2>5 DEF Goes, Moves
<1>2. CASE ~e.pending
  BY <1>2, SubscriptionsGoes DEF CommunicationInitializing
<1> QED
  BY <1>1, <1>2

(* The first barrier is asked for where none is. *)
LEMMA ServicesCreatedMoves ==
  ASSUME NEW p, NEW t, NEW e \in LifecycleRecord, NEW n \in ServicesCreated(p, e),
         e.state = "ServicesCreated" => ~Asks(t, e)
  PROVE  Moves(t, e, n) /\ RunsNothing(p, e, n) /\ n \in LifecycleRecord
<1>1. CASE e.state = "ServicesCreated"
  <2>1. n = Defer(e, StartBarrier)
    BY <1>1 DEF ServicesCreated, StartBarrier
  <2>2. StartBarrier \in Jobs /\ StartBarrier \notin Starters
        /\ StartBarrier # ShutdownBarrier /\ StartBarrier # StartJob
        /\ StartBarrier # Created /\ StartBarrier \notin ReadyStatuses
    BY StatusNames
  <2>3. /\ n \in LifecycleRecord /\ n.state = e.state /\ n.waits = e.waits
        /\ Has(n.jobs, StartBarrier)
        /\ Has(n.jobs, ShutdownBarrier) <=> Has(e.jobs, ShutdownBarrier)
        /\ Has(n.jobs, StartJob) <=> Has(e.jobs, StartJob)
        /\ Has(n.jobs, Created) <=> Has(e.jobs, Created)
        /\ HasAny(n.jobs, Starters) <=> HasAny(e.jobs, Starters)
        /\ HasAny(n.jobs, ReadyStatuses) <=> HasAny(e.jobs, ReadyStatuses)
        /\ Once(e.jobs, StartBarrier) /\ ~Has(e.jobs, StartBarrier) => Once(n.jobs, StartBarrier)
        /\ Once(e.jobs, StartJob) => Once(n.jobs, StartJob)
        /\ Leads(e.jobs) => Leads(n.jobs)
    BY <2>1, <2>2, DeferFacts
  <2>4. Ordered(e, n) /\ NoneStarted(e, n)
    BY <2>3 DEF Ordered, NoneStarted, NoNew
  <2>5. Kept(t, e, n)
    BY <1>1, <2>3 DEF Kept, OneStart, Past, Over, Asks, Stops, Early, Communicating, Going
  <2>6. RunsNothing(p, e, n)
    BY <2>3 DEF RunsNothing
  <2> QED
    BY <2>3, <2>4, <2>5, <2>6 DEF Moves
<1>2. CASE e.state = "CommunicationInitializing"
  <2>1. n \in CommunicationInitializing(p, e)
    BY <1>2 DEF ServicesCreated
  <2>2. Goes(p, t, e, n) /\ n \in LifecycleRecord
    BY <1>2, <2>1, CommunicationInitializingGoes
  <2> QED
    BY <2>2 DEF Goes
<1>3. CASE e.state \notin {"ServicesCreated", "CommunicationInitializing"}
  <2>1. n = ToError(e)
    BY <1>3 DEF ServicesCreated
  <2> QED
    BY <2>1, ToErrorGoes DEF Goes
<1> QED
  BY <1>1, <1>2, <1>3

LEMMA FinalGoes ==
  ASSUME NEW p, NEW t, NEW e \in LifecycleRecord
  PROVE  Goes(p, t, e, Defer(e, <<"Barrier", "Final">>))
<1>1. PICK job : job = <<"Barrier", "Final">>
  OBVIOUS
<1>2. job \in Jobs
  BY <1>1, JobTypes DEF Actions
<1>3. job \notin {StartBarrier, ShutdownBarrier, StartJob}
  BY <1>1 DEF StartBarrier, ShutdownBarrier, StartJob, Job
<1>4. job \notin Starters
  BY <1>1 DEF Starters, StatusOf
<1> QED
  BY <1>1, <1>2, <1>3, <1>4, PlainGoes

LEMMA ShutdownGoes ==
  ASSUME NEW p, NEW t, NEW e \in LifecycleRecord
  PROVE  Goes(p, t, e, ShutdownParticipant(e))
<1>1. CASE e.state \in {"Stopped", "Error"}
  <2>1. PICK d : d = Enter(e, "ShuttingDown")
    OBVIOUS
  <2>2. Goes(p, t, e, d) /\ d \in LifecycleRecord
    BY <2>1, EnterLate
  <2>3. PICK i : i = Enter(d, "Shutdown")
    OBVIOUS
  <2>4. Goes(p, t, d, i) /\ i \in LifecycleRecord
    BY <2>2, <2>3, EnterLate
  <2>5. ShutdownParticipant(e) = Defer(i, <<"Barrier", "Final">>)
    BY <1>1, <2>1, <2>3 DEF ShutdownParticipant
  <2>6. Goes(p, t, e, i) /\ Goes(p, t, i, Defer(i, <<"Barrier", "Final">>))
    BY <2>2, <2>4, FinalGoes, GoesTransitive
  <2> QED
    BY <2>5, <2>6, GoesTransitive
<1>2. CASE e.state = "Shutdown"
  BY <1>2, FinalGoes DEF ShutdownParticipant
<1>3. CASE e.state \notin {"Stopped", "Error", "Shutdown"}
  BY <1>3, ToErrorGoes DEF ShutdownParticipant
<1> QED
  BY <1>1, <1>2, <1>3

(* The barrier of StoppedState is asked for. *)
LEMMA StoppedGoes ==
  ASSUME NEW p, NEW t, NEW e \in LifecycleRecord, e.state = "Stopped"
  PROVE  Goes(p, t, e, Defer(e, <<"Barrier", "Shutdown">>))
<1>1. PICK n : n = Defer(e, ShutdownBarrier)
  OBVIOUS
<1>2. ShutdownBarrier \in Jobs /\ ShutdownBarrier \notin Starters
      /\ StartBarrier # ShutdownBarrier /\ ShutdownBarrier # StartJob
      /\ ShutdownBarrier # Created /\ ShutdownBarrier \notin ReadyStatuses
  BY StatusNames
<1>3. /\ n \in LifecycleRecord /\ n.state = e.state /\ n.waits = e.waits
      /\ Has(n.jobs, StartBarrier) <=> Has(e.jobs, StartBarrier)
      /\ Has(n.jobs, StartJob) <=> Has(e.jobs, StartJob)
      /\ Has(n.jobs, Created) <=> Has(e.jobs, Created)
      /\ HasAny(n.jobs, Starters) <=> HasAny(e.jobs, Starters)
      /\ HasAny(n.jobs, ReadyStatuses) <=> HasAny(e.jobs, ReadyStatuses)
      /\ Once(e.jobs, StartBarrier) => Once(n.jobs, StartBarrier)
      /\ Once(e.jobs, StartJob) => Once(n.jobs, StartJob)
      /\ Leads(e.jobs) => Leads(n.jobs)
  BY <1>1, <1>2, DeferFacts
<1>4. Ordered(e, n) /\ NoneStarted(e, n)
  BY <1>3 DEF Ordered, NoneStarted, NoNew
<1>5. Kept(t, e, n)
  BY <1>3 DEF Kept, OneStart, Past, Over, Asks, Early, Communicating, Going
<1>6. BeginsNothing(t, e, n) /\ RunsNothing(p, e, n)
  BY <1>3 DEF BeginsNothing, RunsNothing, Begun, Asks
<1> QED
  BY <1>1, <1>4, <1>5, <1>6 DEF Goes, Moves, ShutdownBarrier

LEMMA StopGoes ==
  ASSUME NEW p, NEW t, NEW e \in LifecycleRecord, NEW n \in StopSimulation(p, e)
  PROVE  Goes(p, t, e, n)
<1>1. CASE e.state \in {"Running", "Paused"}
  <2>1. PICK s : s = Enter(e, "Stopping")
    OBVIOUS
  <2>2. Goes(p, t, e, s) /\ s \in LifecycleRecord /\ s.state = "Stopping"
    BY <1>1, <2>1, EnterStop
  <2>3. PICK i : i = Enter(s, "Stopped")
    OBVIOUS
  <2>4. Goes(p, t, s, i) /\ i \in LifecycleRecord /\ i.state = "Stopped"
    BY <2>2, <2>3, EnterStop
  <2>5. n = Defer(i, <<"Barrier", "Shutdown">>) \/ n = Enter(s, "Error")
    BY <1>1, <2>1, <2>3 DEF StopSimulation, IfFaulty
  <2>6. Goes(p, t, i, Defer(i, <<"Barrier", "Shutdown">>))
    BY <2>4, StoppedGoes
  <2>7. Goes(p, t, s, Enter(s, "Error"))
    BY <2>2, EnterLate
  <2>8. Goes(p, t, e, i)
    BY <2>2, <2>4, GoesTransitive
  <2> QED
    BY <2>2, <2>5, <2>6, <2>7, <2>8, GoesTransitive
<1>2. CASE e.state \notin {"Running", "Paused"}
  BY <1>2, StoppedGoes, ShutdownGoes, SelfGoes DEF StopSimulation
<1> QED
  BY <1>1, <1>2

LEMMA AbortGoes ==
  ASSUME NEW p, NEW t, NEW e \in LifecycleRecord
  PROVE  Goes(p, t, e, AbortSimulation(e))
<1>1. PICK d : d = Enter(e, "Aborting")
  OBVIOUS
<1>2. Goes(p, t, e, d) /\ d \in LifecycleRecord
  BY <1>1, EnterLate
<1>3. PICK i : i = Enter(d, "Shutdown")
  OBVIOUS
<1>4. Goes(p, t, d, i) /\ i \in LifecycleRecord
  BY <1>2, <1>3, EnterLate
<1>5. Goes(p, t, e, i) /\ Goes(p, t, i, Defer(i, <<"Barrier", "Final">>))
  BY <1>2, <1>4, FinalGoes, GoesTransitive
<1>6. AbortSimulation(e) = e \/ AbortSimulation(e) = Defer(i, <<"Barrier", "Final">>)
  BY <1>1, <1>3 DEF AbortSimulation
<1> QED
  BY <1>5, <1>6, SelfGoes, GoesTransitive

(* The system state, unless it lets participants start or run. *)
LEMMA NewSystemStateGoes ==
  ASSUME NEW p, NEW t, NEW e \in LifecycleRecord, NEW s, NEW n \in NewSystemState(p, e, s),
         s \notin {"ServicesCreated", "ReadyToRun"}
  PROVE  Goes(p, t, e, n)
<1>1. n = e \/ n \in CommunicationInitialized(p, e) \/ n \in StopSimulation(p, e)
  BY DEF NewSystemState
<1> QED
  BY <1>1, SelfGoes, CommunicationInitializedGoes, StopGoes

(* A state that belongs to the first barrier and to nothing later. *)
CanStart(e) ==
  /\ ~Has(e.jobs, StartBarrier) /\ ~Has(e.jobs, ShutdownBarrier) /\ ~e.waits
  /\ e.state \notin Communicating \cup Going \cup {"Invalid"}
  /\ ~HasAny(e.jobs, ReadyStatuses)

(* The first barrier is complete. *)
LEMMA StartCompletes ==
  ASSUME NEW p, NEW e \in LifecycleRecord, NEW n \in Complete(p, e, "Start"), CanStart(e)
  PROVE  /\ Ordered(e, n) /\ NoneStarted(e, n) /\ RunsNothing(p, e, n)
         /\ OneStart("none", n)
<1>1. PICK i : i = Enter(e, "CommunicationInitializing")
  OBVIOUS
<1>2. /\ i \in LifecycleRecord /\ i.state = "CommunicationInitializing" /\ i.waits = e.waits
      /\ \A x \in {StartBarrier, ShutdownBarrier, StartJob} : NoNew(e.jobs, i.jobs, x)
      /\ Has(i.jobs, Created) => Has(e.jobs, Created)
      /\ HasAny(i.jobs, ReadyStatuses) => HasAny(e.jobs, ReadyStatuses)
      /\ Leads(e.jobs) => Leads(i.jobs)
  <2>1. "CommunicationInitializing" \in ParticipantStates
    BY StateNames
  <2> QED
    BY <1>1, <2>1, EnterFacts
<1>3. Ordered(e, i) /\ NoneStarted(e, i) /\ RunsNothing(p, e, i)
  BY <1>2 DEF Ordered, NoneStarted, RunsNothing
<1>4. OneStart("none", i)
  <2>1. Once(i.jobs, StartBarrier)
    BY <1>2 DEF CanStart, NoNew, Has, Once
  <2> QED
    BY <1>2, <2>1 DEF CanStart, OneStart, Past, Over, Asks, Stops, NoNew, Early, Communicating,
       Going
<1>5. n \in CommunicationInitializing(p, i)
  BY <1>1 DEF Complete
<1>6. Goes(p, "none", i, n)
  BY <1>2, <1>5, CommunicationInitializingGoes
<1>7. OneStart("none", n)
  BY <1>4, <1>6 DEF Goes, Moves, Kept
<1>8. Ordered(e, n) /\ NoneStarted(e, n)
  BY <1>3, <1>6 DEF Goes, Moves, Ordered, NoneStarted, NoNew
<1>9. RunsNothing(p, e, n)
  BY <1>3, <1>6 DEF Goes, RunsNothing
<1> QED
  BY <1>7, <1>8, <1>9

-----------------------------------------------------------------------------
(* The system state again. *)

(* ServicesCreated and ReadyToRun are reached with the last status of this *)
(* name, when all required participants are that far.                      *)
LEMMA CandidateNames ==
  ASSUME NEW s, NEW i \in DOMAIN Candidates(s)
  PROVE  /\ Candidates(s)[i][1] = "ServicesCreated" =>
              s = "ServicesCreated" /\ Candidates(s)[i][2] = StartingStates \cup {"Running"}
         /\ Candidates(s)[i][1] = "ReadyToRun" =>
              s = "ReadyToRun" /\ Candidates(s)[i][2] = {"ReadyToRun", "Running"}
<1>1. CASE s \in {"ServicesCreated", "CommunicationInitializing", "CommunicationInitialized",
                  "ReadyToRun"}
  BY <1>1 DEF Candidates
<1>2. CASE s = "Running"
  BY <1>2 DEF Candidates
<1>3. CASE s = "Paused"
  BY <1>3 DEF Candidates
<1>4. CASE s \in {"Stopping", "Stopped", "ShuttingDown", "Shutdown"}
  BY <1>4 DEF Candidates
<1>5. CASE s \in {"Aborting", "Error"}
  BY <1>5 DEF Candidates
<1>6. CASE s \notin {"ServicesCreated", "CommunicationInitializing", "CommunicationInitialized",
                     "ReadyToRun", "Running", "Paused", "Stopping", "Stopped", "ShuttingDown",
                     "Shutdown", "Aborting", "Error"}
  BY <1>6 DEF Candidates
<1> QED
  BY <1>1, <1>2, <1>3, <1>4, <1>5, <1>6

LEMMA SystemStateNews ==
  ASSUME NEW c, NEW required, NEW old, NEW s, NEW y,
         y = ComputeSystemState(c, required, old, s), y # old
  PROVE  /\ y = "ServicesCreated" =>
              s = "ServicesCreated" /\ \A r \in required : c[r] \in StartingStates \cup {"Running"}
         /\ y = "ReadyToRun" => \A r \in required : c[r] \in {"ReadyToRun", "Running"}
<1>1. PICK list : list = Candidates(s)
  OBVIOUS
<1>2. PICK A : A = {i \in DOMAIN list : AllIn(c, required, list[i][2])}
  OBVIOUS
<1>3. PICK f : f = CHOOSE i \in A : \A j \in A : i <= j
  OBVIOUS
<1>4. CASE A # {}
  <2>1. A \in SUBSET (1..5)
    BY <1>1, <1>2, CandidateTypes
  <2>2. f \in A
    BY <1>3, <1>4, <2>1, LeastIndex
  <2>3. y = list[f][1]
    BY <1>1, <1>2, <1>3, <1>4 DEF ComputeSystemState
  <2>4. f \in DOMAIN Candidates(s) /\ \A r \in required : c[r] \in list[f][2]
    BY <1>1, <1>2, <2>2 DEF AllIn
  <2> QED
    BY <1>1, <2>3, <2>4, CandidateNames
<1>5. CASE A = {}
  <2>1. y = StateOfNobody(old)
    BY <1>1, <1>2, <1>5 DEF ComputeSystemState
  <2> QED
    BY <2>1 DEF StateOfNobody
<1> QED
  BY <1>4, <1>5

-----------------------------------------------------------------------------
(* The start, over all participants. *)

IsPast(p) == Past(bar[p].then, io[p])
HasBegun(p) == Begun(bar[p].then, io[p])

(* Nothing asks p for a second first barrier: the statuses that have made  *)
(* the system state ServicesCreated do not come again, nor does the job of *)
(* an autonomous participant.                                              *)
NotAgain(p) ==
  IF p \in Coordinated
  THEN \A q \in Participants : HasArrived(State(q), io[q].jobs, chan[q][p])
  ELSE life[p] = "started" /\ ~Has(io[p].jobs, StartJob)

Starts(p) ==
  /\ OneStart(bar[p].then, io[p])
  /\ HasBegun(p) => NotAgain(p)
  /\ Once(io[p].jobs, StartJob)
  /\ Has(io[p].jobs, StartJob) => p \notin Coordinated /\ life[p] = "started"
  /\ p \notin conn[p] /\ ~HasAny(chan[p][p], Starters)

(* The statuses of x on their way to y. *)
Announces(x, y) ==
  /\ InOrder(State(x), io[x].jobs, chan[x][y], cache[y][x])
  /\ HasAny(chan[x][y], ReadyStatuses) \/ StatusOf(cache[y][x]) \in ReadyStatuses => IsPast(x)

(* A coordinated participant runs when everybody is past its start. *)
RunsLast(p) ==
  p \in Coordinated /\ State(p) \in {"Running", "Paused"} => \A r \in Participants : IsPast(r)

StartInv ==
  /\ AllRequired
  /\ \A p \in Participants : Starts(p) /\ RunsLast(p)
  /\ \A x, y \in Participants : Announces(x, y)

(* A step of the queues between two participants that keeps the order and  *)
(* adds no status.                                                         *)
Conveys(js, ch, c, js1, ch1, c1) ==
  /\ \A st : InOrder(st, js, ch, c) => InOrder(st, js1, ch1, c1)
  /\ \A st : HasArrived(st, js, ch) => HasArrived(st, js1, ch1)
  /\ HasAny(js1, ReadyStatuses) \/ HasAny(ch1, ReadyStatuses) \/ StatusOf(c1) \in ReadyStatuses
       => \/ HasAny(js, ReadyStatuses) \/ HasAny(ch, ReadyStatuses)
          \/ StatusOf(c) \in ReadyStatuses

(* The queues of all of them, when p has the jobs js left. *)
Queues(p, js) ==
  /\ \A x, y \in Participants :
       Conveys(io[x].jobs, chan[x][y], cache[y][x],
               IF x = p THEN js ELSE io[x].jobs, chan'[x][y], cache'[y][x])
  /\ \A x \in Participants : x \notin conn'[x] /\ ~HasAny(chan'[x][x], Starters)

LEMMA OrderedKeeps ==
  ASSUME NEW e, NEW n, Ordered(e, n), NEW ch, NEW c
  PROVE  /\ InOrder(e.state, e.jobs, ch, c) => InOrder(n.state, n.jobs, ch, c)
         /\ HasArrived(e.state, e.jobs, ch) => HasArrived(n.state, n.jobs, ch)
BY DEF Ordered, InOrder, HasArrived

LEMMA StartStep ==
  ASSUME StartInv, NEW p \in Participants, NEW e, NEW n,
         io'[p] = n, \A x \in Participants : x # p => io'[x] = io[x],
         e.state = State(p), Ordered(e, n),
         Queues(p, e.jobs),
         \A x \in Participants : x # p => bar'[x].then = bar[x].then,
         OneStart(bar'[p].then, n), IsPast(p) => Past(bar'[p].then, n),
         Begun(bar'[p].then, n) => HasBegun(p) \/ NotAgain(p)',
         \A x \in Participants : life[x] = "started" => life'[x] = "started",
         Once(n.jobs, StartJob),
         Has(n.jobs, StartJob) =>
           \/ Has(io[p].jobs, StartJob)
           \/ p \notin Coordinated /\ life[p] # "started" /\ life'[p] = "started",
         p \in Coordinated /\ n.state \in {"Running", "Paused"} =>
           State(p) \in {"Running", "Paused"} \/ \A r \in Participants : IsPast(r)
  PROVE  StartInv'
<1>1. \A x \in Participants : Starts(x) /\ RunsLast(x)
  BY DEF StartInv
<1>2. \A x \in Participants : IsPast(x) => IsPast(x)'
  BY DEF IsPast
<1>3. ASSUME NEW x \in Participants, NEW y \in Participants
      PROVE  /\ Announces(x, y)'
             /\ HasArrived(State(x), io[x].jobs, chan[x][y])
                  => HasArrived(State(x), io[x].jobs, chan[x][y])'
  <2>1. PICK js : js = IF x = p THEN e.jobs ELSE io[x].jobs
    OBVIOUS
  <2>2. Conveys(io[x].jobs, chan[x][y], cache[y][x], js, chan'[x][y], cache'[y][x])
    BY <2>1 DEF Queues
  <2>3. Announces(x, y)
    BY DEF StartInv
  <2>4. /\ InOrder(State(x), js, chan'[x][y], cache'[y][x])
        /\ HasArrived(State(x), io[x].jobs, chan[x][y]) => HasArrived(State(x), js, chan'[x][y])
    BY <2>2, <2>3 DEF Conveys, Announces
  <2>5. /\ InOrder(io'[x].state, io'[x].jobs, chan'[x][y], cache'[y][x])
        /\ HasArrived(State(x), js, chan'[x][y])
             => HasArrived(io'[x].state, io'[x].jobs, chan'[x][y])
    <3>1. CASE x = p
      BY <2>1, <2>4, <3>1, OrderedKeeps
    <3>2. CASE x # p
      BY <2>1, <2>4, <3>2 DEF State
    <3> QED
      BY <3>1, <3>2
  <2>6. OneStart(bar[x].then, io[x])
    BY <1>1 DEF Starts
  <2>7. HasAny(chan'[x][y], ReadyStatuses) \/ StatusOf(cache'[y][x]) \in ReadyStatuses => IsPast(x)
    BY <2>2, <2>3, <2>6 DEF Conveys, Announces, OneStart, IsPast
  <2> QED
    BY <2>4, <2>5, <2>7, <1>2 DEF Announces, State
<1>4. ASSUME NEW x \in Participants, NotAgain(x), HasBegun(x) PROVE NotAgain(x)'
  <2>1. CASE x \in Coordinated
    BY <1>3, <1>4, <2>1 DEF NotAgain
  <2>2. CASE x \notin Coordinated
    <3>1. life[x] = "started" /\ ~Has(io[x].jobs, StartJob) /\ life'[x] = "started"
      BY <1>4, <2>2 DEF NotAgain
    <3>2. ~Has(io'[x].jobs, StartJob)
      BY <3>1
    <3> QED
      BY <2>2, <3>1, <3>2 DEF NotAgain
  <2> QED
    BY <2>1, <2>2
<1>5. ASSUME NEW x \in Participants PROVE Starts(x)'
  <2>1. OneStart(bar'[x].then, io'[x])
    <3>1. x # p => bar'[x].then = bar[x].then /\ io'[x] = io[x] /\ OneStart(bar[x].then, io[x])
      BY <1>1 DEF Starts
    <3> QED
      BY <3>1
  <2>2. Begun(bar'[x].then, io'[x]) => NotAgain(x)'
    <3>1. Begun(bar'[x].then, io'[x]) => HasBegun(x) \/ NotAgain(x)'
      BY DEF HasBegun
    <3>2. HasBegun(x) => NotAgain(x)
      BY <1>1 DEF Starts
    <3> QED
      BY <3>1, <3>2, <1>4
  <2>3. Once(io'[x].jobs, StartJob)
    BY <1>1 DEF Starts
  <2>4. Has(io'[x].jobs, StartJob) => x \notin Coordinated /\ life'[x] = "started"
    <3>1. Has(io[x].jobs, StartJob) => x \notin Coordinated /\ life'[x] = "started"
      BY <1>1 DEF Starts
    <3> QED
      BY <3>1
  <2>5. x \notin conn'[x] /\ ~HasAny(chan'[x][x], Starters)
    BY DEF Queues
  <2> QED
    BY <2>1, <2>2, <2>3, <2>4, <2>5 DEF Starts, HasBegun
<1>6. ASSUME NEW x \in Participants PROVE RunsLast(x)'
  <2>1. x \in Coordinated /\ io'[x].state \in {"Running", "Paused"} =>
          State(x) \in {"Running", "Paused"} \/ \A r \in Participants : IsPast(r)
    BY DEF State
  <2>2. x \in Coordinated /\ State(x) \in {"Running", "Paused"} => \A r \in Participants : IsPast(r)
    BY <1>1 DEF RunsLast
  <2> QED
    BY <2>1, <2>2, <1>2 DEF RunsLast, State
<1> QED
  BY <1>3, <1>5, <1>6 DEF StartInv, AllRequired

LEMMA ConveysSelf ==
  ASSUME NEW js, NEW ch, NEW c
  PROVE  Conveys(js, ch, c, js, ch, c)
BY DEF Conveys

LEMMA ConveysTransitive ==
  ASSUME NEW js, NEW ch, NEW c, NEW js1, NEW ch1, NEW c1, NEW js2, NEW ch2, NEW c2,
         Conveys(js, ch, c, js1, ch1, c1), Conveys(js1, ch1, c1, js2, ch2, c2)
  PROVE  Conveys(js, ch, c, js2, ch2, c2)
BY DEF Conveys

(* A job is done, all of them are dropped. *)
LEMMA ConveysDone ==
  ASSUME NEW js \in Seq(Jobs), js # <<>>, NEW ch, NEW c
  PROVE  Conveys(js, ch, c, Tail(js), ch, c)
<1>1. /\ \A X : HasAny(Tail(js), X) => HasAny(js, X)
      /\ Leads(js) => Leads(Tail(js))
  BY TailAny
<1>2. Has(Tail(js), Created) => Has(js, Created)
  BY TailHas
<1> QED
  BY <1>1, <1>2 DEF Conveys, InOrder, HasArrived

LEMMA ConveysDropped ==
  ASSUME NEW js, NEW ch, NEW c
  PROVE  Conveys(js, ch, c, <<>>, ch, c) /\ Conveys(js, ch, c, js, <<>>, c)
<1>1. ~Has(<<>>, Created)
  BY EmptyHas
<1> QED
  BY <1>1, EmptyAny DEF Conveys, InOrder, HasArrived

(* A message that is no status is sent. *)
LEMMA ConveysSent ==
  ASSUME NEW js, NEW ch \in Seq(Messages), NEW c, NEW m \in Messages, m \notin Starters
  PROVE  Conveys(js, ch, c, js, Append(ch, m), c)
<1>1. m # Created /\ m \notin ReadyStatuses
  BY StatusNames
<1>2. /\ \A X : HasAny(Append(ch, m), X) <=> HasAny(ch, X) \/ m \in X
      /\ Leads(ch) => Leads(Append(ch, m))
  BY <1>1, AppendAny
<1>3. Has(Append(ch, m), Created) => Has(ch, Created)
  BY <1>1, AppendHas
<1>4. /\ HasAny(Append(ch, m), Starters) => HasAny(ch, Starters)
      /\ HasAny(Append(ch, m), ReadyStatuses) => HasAny(ch, ReadyStatuses)
  BY <1>1, <1>2
<1> QED
  BY <1>2, <1>3, <1>4 DEF Conveys, InOrder, HasArrived

(* A job that is a message is sent. *)
LEMMA ConveysJob ==
  ASSUME NEW js \in Seq(Jobs), js # <<>>, NEW ch \in Seq(Messages), NEW c, Head(js) \in Messages
  PROVE  Conveys(js, ch, c, Tail(js), Append(ch, Head(js)), c)
<1>1. PICK m \in Messages : m = Head(js)
  OBVIOUS
<1>2. PICK j1 : j1 = Tail(js)
  OBVIOUS
<1>3. PICK c1 : c1 = Append(ch, m)
  OBVIOUS
<1>4. /\ \A X : HasAny(j1, X) => HasAny(js, X)
      /\ \A X : m \in X => HasAny(js, X)
      /\ Leads(js) => Leads(j1)
      /\ Leads(js) /\ m \in Starters => ~Has(j1, Created)
  BY <1>1, <1>2, TailAny
<1>5. (Has(j1, Created) => Has(js, Created)) /\ (m = Created => Has(js, Created))
  BY <1>1, <1>2, TailHas
<1>6. /\ \A X : HasAny(c1, X) <=> HasAny(ch, X) \/ m \in X
      /\ Leads(ch) /\ (m = Created => ~HasAny(ch, Starters)) => Leads(c1)
  BY <1>3, AppendAny
<1>7. Has(c1, Created) <=> Has(ch, Created) \/ m = Created
  BY <1>3, AppendHas
<1>8. Created \in Starters
  BY StatusNames
<1>9. ASSUME NEW st, InOrder(st, js, ch, c) PROVE InOrder(st, j1, c1, c)
  BY <1>4, <1>5, <1>6, <1>7, <1>8, <1>9 DEF InOrder
<1>10. \A st : HasArrived(st, js, ch) => HasArrived(st, j1, c1)
  BY <1>5, <1>7 DEF HasArrived
<1>11. /\ HasAny(j1, ReadyStatuses) => HasAny(js, ReadyStatuses)
       /\ HasAny(c1, ReadyStatuses) => HasAny(js, ReadyStatuses) \/ HasAny(ch, ReadyStatuses)
  BY <1>4, <1>6
<1>12. Conveys(js, ch, c, j1, c1, c)
  BY <1>9, <1>10, <1>11 DEF Conveys
<1> QED
  BY <1>1, <1>2, <1>3, <1>12

(* A status is delivered to the own monitor. *)
LEMMA ConveysOwn ==
  ASSUME NEW js \in Seq(Jobs), js # <<>>, NEW ch, ~HasAny(ch, Starters), NEW c,
         NEW s, Head(js) = StatusOf(s), NEW c1 \in {c, s}
  PROVE  Conveys(js, ch, c, Tail(js), ch, c1)
<1>1. PICK j1 : j1 = Tail(js)
  OBVIOUS
<1>2. PICK m : m = Head(js)
  OBVIOUS
<1>3. /\ \A X : HasAny(j1, X) => HasAny(js, X)
      /\ \A X : m \in X => HasAny(js, X)
      /\ Leads(js) => Leads(j1)
      /\ Leads(js) /\ m \in Starters => ~Has(j1, Created)
  BY <1>1, <1>2, TailAny
<1>4. Has(j1, Created) => Has(js, Created)
  BY <1>1, TailHas
<1>5. ~Has(ch, Created)
  BY HasIsAny, StatusNames
<1>6. StatusOf(c1) = StatusOf(c) \/ StatusOf(c1) = m
  BY <1>2
<1>7. Conveys(js, ch, c, j1, ch, c1)
  BY <1>3, <1>4, <1>5, <1>6 DEF Conveys, InOrder, HasArrived
<1> QED
  BY <1>1, <1>7

(* A message is taken; if it is a status it may become the one known. *)
LEMMA ConveysTaken ==
  ASSUME NEW js, NEW ch \in Seq(Messages), ch # <<>>, NEW c, NEW c1,
         c1 = c \/ Head(ch) = StatusOf(c1)
  PROVE  Conveys(js, ch, c, js, Tail(ch), c1)
<1>1. PICK t1 : t1 = Tail(ch)
  OBVIOUS
<1>2. PICK m : m = Head(ch)
  OBVIOUS
<1>3. /\ \A X : HasAny(t1, X) => HasAny(ch, X)
      /\ \A X : m \in X => HasAny(ch, X)
      /\ Leads(ch) => Leads(t1)
      /\ Leads(ch) /\ m \in Starters => ~Has(t1, Created)
  BY <1>1, <1>2, TailAny
<1>4. Has(t1, Created) => Has(ch, Created)
  BY <1>1, TailHas
<1>5. StatusOf(c1) = StatusOf(c) \/ StatusOf(c1) = m
  BY <1>2
<1>6. Conveys(js, ch, c, js, t1, c1)
  BY <1>3, <1>4, <1>5 DEF Conveys, InOrder, HasArrived
<1> QED
  BY <1>1, <1>6

(* What is known of a participant is no longer a state of its start. *)
LEMMA ConveysForgotten ==
  ASSUME NEW js, NEW ch, NEW c, NEW c1, StatusOf(c1) \notin Starters
  PROVE  Conveys(js, ch, c, js, ch, c1)
<1>1. StatusOf(c1) \notin ReadyStatuses
  BY StatusNames
<1> QED
  BY <1>1 DEF Conveys, InOrder, HasArrived

-----------------------------------------------------------------------------
LEMMA DoneGoes ==
  ASSUME TypeOK, NEW p \in Participants, io[p].jobs # <<>>, NEW t
  PROVE  /\ Goes(p, t, io[p], Done(p)) /\ Done(p) \in LifecycleRecord
         /\ Done(p).state = State(p) /\ Done(p).jobs = Tail(io[p].jobs)
         /\ Done(p).waits = io[p].waits /\ io[p].jobs \in Seq(Jobs)
<1>1. PICK e \in LifecycleRecord : e = io[p]
  BY DEF TypeOK
<1>2. PICK n : n = Done(p)
  OBVIOUS
<1>3. e.jobs \in Seq(Jobs) /\ e.jobs # <<>>
  BY <1>1 DEF LifecycleRecord
<1>4. n = [e EXCEPT !.jobs = Tail(@)] /\ Tail(e.jobs) \in Seq(Jobs)
  BY <1>1, <1>2, <1>3 DEF Done
<1>5. n \in LifecycleRecord /\ n.state = e.state /\ n.waits = e.waits /\ n.jobs = Tail(e.jobs)
  BY <1>4 DEF LifecycleRecord
<1>6. /\ \A x : Has(n.jobs, x) => Has(e.jobs, x)
      /\ \A x : Once(e.jobs, x) => Once(n.jobs, x)
  BY <1>3, <1>5, TailHas
<1>7. /\ \A X : HasAny(n.jobs, X) => HasAny(e.jobs, X)
      /\ Leads(e.jobs) => Leads(n.jobs)
  BY <1>3, <1>5, TailAny
<1>8. Ordered(e, n) /\ NoneStarted(e, n)
  BY <1>5, <1>6, <1>7 DEF Ordered, NoneStarted, NoNew
<1>9. Kept(t, e, n)
  <2>1. /\ Has(n.jobs, StartBarrier) => Has(e.jobs, StartBarrier)
        /\ Has(n.jobs, ShutdownBarrier) => Has(e.jobs, ShutdownBarrier)
        /\ HasAny(n.jobs, ReadyStatuses) => HasAny(e.jobs, ReadyStatuses)
        /\ Once(e.jobs, StartBarrier) => Once(n.jobs, StartBarrier)
    BY <1>6, <1>7
  <2> QED
    BY <1>5, <2>1 DEF Kept, OneStart, Past, Over, Asks, Stops
<1>10. BeginsNothing(t, e, n) /\ RunsNothing(p, e, n)
  BY <1>5, <1>6 DEF BeginsNothing, RunsNothing, Begun, Asks
<1> QED
  BY <1>1, <1>2, <1>3, <1>5, <1>8, <1>9, <1>10 DEF Goes, Moves, State

LEMMA IoOf ==
  ASSUME TypeOK, NEW p \in Participants, NEW n, io' = [io EXCEPT ![p] = n]
  PROVE  io'[p] = n /\ \A x \in Participants : x # p => io'[x] = io[x]
BY DEF TypeOK

(* A step of one IO thread that keeps its barrier. *)
LEMMA MovesStep ==
  ASSUME StartInv, TypeOK, NEW p \in Participants, NEW e, NEW n,
         e.state = State(p), Goes(p, bar[p].then, io[p], e), Moves(bar[p].then, e, n),
         io' = [io EXCEPT ![p] = n],
         Queues(p, e.jobs),
         \A x \in Participants : life[x] = "started" => life'[x] = "started",
         \A x \in Participants : bar'[x].then = bar[x].then,
         Begun(bar[p].then, n) => HasBegun(p) \/ NotAgain(p)',
         p \in Coordinated /\ n.state \in {"Running", "Paused"} =>
           State(p) \in {"Running", "Paused"} \/ \A r \in Participants : IsPast(r)
  PROVE  StartInv'
<1>1. io'[p] = n /\ \A x \in Participants : x # p => io'[x] = io[x]
  BY IoOf
<1>2. Starts(p)
  BY DEF StartInv
<1>3. Moves(bar[p].then, io[p], n)
  BY MovesTransitive DEF Goes
<1>4. OneStart(bar'[p].then, n) /\ (IsPast(p) => Past(bar'[p].then, n))
  BY <1>2, <1>3 DEF Moves, Kept, Starts, IsPast
<1>5. Once(n.jobs, StartJob) /\ (Has(n.jobs, StartJob) => Has(io[p].jobs, StartJob))
  BY <1>2, <1>3 DEF Moves, NoneStarted, NoNew, Starts
<1>6. Begun(bar'[p].then, n) => HasBegun(p) \/ NotAgain(p)'
  OBVIOUS
<1>7. Ordered(e, n)
  BY DEF Moves
<1> QED
  BY <1>1, <1>4, <1>5, <1>6, <1>7, StartStep

(* A step of one IO thread that asks for no start. *)
LEMMA GoesStep ==
  ASSUME StartInv, TypeOK, NEW p \in Participants, NEW e, NEW n,
         e.state = State(p), Goes(p, bar[p].then, io[p], e), Goes(p, bar[p].then, e, n),
         io' = [io EXCEPT ![p] = n],
         Queues(p, e.jobs),
         \A x \in Participants : life[x] = "started" => life'[x] = "started",
         \A x \in Participants : bar'[x].then = bar[x].then
  PROVE  StartInv'
<1>1. Goes(p, bar[p].then, io[p], n)
  BY GoesTransitive
<1>2. Moves(bar[p].then, e, n)
  BY DEF Goes
<1>3. Begun(bar[p].then, n) => HasBegun(p)
  BY <1>1 DEF Goes, BeginsNothing, HasBegun
<1>4. p \in Coordinated /\ n.state \in {"Running", "Paused"} => State(p) \in {"Running", "Paused"}
  BY <1>1 DEF Goes, RunsNothing, State
<1> QED
  BY <1>2, <1>3, <1>4, MovesStep

(* A step of the state machine alone. *)
LEMMA GoesOnly ==
  ASSUME StartInv, TypeOK, NEW p \in Participants, NEW n,
         Goes(p, bar[p].then, io[p], n), io' = [io EXCEPT ![p] = n],
         \A x \in Participants : life[x] = "started" => life'[x] = "started",
         UNCHANGED <<bar, cache, conn, chan>>
  PROVE  StartInv'
<1>1. PICK e : e = io[p]
  OBVIOUS
<1>2. e.state = State(p) /\ Goes(p, bar[p].then, io[p], e) /\ Goes(p, bar[p].then, e, n)
  BY <1>1, SelfGoes DEF State
<1>3. Queues(p, e.jobs)
  BY <1>1, ConveysSelf DEF Queues, StartInv, Starts
<1>4. \A x \in Participants : bar'[x].then = bar[x].then
  OBVIOUS
<1> QED
  BY <1>2, <1>3, <1>4, GoesStep

-----------------------------------------------------------------------------
(* Jobs of the state machine. *)

PlainNames == {"Initialize", "CompleteReady", "Register", "Command", "Call", "Pause", "Continue",
               "Stop", "Error", "Abort"}

MessageNames == {"Subscribe", "Acknowledge", "Call", "Reply", "Abort", "End"}

LEMMA PlainJobs ==
  /\ \A name \in PlainNames :
       /\ Job(name) \in Jobs
       /\ Job(name) \notin Starters \cup {StartBarrier, ShutdownBarrier, StartJob}
  /\ \A p \in Participants :
       /\ ReplyTo(p) \in Jobs
       /\ ReplyTo(p) \notin Starters \cup {StartBarrier, ShutdownBarrier, StartJob}
  /\ \A name \in MessageNames : Job(name) \in Messages /\ Job(name) \notin Starters
<1>1. \A x \in Starters : x[1] = "Status"
  BY DEF Starters, StatusOf
<1>2. /\ StartBarrier[1] = "Barrier" /\ ShutdownBarrier[1] = "Barrier"
      /\ StartJob[1] = "StartAutonomous"
  BY DEF StartBarrier, ShutdownBarrier, StartJob, Job
<1>3. ASSUME NEW name, NEW j, j = Job(name) PROVE j[1] = name
  BY <1>3 DEF Job
<1>4. ASSUME NEW name \in PlainNames
      PROVE  /\ Job(name) \in Jobs
             /\ Job(name) \notin Starters \cup {StartBarrier, ShutdownBarrier, StartJob}
  <2>1. PICK j : j = Job(name)
    OBVIOUS
  <2>2. j[1] = name
    BY <1>3, <2>1
  <2>3. j \in Jobs
    <3>1. CASE name = "Call"
      BY <2>1, <3>1, JobTypes DEF CallToken
    <3>2. CASE name # "Call"
      BY <2>1, <3>2, JobTypes DEF PlainNames
    <3> QED
      BY <3>1, <3>2
  <2>4. j \notin Starters \cup {StartBarrier, ShutdownBarrier, StartJob}
    BY <2>2, <1>1, <1>2 DEF PlainNames
  <2> QED
    BY <2>1, <2>3, <2>4
<1>5. ASSUME NEW p \in Participants
      PROVE  /\ ReplyTo(p) \in Jobs
             /\ ReplyTo(p) \notin Starters \cup {StartBarrier, ShutdownBarrier, StartJob}
  <2>1. ReplyTo(p)[1] = "Reply"
    BY DEF ReplyTo
  <2>2. ReplyTo(p) \in Jobs
    BY JobTypes
  <2> QED
    BY <2>1, <2>2, <1>1, <1>2
<1>6. ASSUME NEW name \in MessageNames PROVE Job(name) \in Messages /\ Job(name) \notin Starters
  <2>1. PICK j : j = Job(name)
    OBVIOUS
  <2>2. j[1] = name
    BY <1>3, <2>1
  <2>3. j \notin Starters
    BY <2>2, <1>1 DEF MessageNames
  <2>4. j \in Messages
    <3>1. PICK A : A = MessageNames
      OBVIOUS
    <3>2. j = <<name, "">> /\ name \in A
      BY <2>1, <3>1 DEF Job
    <3>3. j \in A \X {""}
      BY <3>2
    <3> QED
      BY <3>1, <3>3 DEF Messages, MessageNames
  <2> QED
    BY <2>1, <2>3, <2>4
<1> QED
  BY <1>4, <1>5, <1>6

LEMMA JobGoes ==
  ASSUME NEW p, NEW t, NEW e \in LifecycleRecord, NEW name \in PlainNames
  PROVE  Goes(p, t, e, Defer(e, Job(name))) /\ Defer(e, Job(name)) \in LifecycleRecord
<1>1. PICK job \in Jobs : job = Job(name)
  BY PlainJobs
<1>2. job \notin Starters \cup {StartBarrier, ShutdownBarrier, StartJob}
  BY <1>1, PlainJobs
<1> QED
  BY <1>1, <1>2, PlainGoes

(* The queues when p has done a job that sends nothing. *)
LEMMA DoneConveys ==
  ASSUME StartInv, TypeOK, NEW p \in Participants, io[p].jobs # <<>>,
         UNCHANGED <<cache, conn, chan>>
  PROVE  Queues(p, Done(p).jobs)
<1>1. Done(p).jobs = Tail(io[p].jobs) /\ io[p].jobs \in Seq(Jobs)
  BY DoneStep
<1>2. \A ch, c : Conveys(io[p].jobs, ch, c, Done(p).jobs, ch, c)
  BY <1>1, ConveysDone
<1>3. \A x \in Participants : x \notin conn[x] /\ ~HasAny(chan[x][x], Starters)
  BY DEF StartInv, Starts
<1>4. ASSUME NEW x \in Participants, NEW y \in Participants
      PROVE  Conveys(io[x].jobs, chan[x][y], cache[y][x],
                     IF x = p THEN Done(p).jobs ELSE io[x].jobs, chan'[x][y], cache'[y][x])
  BY <1>2, ConveysSelf
<1> QED
  BY <1>3, <1>4 DEF Queues

LEMMA LifecycleGoes ==
  ASSUME StartInv, TypeOK, NEW p \in Participants, NEW name, NextJob(p, name),
         NEW outcomes, Lifecycle(p, outcomes),
         \A n \in outcomes : Goes(p, bar[p].then, Done(p), n)
  PROVE  StartInv'
<1>1. io[p].jobs # <<>>
  BY DEF NextJob
<1>2. PICK n \in outcomes : io' = [io EXCEPT ![p] = n]
  BY DEF Lifecycle
<1>3. UNCHANGED <<life, bar, cache, conn, chan>>
  BY DEF Lifecycle, monitorVars
<1>4. Done(p).state = State(p) /\ Goes(p, bar[p].then, io[p], Done(p))
  BY <1>1, DoneGoes
<1>5. PICK e : e = Done(p)
  OBVIOUS
<1>6. Queues(p, e.jobs)
  BY <1>1, <1>3, <1>5, DoneConveys
<1>7. Goes(p, bar[p].then, e, n) /\ Goes(p, bar[p].then, io[p], e) /\ e.state = State(p)
  BY <1>4, <1>5
<1> QED
  BY <1>2, <1>3, <1>6, <1>7, GoesStep

LEMMA LifecycleJobsStart ==
  ASSUME StartInv, TypeOK, NEW p \in Participants,
         \/ InitializeJob(p) \/ CompleteReadyJob(p)
         \/ PauseJob(p) \/ ContinueJob(p) \/ StopJob(p) \/ ErrorJob(p) \/ AbortJob(p)
  PROVE  StartInv'
<1>1. \A name : NextJob(p, name) => Done(p) \in LifecycleRecord /\ Done(p).state = io[p].state
  BY DoneGoes DEF NextJob, State
<1>2. PICK t : t = bar[p].then
  OBVIOUS
<1>3. CASE InitializeJob(p)
  <2>1. NextJob(p, "Initialize") /\ Lifecycle(p, {Initialize(Done(p))})
    BY <1>3 DEF InitializeJob
  <2>2. \A n \in {Initialize(Done(p))} : Goes(p, t, Done(p), n)
    BY <1>1, <2>1, InitializeGoes
  <2> QED
    BY <1>2, <2>1, <2>2, LifecycleGoes
<1>4. CASE CompleteReadyJob(p)
  <2>1. /\ NextJob(p, "CompleteReady")
        /\ Lifecycle(p, CompleteCommunicationReadyHandler(p, Done(p)))
    BY <1>4 DEF CompleteReadyJob
  <2>2. \A n \in CompleteCommunicationReadyHandler(p, Done(p)) : Goes(p, t, Done(p), n)
    BY <1>1, <2>1, CompleteReadyGoes
  <2> QED
    BY <1>2, <2>1, <2>2, LifecycleGoes
<1>5. CASE PauseJob(p)
  <2>1. PICK n : n = IF io[p].state = "Running" THEN Enter(Done(p), "Paused")
                     ELSE Defer(Done(p), Job("Error"))
    OBVIOUS
  <2>2. NextJob(p, "Pause") /\ Lifecycle(p, {n})
    BY <1>5, <2>1 DEF PauseJob
  <2>3. Goes(p, t, Done(p), n)
    <3>1. CASE io[p].state = "Running"
      <4>1. n = Enter(Done(p), "Paused") /\ Done(p).state = "Running" /\ Done(p) \in LifecycleRecord
        BY <1>1, <2>1, <2>2, <3>1
      <4>2. Moves(t, Done(p), n) /\ BeginsNothing(t, Done(p), n)
        BY <4>1, EnterRun DEF Going
      <4> QED
        BY <4>1, <4>2 DEF Goes, RunsNothing
    <3>2. CASE io[p].state # "Running"
      BY <1>1, <2>1, <2>2, <3>2, JobGoes DEF PlainNames
    <3> QED
      BY <3>1, <3>2
  <2>4. \A m \in {n} : Goes(p, t, Done(p), m)
    BY <2>3
  <2> QED
    BY <1>2, <2>2, <2>4, LifecycleGoes
<1>6. CASE ContinueJob(p)
  <2>1. PICK n : n = IF io[p].state = "Paused" THEN Enter(Done(p), "Running")
                     ELSE Defer(Done(p), Job("Error"))
    OBVIOUS
  <2>2. NextJob(p, "Continue") /\ Lifecycle(p, {n})
    BY <1>6, <2>1 DEF ContinueJob
  <2>3. Goes(p, t, Done(p), n)
    <3>1. CASE io[p].state = "Paused"
      <4>1. n = Enter(Done(p), "Running") /\ Done(p).state = "Paused" /\ Done(p) \in LifecycleRecord
        BY <1>1, <2>1, <2>2, <3>1
      <4>2. Moves(t, Done(p), n) /\ BeginsNothing(t, Done(p), n)
        BY <4>1, EnterRun DEF Going
      <4> QED
        BY <4>1, <4>2 DEF Goes, RunsNothing
    <3>2. CASE io[p].state # "Paused"
      BY <1>1, <2>1, <2>2, <3>2, JobGoes DEF PlainNames
    <3> QED
      BY <3>1, <3>2
  <2>4. \A m \in {n} : Goes(p, t, Done(p), m)
    BY <2>3
  <2> QED
    BY <1>2, <2>2, <2>4, LifecycleGoes
<1>7. CASE StopJob(p)
  <2>1. NextJob(p, "Stop") /\ Lifecycle(p, StopSimulation(p, Done(p)))
    BY <1>7 DEF StopJob
  <2>2. \A n \in StopSimulation(p, Done(p)) : Goes(p, t, Done(p), n)
    BY <1>1, <2>1, StopGoes
  <2> QED
    BY <1>2, <2>1, <2>2, LifecycleGoes
<1>8. CASE ErrorJob(p)
  <2>1. PICK n : n = IF life[p] \in {"idle", "aborted"} THEN Done(p) ELSE ToError(Done(p))
    OBVIOUS
  <2>2. NextJob(p, "Error") /\ Lifecycle(p, {n})
    BY <1>8, <2>1 DEF ErrorJob
  <2>3. \A m \in {n} : Goes(p, t, Done(p), m)
    BY <1>1, <2>1, <2>2, ToErrorGoes, SelfGoes
  <2> QED
    BY <1>2, <2>2, <2>3, LifecycleGoes
<1>9. CASE AbortJob(p)
  <2>1. NextJob(p, "Abort") /\ Lifecycle(p, {AbortSimulation(Done(p))})
    BY <1>9 DEF AbortJob
  <2>2. \A n \in {AbortSimulation(Done(p))} : Goes(p, t, Done(p), n)
    BY <1>1, <2>1, AbortGoes
  <2> QED
    BY <1>2, <2>1, <2>2, LifecycleGoes
<1> QED
  BY <1>3, <1>4, <1>5, <1>6, <1>7, <1>8, <1>9

(* An autonomous participant asks for its first barrier. *)
LEMMA StartAutonomousStart ==
  ASSUME StartInv, TypeOK, NEW p \in Participants, StartAutonomousJob(p)
  PROVE  StartInv'
<1>1. io[p].jobs # <<>> /\ Head(io[p].jobs)[1] = "StartAutonomous"
  BY DEF StartAutonomousJob, NextJob
<1>2. PICK e : e = Done(p)
  OBVIOUS
<1>3. PICK t : t = bar[p].then
  OBVIOUS
<1>4. /\ Goes(p, t, io[p], e) /\ e \in LifecycleRecord /\ e.state = State(p)
      /\ e.jobs = Tail(io[p].jobs) /\ io[p].jobs \in Seq(Jobs)
  BY <1>1, <1>2, DoneGoes
<1>5. Head(io[p].jobs) = StartJob
  <2>1. Head(io[p].jobs) \in Jobs
    BY <1>1, <1>4
  <2> QED
    BY <1>1, <2>1, StatusParts DEF StartJob
<1>6. PICK n \in ServicesCreated(p, e) : io' = [io EXCEPT ![p] = n]
  BY <1>2 DEF StartAutonomousJob, Lifecycle
<1>7. UNCHANGED <<life, bar, cache, conn, chan>>
  BY DEF StartAutonomousJob, Lifecycle, monitorVars
<1>8. Starts(p)
  BY DEF StartInv
<1>9. /\ Has(io[p].jobs, StartJob) /\ ~Has(e.jobs, StartJob) /\ p \notin Coordinated
      /\ life[p] = "started"
  <2>1. Has(io[p].jobs, StartJob) /\ ~Has(e.jobs, StartJob)
    BY <1>1, <1>4, <1>5, <1>8, TailHas DEF Starts
  <2> QED
    BY <2>1, <1>8 DEF Starts
<1>10. ~HasBegun(p) /\ OneStart(t, io[p])
  BY <1>3, <1>8, <1>9 DEF Starts, NotAgain
<1>11. OneStart(t, e) /\ ~Begun(t, e)
  BY <1>3, <1>4, <1>10 DEF Goes, Moves, Kept, BeginsNothing, HasBegun
<1>12. Moves(t, e, n) /\ RunsNothing(p, e, n)
  BY <1>4, <1>11, ServicesCreatedMoves DEF Begun
<1>13. Moves(t, io[p], n)
  BY <1>4, <1>12, MovesTransitive DEF Goes
<1>14. /\ OneStart(bar'[p].then, n) /\ (IsPast(p) => Past(bar'[p].then, n))
       /\ Ordered(e, n)
  BY <1>3, <1>7, <1>10, <1>12, <1>13 DEF Moves, Kept, IsPast
<1>15. io'[p] = n /\ \A x \in Participants : x # p => io'[x] = io[x]
  BY <1>6, IoOf
<1>16. ~Has(n.jobs, StartJob) /\ Once(n.jobs, StartJob)
  BY <1>8, <1>9, <1>12, <1>13 DEF Moves, NoneStarted, NoNew, Starts
<1>17. NotAgain(p)'
  BY <1>7, <1>9, <1>15, <1>16 DEF NotAgain
<1>18. Queues(p, e.jobs)
  BY <1>1, <1>2, <1>7, DoneConveys
<1> QED
  BY <1>4, <1>7, <1>9, <1>14, <1>15, <1>16, <1>17, <1>18, StartStep

-----------------------------------------------------------------------------
(* The calls of user threads. *)

LEMMA PublishStart ==
  ASSUME StartInv, TypeOK, NEW p \in Participants, PublishLifecycle(p)
  PROVE  StartInv'
<1>1. PICK e \in LifecycleRecord : e = io[p]
  BY DEF TypeOK
<1>2. PICK t : t = bar[p].then
  OBVIOUS
<1>3. PICK i : i = Defer(e, Job("Initialize"))
  OBVIOUS
<1>4. Goes(p, t, e, i) /\ i \in LifecycleRecord
  BY <1>3, JobGoes DEF PlainNames
<1>5. /\ \A x \in Participants : life[x] = "started" => life'[x] = "started"
      /\ life[p] = "starting" /\ life'[p] = "started"
      /\ UNCHANGED <<bar, cache, conn, chan>>
  BY DEF PublishLifecycle, TypeOK, monitorVars
<1>6. CASE p \in Coordinated
  <2>1. io' = [io EXCEPT ![p] = i]
    BY <1>1, <1>3, <1>6 DEF PublishLifecycle
  <2> QED
    BY <1>1, <1>2, <1>4, <1>5, <2>1, GoesOnly
<1>7. CASE p \notin Coordinated
  <2>1. PICK n : n = Defer(i, StartJob)
    OBVIOUS
  <2>2. io' = [io EXCEPT ![p] = n]
    BY <1>1, <1>3, <1>7, <2>1 DEF PublishLifecycle, StartJob
  <2>3. io'[p] = n /\ \A x \in Participants : x # p => io'[x] = io[x]
    BY <2>2, IoOf
  <2>4. /\ StartJob \in Jobs /\ StartJob \notin Starters /\ StartJob \notin ReadyStatuses
        /\ StartJob # Created /\ StartJob # StartBarrier /\ StartJob # ShutdownBarrier
    BY StatusNames
  <2>5. /\ n.state = i.state /\ n.waits = i.waits
        /\ \A x : Has(n.jobs, x) <=> Has(i.jobs, x) \/ x = StartJob
        /\ \A x : Once(i.jobs, x) /\ (x # StartJob \/ ~Has(i.jobs, x)) => Once(n.jobs, x)
        /\ \A X : HasAny(n.jobs, X) <=> HasAny(i.jobs, X) \/ StartJob \in X
        /\ Leads(i.jobs) => Leads(n.jobs)
    BY <1>4, <2>1, <2>4, DeferFacts
  <2>6. Starts(p)
    BY DEF StartInv
  <2>7. ~Has(e.jobs, StartJob) /\ Once(e.jobs, StartJob) /\ ~HasBegun(p)
    BY <1>1, <1>5, <1>7, <2>6 DEF Starts, NotAgain
  <2>8. ~Has(i.jobs, StartJob) /\ Once(i.jobs, StartJob)
    BY <1>4, <2>7 DEF Goes, Moves, NoneStarted, NoNew
  <2>9. Once(n.jobs, StartJob)
    BY <2>5, <2>8
  <2>10. Ordered(i, n)
    BY <2>4, <2>5 DEF Ordered
  <2>11. Ordered(e, n)
    BY <1>4, <2>10 DEF Goes, Moves, Ordered
  <2>12. Kept(t, i, n) /\ (Begun(t, n) => Begun(t, i))
    <3>1. /\ Has(n.jobs, StartBarrier) <=> Has(i.jobs, StartBarrier)
          /\ Has(n.jobs, ShutdownBarrier) <=> Has(i.jobs, ShutdownBarrier)
          /\ HasAny(n.jobs, ReadyStatuses) <=> HasAny(i.jobs, ReadyStatuses)
          /\ Once(i.jobs, StartBarrier) => Once(n.jobs, StartBarrier)
      BY <2>4, <2>5
    <3> QED
      BY <2>5, <3>1 DEF Kept, OneStart, Past, Over, Begun, Asks, Stops
  <2>13. OneStart(t, n) /\ (Past(t, e) => Past(t, n)) /\ ~Begun(t, n)
    BY <1>1, <1>2, <1>4, <2>6, <2>7, <2>12
       DEF Goes, Moves, Kept, BeginsNothing, Starts, HasBegun
  <2>14. OneStart(bar'[p].then, n) /\ (IsPast(p) => Past(bar'[p].then, n))
         /\ ~Begun(bar'[p].then, n)
    BY <1>1, <1>2, <1>5, <2>13 DEF IsPast
  <2>15. Queues(p, e.jobs)
    BY <1>1, <1>5, ConveysSelf DEF Queues, StartInv, Starts
  <2>16. e.state = State(p)
    BY <1>1 DEF State
  <2> QED
    BY <1>5, <1>7, <2>3, <2>9, <2>11, <2>14, <2>15, <2>16, StartStep
<1> QED
  BY <1>6, <1>7

LEMMA UserStart ==
  ASSUME StartInv, Inv, NEW p \in Participants,
         \/ StartLifecycle(p) \/ PublishLifecycle(p) \/ CreateController(p)
         \/ Request(p) \/ RequestAbort(p) \/ CompleteCommunicationReadyHandlerAsync(p)
  PROVE  StartInv'
<1>1. PICK e \in LifecycleRecord : e = io[p]
  BY DEF Inv, TypeOK
<1>2. PICK t : t = bar[p].then
  OBVIOUS
<1>3. TypeOK
  BY DEF Inv
<1>4. CASE StartLifecycle(p)
  <2>1. /\ UNCHANGED <<bar, cache, conn, chan>>
        /\ \A x \in Participants : life[x] = "started" => life'[x] = "started"
    BY <1>3, <1>4 DEF StartLifecycle, monitorVars, TypeOK
  <2>2. CASE UNCHANGED io
    <3>1. io' = [io EXCEPT ![p] = e]
      BY <1>1, <2>2, SameIo
    <3> QED
      BY <1>1, <1>2, <1>3, <2>1, <3>1, SelfGoes, GoesOnly
  <2>3. CASE io' = [io EXCEPT ![p] = Defer(@, Job("Abort"))]
    <3>1. PICK n : n = Defer(e, Job("Abort"))
      OBVIOUS
    <3>2. Goes(p, t, e, n)
      BY <3>1, JobGoes DEF PlainNames
    <3>3. io' = [io EXCEPT ![p] = n]
      BY <1>1, <2>3, <3>1
    <3> QED
      BY <1>1, <1>2, <1>3, <2>1, <3>2, <3>3, GoesOnly
  <2> QED
    BY <1>4, <2>2, <2>3 DEF StartLifecycle
<1>5. CASE PublishLifecycle(p)
  BY <1>3, <1>5, PublishStart
<1>6. CASE CreateController(p)
  <2>1. UNCHANGED <<life, bar, cache, conn, chan>>
    BY <1>6 DEF CreateController, UserCall, monitorVars
  <2>2. PICK i : i = [e EXCEPT !.pending = TRUE]
    OBVIOUS
  <2>3. i \in LifecycleRecord /\ i.jobs = e.jobs /\ i.state = e.state /\ i.waits = e.waits
    BY <2>2 DEF LifecycleRecord
  <2>4. PICK n : n = Defer(i, Job("Register"))
    OBVIOUS
  <2>5. Goes(p, t, e, i) /\ Goes(p, t, i, n)
    BY <2>3, <2>4, FieldGoes, JobGoes DEF PlainNames
  <2>6. io' = [io EXCEPT ![p] = n]
    BY <1>1, <1>6, <2>2, <2>4 DEF CreateController
  <2> QED
    BY <1>1, <1>2, <1>3, <2>1, <2>5, <2>6, GoesTransitive, GoesOnly
<1>7. CASE Request(p)
  <2>1. UNCHANGED <<life, bar, cache, conn, chan>>
    BY <1>7 DEF Request, UserCall, monitorVars
  <2>2. PICK call \in {"Pause", "Continue", "Stop", "Error"} :
          io' = [io EXCEPT ![p] = Defer(@, Job(call))]
    BY <1>7 DEF Request
  <2>3. PICK n : n = Defer(e, Job(call))
    OBVIOUS
  <2>4. Goes(p, t, e, n)
    BY <2>3, JobGoes DEF PlainNames
  <2>5. io' = [io EXCEPT ![p] = n]
    BY <1>1, <2>2, <2>3
  <2> QED
    BY <1>1, <1>2, <1>3, <2>1, <2>4, <2>5, GoesOnly
<1>8. CASE RequestAbort(p)
  <2>1. /\ UNCHANGED <<bar, cache, conn, chan>>
        /\ \A x \in Participants : life[x] = "started" => life'[x] = "started"
    BY <1>3, <1>8 DEF RequestAbort, UserCall, monitorVars, TypeOK
  <2>2. PICK i : i = Defer(e, Job("Abort"))
    OBVIOUS
  <2>3. Goes(p, t, e, i) /\ i \in LifecycleRecord
    BY <2>2, JobGoes DEF PlainNames
  <2>4. CASE life[p] \in {"idle", "aborted"}
    <3>1. PICK n : n = Defer(e, Job("Command"))
      OBVIOUS
    <3>2. Goes(p, t, e, n)
      BY <3>1, JobGoes DEF PlainNames
    <3>3. io' = [io EXCEPT ![p] = n]
      BY <1>1, <1>8, <2>4, <3>1 DEF RequestAbort
    <3> QED
      BY <1>1, <1>2, <1>3, <2>1, <3>2, <3>3, GoesOnly
  <2>5. CASE life[p] \notin {"idle", "aborted"}
    <3>1. PICK n : n = Defer(i, Job("Command"))
      OBVIOUS
    <3>2. Goes(p, t, i, n)
      BY <2>3, <3>1, JobGoes DEF PlainNames
    <3>3. io' = [io EXCEPT ![p] = n]
      BY <1>1, <1>8, <2>2, <2>5, <3>1 DEF RequestAbort
    <3> QED
      BY <1>1, <1>2, <1>3, <2>1, <2>3, <3>2, <3>3, GoesTransitive, GoesOnly
  <2> QED
    BY <2>4, <2>5
<1>9. CASE CompleteCommunicationReadyHandlerAsync(p)
  <2>1. UNCHANGED <<life, bar, cache, conn, chan>>
    BY <1>9 DEF CompleteCommunicationReadyHandlerAsync, monitorVars
  <2>2. PICK i : i = [e EXCEPT !.ready = "completed"]
    OBVIOUS
  <2>3. i \in LifecycleRecord /\ i.jobs = e.jobs /\ i.state = e.state /\ i.waits = e.waits
    BY <2>2 DEF LifecycleRecord
  <2>4. PICK n : n = Defer(i, Job("CompleteReady"))
    OBVIOUS
  <2>5. Goes(p, t, e, i) /\ Goes(p, t, i, n)
    BY <2>3, <2>4, FieldGoes, JobGoes DEF PlainNames
  <2>6. io' = [io EXCEPT ![p] = n]
    BY <1>1, <1>9, <2>2, <2>4 DEF CompleteCommunicationReadyHandlerAsync
  <2> QED
    BY <1>1, <1>2, <1>3, <2>1, <2>5, <2>6, GoesTransitive, GoesOnly
<1> QED
  BY <1>4, <1>5, <1>6, <1>7, <1>8, <1>9

-----------------------------------------------------------------------------
(* Messages that are no statuses. *)

(* p sends m and has the jobs js left. *)
LEMMA SentQueues ==
  ASSUME StartInv, TypeOK, NEW p \in Participants, NEW qs, NEW m \in Messages, m \notin Starters,
         chan' = Send(chan, p, qs, m), UNCHANGED <<cache, conn>>, NEW js,
         \A ch, c : Conveys(io[p].jobs, ch, c, js, ch, c)
  PROVE  Queues(p, js)
<1>1. Sent(chan, chan', p, qs, m)
  BY SendStep DEF TypeOK
<1>2. \A x, y \in Participants : chan[x][y] \in Seq(Messages)
  BY DEF TypeOK
<1>3. ASSUME NEW x \in Participants, NEW y \in Participants
      PROVE  /\ Conveys(io[x].jobs, chan[x][y], cache[y][x],
                        IF x = p THEN js ELSE io[x].jobs, chan'[x][y], cache'[y][x])
             /\ HasAny(chan'[x][y], Starters) => HasAny(chan[x][y], Starters)
  <2>1. PICK ch \in Seq(Messages) : ch = chan[x][y]
    BY <1>2
  <2>2. PICK c : c = cache[y][x] /\ c = cache'[y][x]
    OBVIOUS
  <2>3. PICK js1 : js1 = IF x = p THEN js ELSE io[x].jobs
    OBVIOUS
  <2>4. chan'[x][y] \in {ch, Append(ch, m)}
    BY <1>1, <2>1 DEF Sent
  <2>5. Conveys(io[x].jobs, ch, c, js1, ch, c)
    BY <2>3, ConveysSelf
  <2>6. Conveys(js1, ch, c, js1, Append(ch, m), c)
    BY ConveysSent
  <2>7. Conveys(io[x].jobs, ch, c, js1, Append(ch, m), c)
    BY <2>5, <2>6, ConveysTransitive
  <2>8. HasAny(Append(ch, m), Starters) => HasAny(ch, Starters)
    BY AppendAny
  <2> QED
    BY <2>1, <2>2, <2>3, <2>4, <2>5, <2>7, <2>8
<1>4. \A x \in Participants : x \notin conn'[x] /\ ~HasAny(chan[x][x], Starters)
  BY DEF StartInv, Starts
<1> QED
  BY <1>3, <1>4 DEF Queues

(* p takes a message of q; what it knows of others may change. *)
LEMMA TakenQueues ==
  ASSUME StartInv, TypeOK, NEW p \in Participants, NEW q \in Participants, chan[q][p] # <<>>,
         chan' = Taken(p, q), \A y \in Participants : conn'[y] \subseteq conn[y],
         \A x, y \in Participants :
           \/ cache'[y][x] = cache[y][x] \/ StatusOf(cache'[y][x]) \notin Starters
           \/ x = q /\ y = p /\ Head(chan[q][p]) = StatusOf(cache'[y][x])
  PROVE  Queues(p, io[p].jobs)
<1>1. \A x, y \in Participants :
        chan'[x][y] = IF x = q /\ y = p THEN Tail(chan[x][y]) ELSE chan[x][y]
  BY TakenStep
<1>2. \A x, y \in Participants : chan[x][y] \in Seq(Messages)
  BY DEF TypeOK
<1>3. ASSUME NEW x \in Participants, NEW y \in Participants
      PROVE  /\ Conveys(io[x].jobs, chan[x][y], cache[y][x],
                        io[x].jobs, chan'[x][y], cache'[y][x])
             /\ HasAny(chan'[x][y], Starters) => HasAny(chan[x][y], Starters)
  <2>1. PICK ch \in Seq(Messages) : ch = chan[x][y]
    BY <1>2
  <2>2. PICK c : c = cache[y][x]
    OBVIOUS
  <2>3. PICK c1 : c1 = cache'[y][x]
    OBVIOUS
  <2>4. PICK js : js = io[x].jobs
    OBVIOUS
  <2>5. CASE x = q /\ y = p
    <3>1. ch # <<>> /\ chan'[x][y] = Tail(ch)
      BY <1>1, <2>1, <2>5
    <3>2. CASE c1 = c \/ Head(ch) = StatusOf(c1)
      BY <2>1, <2>2, <2>3, <2>4, <3>1, <3>2, ConveysTaken, TailAny
    <3>3. CASE StatusOf(c1) \notin Starters
      <4>1. Conveys(js, ch, c, js, Tail(ch), c)
        BY <3>1, ConveysTaken
      <4>2. Conveys(js, Tail(ch), c, js, Tail(ch), c1)
        BY <3>3, ConveysForgotten
      <4>3. HasAny(Tail(ch), Starters) => HasAny(ch, Starters)
        BY <3>1, TailAny
      <4> QED
        BY <2>1, <2>2, <2>3, <2>4, <3>1, <4>1, <4>2, <4>3, ConveysTransitive
    <3> QED
      BY <2>1, <2>2, <2>3, <2>5, <3>2, <3>3
  <2>6. CASE ~(x = q /\ y = p)
    <3>1. chan'[x][y] = ch
      BY <1>1, <2>1, <2>6
    <3>2. c1 = c \/ StatusOf(c1) \notin Starters
      BY <2>2, <2>3, <2>6
    <3> QED
      BY <2>1, <2>2, <2>3, <2>4, <3>1, <3>2, ConveysSelf, ConveysForgotten
  <2> QED
    BY <2>5, <2>6
<1>4. \A x \in Participants : x \notin conn'[x] /\ ~HasAny(chan[x][x], Starters)
  BY DEF StartInv, Starts
<1> QED
  BY <1>3, <1>4 DEF Queues

(* A job is done whose message is no status. *)
LEMMA SendStart ==
  ASSUME StartInv, TypeOK, NEW p \in Participants, io[p].jobs # <<>>, NEW qs,
         NEW name \in MessageNames, chan' = Send(chan, p, qs, Job(name)),
         NEW n, Goes(p, bar[p].then, Done(p), n), io' = [io EXCEPT ![p] = n],
         UNCHANGED <<life, bar, cache, conn>>
  PROVE  StartInv'
<1>1. PICK e : e = Done(p)
  OBVIOUS
<1>2. PICK t : t = bar[p].then
  OBVIOUS
<1>3. /\ Goes(p, t, io[p], e) /\ e.state = State(p) /\ e.jobs = Tail(io[p].jobs)
      /\ io[p].jobs \in Seq(Jobs)
  BY <1>1, DoneGoes
<1>4. \A ch, c : Conveys(io[p].jobs, ch, c, e.jobs, ch, c)
  BY <1>3, ConveysDone
<1>5. PICK m \in Messages : m = Job(name) /\ m \notin Starters
  BY PlainJobs
<1>6. Queues(p, e.jobs)
  BY <1>4, <1>5, SentQueues
<1>7. \A x \in Participants : bar'[x].then = bar[x].then
  OBVIOUS
<1>8. Goes(p, t, e, n)
  BY <1>1, <1>2
<1> QED
  BY <1>2, <1>3, <1>6, <1>7, <1>8, GoesStep

LEMMA SendJobsStart ==
  ASSUME StartInv, TypeOK, NEW p \in Participants,
         CommandJob(p) \/ CallJob(p) \/ ReplyJob(p) \/ RegisterJob(p)
  PROVE  StartInv'
<1>1. io[p].jobs # <<>>
  BY DEF CommandJob, CallJob, ReplyJob, RegisterJob, NextJob
<1>2. PICK e : e = Done(p)
  OBVIOUS
<1>3. PICK t : t = bar[p].then
  OBVIOUS
<1>4. e \in LifecycleRecord
  BY <1>1, <1>2, DoneGoes
<1>5. CASE CommandJob(p) \/ CallJob(p) \/ ReplyJob(p)
  <2>1. \E qs : \E name \in MessageNames : SendJob(p, qs, Job(name))
    BY <1>5 DEF CommandJob, CallJob, ReplyJob, MessageNames
  <2>2. PICK qs : \E name \in MessageNames : SendJob(p, qs, Job(name))
    BY <2>1
  <2>3. PICK name \in MessageNames : SendJob(p, qs, Job(name))
    BY <2>2
  <2>4. /\ chan' = Send(chan, p, qs, Job(name)) /\ io' = [io EXCEPT ![p] = e]
        /\ UNCHANGED <<life, bar, cache, conn>>
    BY <1>2, <2>3 DEF SendJob, monitorVars
  <2> QED
    BY <1>1, <1>2, <2>4, SelfGoes, SendStart
<1>6. CASE RegisterJob(p)
  <2>1. /\ chan' = Send(chan, p, conn[p], Job("Subscribe"))
        /\ UNCHANGED <<life, bar, cache, conn>>
    BY <1>6 DEF RegisterJob, monitorVars
  <2>2. PICK n \in IF conn[p] = {} THEN AsyncSubscriptionsCompleted(p, e) ELSE {e} :
          io' = [io EXCEPT ![p] = n]
    BY <1>2, <1>6 DEF RegisterJob
  <2>3. Goes(p, t, e, n)
    BY <1>4, <2>2, AsyncSubscriptionsGoes, SelfGoes
  <2>4. "Subscribe" \in MessageNames
    BY DEF MessageNames
  <2> QED
    BY <1>1, <1>2, <1>3, <2>1, <2>2, <2>3, <2>4, SendStart
<1> QED
  BY <1>5, <1>6

(* A message is taken that is no status. *)
LEMMA TakeStart ==
  ASSUME StartInv, TypeOK, NEW p \in Participants, NEW q \in Participants, chan[q][p] # <<>>,
         chan' = Taken(p, q), NEW n, Goes(p, bar[p].then, io[p], n), io' = [io EXCEPT ![p] = n],
         \A x \in Participants : life[x] = "started" => life'[x] = "started",
         UNCHANGED <<bar, cache, conn>>
  PROVE  StartInv'
<1>1. PICK e : e = io[p]
  OBVIOUS
<1>2. Queues(p, e.jobs)
  BY <1>1, TakenQueues
<1>3. e.state = State(p) /\ Goes(p, bar[p].then, io[p], e) /\ Goes(p, bar[p].then, e, n)
  BY <1>1, SelfGoes DEF State
<1>4. \A x \in Participants : bar'[x].then = bar[x].then
  OBVIOUS
<1> QED
  BY <1>2, <1>3, <1>4, GoesStep

LEMMA MessagesStart ==
  ASSUME StartInv, Inv, NEW p \in Participants, NEW q \in Participants,
         \/ ReceiveSystemCommand(p, q) \/ ReceiveCall(p, q)
         \/ ReceiveSubscriptionAcknowledge(p, q)
  PROVE  StartInv'
<1>1. TypeOK
  BY DEF Inv
<1>2. PICK e \in LifecycleRecord : e = io[p]
  BY <1>1 DEF TypeOK
<1>3. PICK t : t = bar[p].then
  OBVIOUS
<1>4. chan[q][p] # <<>> /\ chan' = Taken(p, q)
  BY DEF ReceiveSystemCommand, ReceiveCall, ReceiveSubscriptionAcknowledge, Receives
<1>5. UNCHANGED <<bar, cache, conn>>
  BY DEF ReceiveSystemCommand, ReceiveCall, ReceiveSubscriptionAcknowledge, monitorVars
<1>6. ASSUME NEW n, Goes(p, t, e, n), io' = [io EXCEPT ![p] = n],
             \A x \in Participants : life[x] = "started" => life'[x] = "started"
      PROVE  StartInv'
  BY <1>1, <1>2, <1>3, <1>4, <1>5, <1>6, TakeStart
<1>7. CASE ReceiveSystemCommand(p, q)
  <2>1. CASE life[p] \in {"idle", "aborted"}
    <3>1. /\ io' = [io EXCEPT ![p] = e]
          /\ \A x \in Participants : life[x] = "started" => life'[x] = "started"
      BY <1>1, <1>2, <1>7, <2>1, SameIo DEF ReceiveSystemCommand, TypeOK
    <3> QED
      BY <1>6, <3>1, SelfGoes
  <2>2. CASE life[p] \notin {"idle", "aborted"}
    <3>1. PICK n : n = Defer(e, Job("Abort"))
      OBVIOUS
    <3>2. Goes(p, t, e, n)
      BY <3>1, JobGoes DEF PlainNames
    <3>3. io' = [io EXCEPT ![p] = n] /\ UNCHANGED life
      BY <1>2, <1>7, <2>2, <3>1 DEF ReceiveSystemCommand
    <3> QED
      BY <1>6, <3>2, <3>3
  <2> QED
    BY <2>1, <2>2
<1>8. CASE ReceiveCall(p, q)
  <2>1. PICK n : n = Defer(e, ReplyTo(q))
    OBVIOUS
  <2>2. Goes(p, t, e, n)
    BY <2>1, PlainJobs, PlainGoes
  <2>3. io' = [io EXCEPT ![p] = n] /\ UNCHANGED life
    BY <1>2, <1>8, <2>1 DEF ReceiveCall, ReplyTo
  <2> QED
    BY <1>6, <2>2, <2>3
<1>9. CASE ReceiveSubscriptionAcknowledge(p, q)
  <2>1. UNCHANGED life
    BY <1>9 DEF ReceiveSubscriptionAcknowledge
  <2>2. CASE UNCHANGED io
    <3>1. io' = [io EXCEPT ![p] = e]
      BY <1>2, <2>2, SameIo
    <3> QED
      BY <1>6, <2>1, <3>1, SelfGoes
  <2>3. CASE \E n \in AsyncSubscriptionsCompleted(p, io[p]) : io' = [io EXCEPT ![p] = n]
    <3>1. PICK n \in AsyncSubscriptionsCompleted(p, e) : io' = [io EXCEPT ![p] = n]
      BY <1>2, <2>3
    <3> QED
      BY <1>6, <2>1, <3>1, AsyncSubscriptionsGoes
  <2> QED
    BY <1>9, <2>2, <2>3 DEF ReceiveSubscriptionAcknowledge
<1> QED
  BY <1>7, <1>8, <1>9

LEMMA AnnouncementStart ==
  ASSUME StartInv, Inv, NEW p \in Participants, NEW q \in Participants,
         ReceiveSubscriptionAnnouncement(p, q)
  PROVE  StartInv'
<1>1. TypeOK
  BY DEF Inv
<1>2. PICK e \in LifecycleRecord : e = io[p]
  BY <1>1 DEF TypeOK
<1>3. chan[q][p] # <<>>
  BY DEF ReceiveSubscriptionAnnouncement, Receives
<1>4. PICK m \in Messages : m = Job("Acknowledge") /\ m \notin Starters
  BY PlainJobs DEF MessageNames
<1>5. PICK ch : ch = Taken(p, q)
  OBVIOUS
<1>6. /\ ch \in [Participants -> [Participants -> Seq(Messages)]]
      /\ \A x, y \in Participants :
           ch[x][y] = IF x = q /\ y = p THEN Tail(chan[x][y]) ELSE chan[x][y]
      /\ chan[q][p] \in Seq(Messages)
  BY <1>1, <1>3, <1>5, TakenStep
<1>7. Sent(ch, chan', p, {q}, m)
  BY <1>4, <1>5, <1>6, SendStep DEF ReceiveSubscriptionAnnouncement
<1>8. UNCHANGED <<life, io, bar, cache, conn>>
  BY DEF ReceiveSubscriptionAnnouncement, monitorVars
<1>9. ASSUME NEW x \in Participants, NEW y \in Participants
      PROVE  /\ Conveys(io[x].jobs, chan[x][y], cache[y][x],
                        io[x].jobs, chan'[x][y], cache'[y][x])
             /\ HasAny(chan'[x][y], Starters) => HasAny(chan[x][y], Starters)
  <2>1. PICK c : c = cache[y][x] /\ c = cache'[y][x]
    BY <1>8
  <2>2. PICK js : js = io[x].jobs
    OBVIOUS
  <2>3. PICK old : old = chan[x][y]
    OBVIOUS
  <2>4. PICK mid \in Seq(Messages) : mid = ch[x][y]
    BY <1>6
  <2>5. /\ Conveys(js, old, c, js, mid, c)
        /\ HasAny(mid, Starters) => HasAny(old, Starters)
    <3>1. CASE x = q /\ y = p
      BY <1>3, <1>6, <2>3, <2>4, <3>1, ConveysTaken, TailAny
    <3>2. CASE ~(x = q /\ y = p)
      BY <1>6, <2>3, <2>4, <3>2, ConveysSelf
    <3> QED
      BY <3>1, <3>2
  <2>6. chan'[x][y] \in {mid, Append(mid, m)}
    BY <1>7, <2>4 DEF Sent
  <2>7. /\ Conveys(js, mid, c, js, Append(mid, m), c)
        /\ HasAny(Append(mid, m), Starters) => HasAny(mid, Starters)
    BY <1>4, ConveysSent, AppendAny
  <2>8. Conveys(js, old, c, js, Append(mid, m), c)
    BY <2>5, <2>7, ConveysTransitive
  <2> QED
    BY <2>1, <2>2, <2>3, <2>5, <2>6, <2>7, <2>8
<1>10. Queues(p, e.jobs)
  BY <1>2, <1>8, <1>9 DEF Queues, StartInv, Starts
<1>11. io' = [io EXCEPT ![p] = e]
  BY <1>2, <1>8, SameIo
<1>12. e.state = State(p) /\ Goes(p, bar[p].then, io[p], e) /\ Goes(p, bar[p].then, e, e)
  BY <1>2, SelfGoes DEF State
<1> QED
  BY <1>1, <1>8, <1>10, <1>11, <1>12, GoesStep

-----------------------------------------------------------------------------
(* Statuses. *)

(* The status s of q has reached the monitor of p, whose IO thread is e by *)
(* then.  The system state is ServicesCreated only when the first status   *)
(* of everybody has arrived, so it is not so again; it is ReadyToRun only  *)
(* when everybody is past its start.                                       *)
LEMMA NewsStart ==
  ASSUME StartInv, TypeOK, NEW p \in Participants, NEW q \in Participants,
         NEW s \in ParticipantStates, NEW e \in LifecycleRecord, e.state = State(p),
         Goes(p, bar[p].then, io[p], e), ReceiveStatus(p, q, s, e), Queues(p, e.jobs),
         s = "ServicesCreated" => ~HasArrived(State(q), io[q].jobs, chan[q][p]),
         UNCHANGED <<life, bar>>
  PROVE  StartInv'
<1>1. PICK y : y = SystemStateAfter(cache[p], sys[p], q, s)
  OBVIOUS
<1>2. PICK t : t = bar[p].then
  OBVIOUS
<1>3. PICK n \in IF y = sys[p] THEN {e} ELSE NewSystemState(p, e, y) : io' = [io EXCEPT ![p] = n]
  BY <1>1 DEF ReceiveStatus
<1>4. io'[p] = n /\ \A x \in Participants : x # p => io'[x] = io[x]
  BY <1>3, IoOf
<1>5. \A x \in Participants : bar'[x].then = bar[x].then /\ life'[x] = life[x]
  OBVIOUS
<1>6. Starts(p) /\ AllRequired
  BY DEF StartInv
<1>7. ASSUME Goes(p, t, e, n) PROVE StartInv'
  BY <1>2, <1>3, <1>5, <1>7, GoesStep
<1>8. CASE \/ y = sys[p] \/ y \notin {"ServicesCreated", "ReadyToRun"}
           \/ p \notin Coordinated \/ life[p] # "started"
  <2>1. CASE n = e
    BY <1>7, <2>1, SelfGoes
  <2>2. CASE n # e
    <3>1. n \in NewSystemState(p, e, y) /\ y # sys[p] /\ p \in Coordinated /\ life[p] = "started"
      BY <1>3, <2>2 DEF NewSystemState
    <3>2. y \notin {"ServicesCreated", "ReadyToRun"}
      BY <1>8, <3>1
    <3> QED
      BY <1>7, <3>1, <3>2, NewSystemStateGoes
  <2> QED
    BY <2>1, <2>2
<1>9. ASSUME y # sys[p]
      PROVE  /\ y = "ServicesCreated" =>
                  /\ s = "ServicesCreated"
                  /\ \A r \in Participants : cache'[p][r] \in StartingStates \cup {"Running"}
             /\ y = "ReadyToRun" =>
                  \A r \in Participants : cache'[p][r] \in {"ReadyToRun", "Running"}
  <2>1. PICK c : c = UpdateParticipantStatus(cache[p], q, s)
    OBVIOUS
  <2>2. y = ComputeSystemState(c, Required, sys[p], s)
    BY <1>1, <1>9, <2>1 DEF SystemStateAfter
  <2>3. cache'[p] = c
    BY <2>1 DEF ReceiveStatus, TypeOK
  <2>4. Required = Participants
    BY <1>6 DEF AllRequired
  <2> QED
    BY <1>9, <2>2, <2>3, <2>4, SystemStateNews
<1>10. CASE y # sys[p] /\ y = "ServicesCreated" /\ p \in Coordinated /\ life[p] = "started"
  <2>1. n \in ServicesCreated(p, e)
    BY <1>3, <1>10 DEF NewSystemState
  <2>2. ~HasBegun(p)
    <3>1. ~HasArrived(State(q), io[q].jobs, chan[q][p])
      BY <1>9, <1>10
    <3> QED
      BY <1>6, <1>10, <3>1 DEF Starts, NotAgain
  <2>3. ~Begun(t, e)
    BY <1>2, <2>2 DEF Goes, BeginsNothing, HasBegun
  <2>4. Moves(t, e, n) /\ RunsNothing(p, e, n)
    BY <2>1, <2>3, ServicesCreatedMoves DEF Begun
  <2>5. ASSUME NEW r \in Participants PROVE HasArrived(io'[r].state, io'[r].jobs, chan'[r][p])
    <3>1. InOrder(io'[r].state, io'[r].jobs, chan'[r][p], cache'[p][r])
      <4>1. PICK js : js = IF r = p THEN e.jobs ELSE io[r].jobs
        OBVIOUS
      <4>2. Conveys(io[r].jobs, chan[r][p], cache[p][r], js, chan'[r][p], cache'[p][r])
        BY <4>1 DEF Queues
      <4>3. InOrder(State(r), js, chan'[r][p], cache'[p][r])
        BY <4>2 DEF Conveys, StartInv, Announces
      <4>4. CASE r = p
        BY <1>4, <2>4, <4>1, <4>3, <4>4, OrderedKeeps DEF Moves
      <4>5. CASE r # p
        BY <1>4, <4>1, <4>3, <4>5 DEF State
      <4> QED
        BY <4>4, <4>5
    <3>2. cache'[p][r] \in StartingStates \cup {"Running"}
      BY <1>9, <1>10
    <3>3. StatusOf(cache'[p][r]) \in Starters
      BY <3>2 DEF Starters
    <3> QED
      BY <3>1, <3>3 DEF InOrder, HasArrived
  <2>6. NotAgain(p)'
    BY <1>10, <2>5 DEF NotAgain, State
  <2>7. p \in Coordinated /\ n.state \in {"Running", "Paused"} => State(p) \in {"Running", "Paused"}
    BY <2>4 DEF RunsNothing
  <2> QED
    BY <1>2, <1>3, <1>5, <2>4, <2>6, <2>7, MovesStep
<1>11. CASE y # sys[p] /\ y = "ReadyToRun" /\ p \in Coordinated /\ life[p] = "started"
  <2>1. n \in ReadyToRun(p, e)
    BY <1>3, <1>11 DEF NewSystemState
  <2>2. Moves(t, e, n) /\ BeginsNothing(t, e, n)
    BY <2>1, ReadyToRunMoves
  <2>3. ASSUME NEW r \in Participants PROVE IsPast(r)
    <3>1. PICK js : js = IF r = p THEN e.jobs ELSE io[r].jobs
      OBVIOUS
    <3>2. Conveys(io[r].jobs, chan[r][p], cache[p][r], js, chan'[r][p], cache'[p][r])
      BY <3>1 DEF Queues
    <3>3. StatusOf(cache'[p][r]) \in ReadyStatuses
      BY <1>9, <1>11 DEF ReadyStatuses
    <3>4. \/ HasAny(io[r].jobs, ReadyStatuses) \/ HasAny(chan[r][p], ReadyStatuses)
          \/ StatusOf(cache[p][r]) \in ReadyStatuses
      BY <3>2, <3>3 DEF Conveys
    <3>5. Announces(r, p) /\ OneStart(bar[r].then, io[r])
      BY DEF StartInv, Starts
    <3> QED
      BY <3>4, <3>5 DEF Announces, OneStart, IsPast
  <2>4. Begun(t, n) => HasBegun(p)
    BY <1>2, <2>2 DEF Goes, BeginsNothing, HasBegun
  <2> QED
    BY <1>2, <1>3, <1>5, <2>2, <2>3, <2>4, MovesStep
<1> QED
  BY <1>8, <1>10, <1>11

LEMMA StatusJobStart ==
  ASSUME StartInv, TypeOK, NEW p \in Participants, StatusJob(p)
  PROVE  StartInv'
<1>1. io[p].jobs # <<>> /\ Head(io[p].jobs)[1] = "Status"
  BY DEF StatusJob, NextJob
<1>2. PICK e : e = Done(p)
  OBVIOUS
<1>3. /\ Goes(p, bar[p].then, io[p], e) /\ e \in LifecycleRecord /\ e.state = State(p)
      /\ e.jobs = Tail(io[p].jobs) /\ io[p].jobs \in Seq(Jobs)
  BY <1>1, <1>2, DoneGoes
<1>4. Head(io[p].jobs) \in Jobs
  BY <1>1, <1>3
<1>5. PICK s \in ParticipantStates : Head(io[p].jobs) = <<"Status", s>>
  BY <1>1, <1>4, StatusParts
<1>6. Head(io[p].jobs) = StatusOf(s) /\ Argument(p) = s
  BY <1>5 DEF StatusOf, Argument
<1>7. PICK m \in Messages : m = Head(io[p].jobs)
  BY <1>6, StatusNames
<1>8. /\ chan' = Send(chan, p, conn[p], m) /\ ReceiveStatus(p, p, s, e)
      /\ UNCHANGED <<life, bar, conn>>
  BY <1>2, <1>6, <1>7 DEF StatusJob
<1>9. Sent(chan, chan', p, conn[p], m)
  BY <1>8, SendStep DEF TypeOK
<1>10. /\ \A x, y \in Participants : x # p \/ y # p => cache'[y][x] = cache[y][x]
       /\ cache'[p][p] \in {cache[p][p], s}
  BY <1>8 DEF ReceiveStatus, UpdateParticipantStatus, TypeOK
<1>11. \A x \in Participants : x \notin conn[x] /\ ~HasAny(chan[x][x], Starters)
  BY DEF StartInv, Starts
<1>12. \A x \in Participants : chan'[x][x] = chan[x][x]
  BY <1>9, <1>11 DEF Sent
<1>13. \A x, y \in Participants : chan[x][y] \in Seq(Messages)
  BY DEF TypeOK
<1>14. ASSUME NEW y \in Participants
       PROVE  Conveys(io[p].jobs, chan[p][y], cache[y][p], e.jobs, chan'[p][y], cache'[y][p])
  <2>1. PICK js \in Seq(Jobs) : js = io[p].jobs
    BY <1>3
  <2>2. PICK ch \in Seq(Messages) : ch = chan[p][y]
    BY <1>13
  <2>3. PICK c : c = cache[y][p]
    OBVIOUS
  <2>4. js # <<>> /\ e.jobs = Tail(js) /\ Head(js) = m /\ Head(js) = StatusOf(s)
    BY <1>1, <1>3, <1>6, <1>7, <2>1
  <2>5. CASE y = p
    <3>1. chan'[p][y] = ch /\ ~HasAny(ch, Starters)
      BY <1>11, <1>12, <2>2, <2>5
    <3>2. PICK c1 \in {c, s} : c1 = cache'[y][p]
      BY <1>10, <2>3, <2>5
    <3> QED
      BY <2>1, <2>2, <2>3, <2>4, <3>1, <3>2, ConveysOwn
  <2>6. CASE y # p /\ y \in conn[p] \ gone
    <3>1. chan'[p][y] = Append(ch, m) /\ cache'[y][p] = c
      BY <1>9, <1>10, <2>2, <2>3, <2>6 DEF Sent
    <3> QED
      BY <2>1, <2>2, <2>3, <2>4, <3>1, ConveysJob
  <2>7. CASE y # p /\ y \notin conn[p] \ gone
    <3>1. chan'[p][y] = ch /\ cache'[y][p] = c
      BY <1>9, <1>10, <2>2, <2>3, <2>7 DEF Sent
    <3> QED
      BY <2>1, <2>2, <2>3, <2>4, <3>1, ConveysDone
  <2> QED
    BY <2>5, <2>6, <2>7
<1>15. ASSUME NEW x \in Participants, NEW y \in Participants, x # p
       PROVE  chan'[x][y] = chan[x][y] /\ cache'[y][x] = cache[y][x]
  BY <1>9, <1>10, <1>15 DEF Sent
<1>16. Queues(p, e.jobs)
  BY <1>8, <1>11, <1>12, <1>14, <1>15, ConveysSelf DEF Queues
<1>17. s = "ServicesCreated" => ~HasArrived(State(p), io[p].jobs, chan[p][p])
  <2>1. Has(io[p].jobs, StatusOf(s))
    BY <1>1, <1>3, <1>6, TailHas
  <2> QED
    BY <2>1 DEF HasArrived, Created
<1> QED
  BY <1>3, <1>8, <1>16, <1>17, NewsStart

LEMMA ReceiveStatusStart ==
  ASSUME StartInv, TypeOK, NEW p \in Participants, NEW q \in Participants,
         ReceiveParticipantStatus(p, q)
  PROVE  StartInv'
<1>1. chan[q][p] # <<>> /\ Head(chan[q][p])[1] = "Status"
  BY DEF ReceiveParticipantStatus, Receives
<1>2. chan[q][p] \in Seq(Messages)
  BY DEF TypeOK
<1>3. Head(chan[q][p]) \in Messages
  BY <1>1, <1>2
<1>4. PICK s \in ParticipantStates : Head(chan[q][p]) = <<"Status", s>>
  BY <1>1, <1>3, StatusParts
<1>5. Head(chan[q][p]) = StatusOf(s) /\ Head(chan[q][p])[2] = s
  BY <1>4 DEF StatusOf
<1>6. PICK e \in LifecycleRecord : e = io[p]
  BY DEF TypeOK
<1>7. /\ chan' = Taken(p, q) /\ ReceiveStatus(p, q, s, e) /\ UNCHANGED <<life, bar, conn>>
  BY <1>5, <1>6 DEF ReceiveParticipantStatus
<1>8. \A x, y \in Participants :
        \/ cache'[y][x] = cache[y][x]
        \/ x = q /\ y = p /\ cache'[y][x] = s
  BY <1>7 DEF ReceiveStatus, UpdateParticipantStatus, TypeOK
<1>9. Queues(p, e.jobs)
  BY <1>1, <1>5, <1>6, <1>7, <1>8, TakenQueues
<1>10. s = "ServicesCreated" => ~HasArrived(State(q), io[q].jobs, chan[q][p])
  <2>1. Has(chan[q][p], StatusOf(s))
    BY <1>1, <1>2, <1>5, TailHas
  <2> QED
    BY <2>1 DEF HasArrived, Created
<1>11. e.state = State(p) /\ Goes(p, bar[p].then, io[p], e)
  BY <1>6, SelfGoes DEF State
<1> QED
  BY <1>7, <1>9, <1>10, <1>11, NewsStart

-----------------------------------------------------------------------------
(* The barrier. *)

(* The action of a later barrier. *)
LEMMA LaterCompletes ==
  ASSUME NEW p, NEW e \in LifecycleRecord, NEW a \in {"Shutdown", "Final"},
         NEW n \in Complete(p, e, a)
  PROVE  Goes(p, "none", e, n)
<1>1. CASE a = "Shutdown"
  BY <1>1, ShutdownGoes DEF Complete
<1>2. CASE a = "Final"
  <2>1. n = SetFinalStatePromise(e)
    BY <1>2 DEF Complete
  <2>2. n.jobs = e.jobs /\ n.state = e.state /\ n.waits = e.waits
    BY <2>1 DEF SetFinalStatePromise, LifecycleRecord
  <2> QED
    BY <2>2, FieldGoes
<1> QED
  BY <1>1, <1>2

(* A barrier that is not the first one is over. *)
LEMMA LaterBarrier ==
  ASSUME NEW e, NEW t, t # "Start", OneStart(t, e)
  PROVE  /\ OneStart("none", e)
         /\ Past(t, e) <=> Past("none", e)
         /\ Begun(t, e) <=> Begun("none", e)
BY DEF OneStart, Past, Over, Begun, Asks, Stops

(* An active first barrier. *)
LEMMA StartBarrierActive ==
  ASSUME NEW e, OneStart("Start", e)
  PROVE  CanStart(e) /\ ~Past("Start", e)
BY DEF OneStart, CanStart, Past, Over, Asks, Stops, Communicating, Going

(* The job of the first barrier is taken. *)
LEMMA StartBarrierTaken ==
  ASSUME NEW e, NEW n, OneStart("none", e), Has(e.jobs, StartBarrier),
         n.state = e.state, n.waits = e.waits, ~Has(n.jobs, StartBarrier),
         \A x : Has(n.jobs, x) => Has(e.jobs, x),
         \A X : HasAny(n.jobs, X) => HasAny(e.jobs, X),
         Once(n.jobs, StartBarrier)
  PROVE  CanStart(n) /\ OneStart("Start", n) /\ ~Past("none", e)
BY DEF OneStart, CanStart, Past, Over, Asks, Stops, Communicating, Going

(* The barrier of p completes in a state e of its IO thread, and n follows. *)
LEMMA CompletedStart ==
  ASSUME StartInv, TypeOK, NEW p \in Participants, NEW e \in LifecycleRecord, NEW a \in Actions,
         NEW d \in Complete(p, e, a), NEW n, Goes(p, "none", d, n),
         e.state = State(p), Goes(p, bar[p].then, io[p], e),
         a = "Start" => CanStart(e) /\ HasBegun(p) /\ ~IsPast(p),
         a # "Start" => bar[p].then # "Start",
         io' = [io EXCEPT ![p] = n], bar'[p].then = "none",
         \A x \in Participants : x # p => bar'[x].then = bar[x].then,
         Queues(p, e.jobs), UNCHANGED life
  PROVE  StartInv'
<1>1. io'[p] = n /\ \A x \in Participants : x # p => io'[x] = io[x]
  BY IoOf
<1>2. Starts(p)
  BY DEF StartInv
<1>3. OneStart(bar[p].then, e) /\ NoneStarted(io[p], e) /\ RunsNothing(p, io[p], e)
  BY <1>2 DEF Goes, Moves, Kept, Starts
<1>4. /\ Ordered(e, n) /\ NoneStarted(e, n) /\ RunsNothing(p, e, n) /\ OneStart("none", n)
      /\ IsPast(p) => Past("none", n)
      /\ Begun("none", n) => HasBegun(p)
  <2>1. CASE a = "Start"
    <3>1. /\ Ordered(e, d) /\ NoneStarted(e, d) /\ RunsNothing(p, e, d) /\ OneStart("none", d)
      BY <2>1, StartCompletes
    <3>2. Ordered(d, n) /\ Kept("none", d, n) /\ NoneStarted(d, n) /\ RunsNothing(p, d, n)
      BY DEF Goes, Moves
    <3>3. Ordered(e, n)
      BY <3>1, <3>2 DEF Ordered
    <3>4. NoneStarted(e, n) /\ RunsNothing(p, e, n) /\ OneStart("none", n)
      BY <3>1, <3>2 DEF NoneStarted, NoNew, RunsNothing, Kept
    <3> QED
      BY <2>1, <3>3, <3>4
  <2>2. CASE a # "Start"
    <3>1. Goes(p, "none", e, d)
      BY <2>2, LaterCompletes DEF Actions
    <3>2. Goes(p, "none", e, n)
      BY <3>1, GoesTransitive
    <3>3. /\ OneStart("none", e) /\ (Past(bar[p].then, e) <=> Past("none", e))
          /\ Begun(bar[p].then, e) <=> Begun("none", e)
      BY <1>3, <2>2, LaterBarrier
    <3>4. (IsPast(p) => Past(bar[p].then, e)) /\ (Begun(bar[p].then, e) => HasBegun(p))
      BY <1>2 DEF Goes, Moves, Kept, BeginsNothing, Starts, IsPast, HasBegun
    <3>5. /\ OneStart("none", n) /\ (Past("none", e) => Past("none", n))
          /\ Begun("none", n) => Begun("none", e)
      BY <3>2, <3>3 DEF Goes, Moves, Kept, BeginsNothing
    <3> QED
      BY <3>2, <3>3, <3>4, <3>5 DEF Goes, Moves
  <2> QED
    BY <2>1, <2>2
<1>5. Once(n.jobs, StartJob) /\ (Has(n.jobs, StartJob) => Has(io[p].jobs, StartJob))
  BY <1>2, <1>3, <1>4 DEF NoneStarted, NoNew, Starts
<1>6. p \in Coordinated /\ n.state \in {"Running", "Paused"} => State(p) \in {"Running", "Paused"}
  BY <1>4 DEF RunsNothing
<1> QED
  BY <1>1, <1>4, <1>5, <1>6, StartStep

(* A reply of q, or its end. *)
LEMMA ReturnStart ==
  ASSUME StartInv, Inv, NEW p \in Participants, NEW q \in Participants, chan[q][p] # <<>>,
         chan' = Taken(p, q), NEW e \in ReceiveCallReturn(p, bar[p], q), NEW n,
         \A t : Goes(p, t, e, n), io' = [io EXCEPT ![p] = n],
         bar' = [bar EXCEPT ![p] = BarrierWithout(bar[p], q)],
         \A y \in Participants : conn'[y] \subseteq conn[y],
         \A x, y \in Participants :
           cache'[y][x] = cache[y][x] \/ StatusOf(cache'[y][x]) \notin Starters,
         UNCHANGED life
  PROVE  StartInv'
<1>1. TypeOK /\ (bar[p] = NoBarrier \/ bar[p].then \in Actions)
  BY DEF Inv, BarrierTypes
<1>2. PICK i \in LifecycleRecord : i = io[p]
  BY <1>1 DEF TypeOK
<1>3. Queues(p, i.jobs)
  BY <1>1, <1>2, TakenQueues
<1>4. i.state = State(p) /\ Goes(p, bar[p].then, io[p], i)
  BY <1>2, SelfGoes DEF State
<1>5. PICK b : b = bar[p]
  OBVIOUS
<1>6. /\ bar'[p] = BarrierWithout(b, q)
      /\ \A x \in Participants : x # p => bar'[x].then = bar[x].then
      /\ b \in [expect : SUBSET Participants, then : Actions \cup {"none"}]
  BY <1>1, <1>5 DEF TypeOK
<1>7. CASE b # NoBarrier /\ BarrierWithout(b, q) = NoBarrier
  <2>1. PICK a \in Actions : a = b.then
    BY <1>1, <1>5, <1>7
  <2>2. e \in Complete(p, i, a)
    BY <1>2, <1>5, <1>7, <2>1 DEF ReceiveCallReturn
  <2>3. bar'[p].then = "none"
    BY <1>6, <1>7 DEF NoBarrier
  <2>4. a = "Start" => CanStart(i) /\ HasBegun(p) /\ ~IsPast(p)
    <3>1. OneStart(a, i)
      BY <1>2, <1>5, <2>1 DEF StartInv, Starts
    <3>2. a = "Start" => CanStart(i) /\ ~Past("Start", i)
      BY <3>1, StartBarrierActive
    <3> QED
      BY <3>2, <1>2, <1>5, <2>1 DEF HasBegun, Begun, Asks, IsPast
  <2>5. Goes(p, "none", e, n)
    OBVIOUS
  <2>6. a # "Start" => bar[p].then # "Start"
    BY <1>5, <2>1
  <2> QED
    BY <1>1, <1>3, <1>4, <1>6, <2>2, <2>3, <2>4, <2>5, <2>6, CompletedStart
<1>8. CASE ~(b # NoBarrier /\ BarrierWithout(b, q) = NoBarrier)
  <2>1. e = i
    BY <1>2, <1>5, <1>8 DEF ReceiveCallReturn
  <2>2. bar'[p].then = b.then
    <3>1. CASE b = NoBarrier
      BY <1>6, <3>1 DEF BarrierWithout, NoBarrier
    <3>2. CASE b # NoBarrier
      <4>1. bar'[p] = [b EXCEPT !.expect = @ \ {q}]
        BY <1>6, <1>8, <3>2 DEF BarrierWithout
      <4> QED
        BY <1>6, <4>1
    <3> QED
      BY <3>1, <3>2
  <2>3. Goes(p, bar[p].then, i, n)
    BY <2>1
  <2>4. \A x \in Participants : bar'[x].then = bar[x].then
    BY <1>5, <1>6, <2>2
  <2> QED
    BY <1>1, <1>3, <1>4, <2>3, <2>4, GoesStep
<1> QED
  BY <1>7, <1>8

LEMMA ReceiveReplyStart ==
  ASSUME StartInv, Inv, NEW p \in Participants, NEW q \in Participants, ReceiveReply(p, q)
  PROVE  StartInv'
<1>1. chan[q][p] # <<>> /\ chan' = Taken(p, q)
  BY DEF ReceiveReply, Receives
<1>2. /\ bar' = [bar EXCEPT ![p] = BarrierWithout(bar[p], q)]
      /\ UNCHANGED <<life, cache, conn>>
  BY DEF ReceiveReply, monitorVars
<1>3. PICK e \in ReceiveCallReturn(p, bar[p], q) : io' = [io EXCEPT ![p] = e]
  BY DEF ReceiveReply
<1>4. \A t : Goes(p, t, e, e)
  BY SelfGoes
<1> QED
  BY <1>1, <1>2, <1>3, <1>4, ReturnStart

(* The monitor forgets q, so that the system state is neither              *)
(* ServicesCreated nor ReadyToRun if it is another one.                    *)
LEMMA WithoutNews ==
  ASSUME AllRequired, NEW c \in [Participants -> ParticipantStates \cup {NoStatus}], NEW old,
         NEW q \in Participants, NEW y, y = SystemStateWithout(c, old, q), y # old
  PROVE  y \notin {"ServicesCreated", "ReadyToRun"}
<1>1. PICK r : r = RemoveParticipant(c, q)
  OBVIOUS
<1>2. PICK s : s = IF r[First] = NoStatus THEN "Invalid" ELSE r[First]
  OBVIOUS
<1>3. y = ComputeSystemState(r, Required, old, s)
  BY <1>1, <1>2 DEF SystemStateWithout
<1>4. r[q] = NoStatus /\ q \in Required
  BY <1>1 DEF RemoveParticipant, AllRequired
<1>5. NoStatus \notin StartingStates \cup {"Running"} /\ NoStatus \notin {"ReadyToRun", "Running"}
  BY DEF NoStatus, StartingStates
<1> QED
  BY <1>3, <1>4, <1>5, SystemStateNews

LEMMA PeerShutdownStart ==
  ASSUME StartInv, Inv, NEW p \in Participants, NEW q \in Participants, OnPeerShutdown(p, q)
  PROVE  StartInv'
<1>1. TypeOK /\ AllRequired
  BY DEF Inv, StartInv
<1>2. PICK i \in LifecycleRecord : i = io[p]
  BY <1>1 DEF TypeOK
<1>3. chan[q][p] # <<>> /\ chan' = Taken(p, q) /\ UNCHANGED life
  BY DEF OnPeerShutdown, Receives
<1>4. CASE io[p].final # NoStatus
  <2>1. UNCHANGED <<io, bar, cache, conn>>
    BY <1>4 DEF OnPeerShutdown, monitorVars
  <2>2. io' = [io EXCEPT ![p] = i]
    BY <1>2, <2>1, SameIo
  <2> QED
    BY <1>1, <1>2, <1>3, <2>1, <2>2, SelfGoes, TakeStart
<1>5. CASE io[p].final = NoStatus
  <2>1. PICK before : before = cache[p]
    OBVIOUS
  <2>2. PICK lost : lost = (before[q] \notin {NoStatus, "Shutdown"})
    OBVIOUS
  <2>3. PICK c1 : c1 = IF lost THEN UpdateParticipantStatus(before, q, "Error") ELSE before
    OBVIOUS
  <2>4. PICK y1 : y1 = IF lost THEN SystemStateAfter(before, sys[p], q, "Error") ELSE sys[p]
    OBVIOUS
  <2>5. PICK y2 : y2 = SystemStateWithout(c1, y1, q)
    OBVIOUS
  <2>6. /\ bar' = [bar EXCEPT ![p] = BarrierWithout(bar[p], q)]
        /\ cache' = [cache EXCEPT ![p] = RemoveParticipant(c1, q)]
        /\ conn' = [conn EXCEPT ![p] = @ \ {q}]
    BY <1>5, <2>1, <2>2, <2>3 DEF OnPeerShutdown
  <2>7. \E e \in ReceiveCallReturn(p, bar[p], q) :
          \E n \in IF y2 = y1 THEN {e} ELSE NewSystemState(p, e, y2) : io' = [io EXCEPT ![p] = n]
    BY <1>5, <2>1, <2>2, <2>3, <2>4, <2>5 DEF OnPeerShutdown
  <2>8. PICK e \in ReceiveCallReturn(p, bar[p], q) :
          \E n \in IF y2 = y1 THEN {e} ELSE NewSystemState(p, e, y2) : io' = [io EXCEPT ![p] = n]
    BY <2>7
  <2>9. PICK n \in IF y2 = y1 THEN {e} ELSE NewSystemState(p, e, y2) : io' = [io EXCEPT ![p] = n]
    BY <2>8
  <2>10. c1 \in [Participants -> ParticipantStates \cup {NoStatus}]
         /\ \A x \in Participants : x # q => c1[x] = cache[p][x]
    BY <1>1, <2>1, <2>3, StateNames DEF TypeOK, UpdateParticipantStatus
  <2>11. \A x, y \in Participants :
           cache'[y][x] = cache[y][x] \/ cache'[y][x] = NoStatus
    BY <1>1, <2>6, <2>10 DEF TypeOK, RemoveParticipant
  <2>12. StatusOf(NoStatus) \notin Starters
    <3>1. \A s \in StartingStates \cup {"Running"} : StatusOf(s)[2] = s
      BY DEF StatusOf
    <3>2. StatusOf(NoStatus)[2] = NoStatus /\ NoStatus \notin StartingStates \cup {"Running"}
      BY DEF StatusOf, NoStatus, StartingStates
    <3> QED
      BY <3>1, <3>2 DEF Starters
  <2>13. e \in LifecycleRecord
    <3>1. (e \in Complete(p, i, bar[p].then) /\ bar[p].then \in Actions) \/ e = i
      BY <1>2 DEF ReceiveCallReturn, Inv, BarrierTypes
    <3> QED
      BY <3>1, CompleteStep
  <2>14. \A t : Goes(p, t, e, n)
    <3>1. CASE y2 = y1
      BY <2>9, <3>1, SelfGoes
    <3>2. CASE y2 # y1
      <4>1. y2 \notin {"ServicesCreated", "ReadyToRun"}
        BY <1>1, <2>5, <2>10, <3>2, WithoutNews
      <4> QED
        BY <2>9, <2>13, <3>2, <4>1, NewSystemStateGoes
    <3> QED
      BY <3>1, <3>2
  <2>15. \A y \in Participants : conn'[y] \subseteq conn[y]
    BY <1>1, <2>6 DEF TypeOK
  <2>16. \A x, y \in Participants :
           cache'[y][x] = cache[y][x] \/ StatusOf(cache'[y][x]) \notin Starters
    BY <2>11, <2>12
  <2> QED
    BY <1>3, <2>6, <2>8, <2>9, <2>14, <2>15, <2>16, ReturnStart
<1> QED
  BY <1>4, <1>5

LEMMA BarrierJobStart ==
  ASSUME StartInv, Inv, NEW p \in Participants, BarrierJob(p)
  PROVE  StartInv'
<1>1. TypeOK
  BY DEF Inv
<1>2. io[p].jobs # <<>> /\ Head(io[p].jobs)[1] = "Barrier"
  BY DEF BarrierJob, NextJob
<1>3. PICK i \in LifecycleRecord : i = io[p]
  BY <1>1 DEF TypeOK
<1>4. PICK e : e = Done(p)
  OBVIOUS
<1>5. /\ \A t : Goes(p, t, i, e)
      /\ e \in LifecycleRecord /\ e.state = State(p) /\ e.waits = i.waits
      /\ e.jobs = Tail(i.jobs) /\ i.jobs \in Seq(Jobs) /\ i.jobs # <<>>
  BY <1>1, <1>2, <1>3, <1>4, DoneGoes
<1>6. Head(i.jobs) \in Jobs
  BY <1>5
<1>7. PICK a \in Actions : Head(i.jobs) = <<"Barrier", a>>
  BY <1>2, <1>3, <1>6, StatusParts
<1>8. Argument(p) = a
  BY <1>3, <1>7 DEF Argument
<1>9. UNCHANGED <<life, cache, conn, chan>>
  BY DEF BarrierJob, monitorVars
<1>10. Queues(p, e.jobs)
  BY <1>1, <1>2, <1>4, <1>9, DoneConveys
<1>11. Starts(p)
  BY DEF StartInv
<1>12. CASE bar[p] # NoBarrier
  <2>1. io' = [io EXCEPT ![p] = e] /\ UNCHANGED bar
    BY <1>4, <1>12 DEF BarrierJob
  <2>2. Goes(p, bar[p].then, io[p], e) /\ Goes(p, bar[p].then, e, e)
    BY <1>3, <1>5, SelfGoes
  <2> QED
    BY <1>1, <1>5, <1>9, <1>10, <2>1, <2>2, GoesStep
<1>13. CASE bar[p] = NoBarrier
  <2>1. bar[p].then = "none"
    BY <1>13 DEF NoBarrier
  <2>2. OneStart("none", i) /\ OneStart("none", e)
    BY <1>3, <1>5, <1>11, <2>1 DEF Starts, Goes, Moves, Kept
  <2>3. a = "Start" => /\ CanStart(e) /\ OneStart("Start", e)
                       /\ HasBegun(p) /\ ~IsPast(p)
    <3>1. SUFFICES ASSUME a = "Start"
                   PROVE  CanStart(e) /\ OneStart("Start", e) /\ HasBegun(p) /\ ~IsPast(p)
      OBVIOUS
    <3>2. Head(i.jobs) = StartBarrier
      BY <1>7, <3>1 DEF StartBarrier
    <3>3. Has(i.jobs, StartBarrier) /\ ~Has(e.jobs, StartBarrier) /\ Once(e.jobs, StartBarrier)
          /\ \A x : Has(e.jobs, x) => Has(i.jobs, x)
      BY <1>5, <2>2, <3>2, TailHas DEF OneStart
    <3>4. \A X : HasAny(e.jobs, X) => HasAny(i.jobs, X)
      BY <1>5, TailAny
    <3>5. CanStart(e) /\ OneStart("Start", e) /\ ~Past("none", i)
      BY <1>3, <1>5, <2>2, <3>3, <3>4, StartBarrierTaken DEF State
    <3> QED
      BY <1>3, <2>1, <3>3, <3>5 DEF HasBegun, Begun, Asks, IsPast
  <2>4. CASE conn[p] = {}
    <3>1. PICK n \in Complete(p, e, a) : io' = [io EXCEPT ![p] = n]
      BY <1>4, <1>8, <1>13, <2>4 DEF BarrierJob
    <3>2. UNCHANGED bar
      BY <1>13, <2>4 DEF BarrierJob
    <3>3. Goes(p, "none", n, n) /\ Goes(p, bar[p].then, io[p], e)
      BY <1>3, <1>5, SelfGoes
    <3>4. bar'[p].then = "none" /\ (a # "Start" => bar[p].then # "Start")
          /\ \A x \in Participants : x # p => bar'[x].then = bar[x].then
      BY <2>1, <3>2
    <3> QED
      BY <1>1, <1>5, <1>9, <1>10, <2>3, <3>1, <3>3, <3>4, CompletedStart
  <2>5. CASE conn[p] # {}
    <3>1. PICK n : n = Defer(e, Job("Call"))
      OBVIOUS
    <3>2. /\ bar' = [bar EXCEPT ![p] = [expect |-> conn[p], then |-> a]]
          /\ io' = [io EXCEPT ![p] = n]
      BY <1>4, <1>8, <1>13, <2>5, <3>1 DEF BarrierJob
    <3>3. bar'[p].then = a /\ \A x \in Participants : x # p => bar'[x].then = bar[x].then
      BY <1>1, <3>2 DEF TypeOK
    <3>4. io'[p] = n /\ \A x \in Participants : x # p => io'[x] = io[x]
      BY <1>1, <3>2, IoOf
    <3>5. Goes(p, a, e, n)
      BY <1>5, <3>1, JobGoes DEF PlainNames
    <3>6. /\ OneStart(a, e) /\ (IsPast(p) => Past(a, e)) /\ (Begun(a, e) => HasBegun(p))
      <4>1. CASE a = "Start"
        BY <2>3, <4>1
      <4>2. CASE a # "Start"
        <5>1. a = "Shutdown" => Over("none", e)
          <6>1. SUFFICES ASSUME a = "Shutdown" PROVE Over("none", e)
            OBVIOUS
          <6>2. Head(i.jobs) = ShutdownBarrier
            BY <1>7, <6>1 DEF ShutdownBarrier
          <6>3. Has(i.jobs, ShutdownBarrier)
            BY <1>5, <6>2, TailHas
          <6>4. Over("none", i)
            BY <2>2, <6>3 DEF OneStart, Stops
          <6> QED
            BY <1>5, <2>2, <6>4 DEF Goes, Moves, Kept
        <5>2. OneStart(a, e)
          BY <2>2, <4>2, <5>1 DEF OneStart, Past, Over, Asks, Stops
        <5>3. (Past("none", e) => Past(a, e)) /\ (Begun(a, e) => Begun("none", e))
          BY <4>2 DEF Past, Begun, Asks
        <5>4. (IsPast(p) => Past("none", e)) /\ (Begun("none", e) => HasBegun(p))
          BY <1>3, <1>5, <2>1, <2>2 DEF IsPast, HasBegun, Goes, Moves, Kept, BeginsNothing
        <5> QED
          BY <5>2, <5>3, <5>4
      <4> QED
        BY <4>1, <4>2
    <3>7. /\ OneStart(a, n) /\ (IsPast(p) => Past(a, n)) /\ (Begun(a, n) => HasBegun(p))
          /\ Ordered(e, n)
      BY <3>5, <3>6 DEF Goes, Moves, Kept, BeginsNothing
    <3>8. Once(n.jobs, StartJob) /\ (Has(n.jobs, StartJob) => Has(io[p].jobs, StartJob))
      BY <1>3, <1>5, <1>11, <3>5 DEF Goes, Moves, NoneStarted, NoNew, Starts
    <3>9. p \in Coordinated /\ n.state \in {"Running", "Paused"} =>
            State(p) \in {"Running", "Paused"}
      BY <1>5, <3>5 DEF Goes, RunsNothing
    <3> QED
      BY <1>5, <1>9, <1>10, <3>3, <3>4, <3>7, <3>8, <3>9, StartStep
  <2> QED
    BY <2>4, <2>5
<1> QED
  BY <1>12, <1>13

-----------------------------------------------------------------------------
(* The end of a participant. *)

LEMMA DroppedGoes ==
  ASSUME NEW p, NEW t, NEW e \in LifecycleRecord, NEW n, n = [e EXCEPT !.jobs = <<>>]
  PROVE  Goes(p, t, e, n)
<1>1. n.jobs = <<>> /\ n.state = e.state /\ n.waits = e.waits
  BY DEF LifecycleRecord
<1>2. \A x : ~Has(n.jobs, x) /\ Once(n.jobs, x)
  BY <1>1, EmptyHas
<1>3. (\A X : ~HasAny(n.jobs, X)) /\ Leads(n.jobs)
  BY <1>1, EmptyAny
<1>4. Ordered(e, n) /\ NoneStarted(e, n)
  BY <1>1, <1>2, <1>3 DEF Ordered, NoneStarted, NoNew
<1>5. Kept(t, e, n)
  <2>1. ~Has(n.jobs, StartBarrier) /\ ~Has(n.jobs, ShutdownBarrier)
        /\ ~HasAny(n.jobs, ReadyStatuses) /\ Once(n.jobs, StartBarrier)
    BY <1>2, <1>3
  <2> QED
    BY <1>1, <2>1 DEF Kept, OneStart, Past, Over, Asks, Stops
<1>6. BeginsNothing(t, e, n) /\ RunsNothing(p, e, n)
  BY <1>1, <1>2 DEF BeginsNothing, RunsNothing, Begun, Asks
<1> QED
  BY <1>4, <1>5, <1>6 DEF Goes, Moves

LEMMA DisconnectStart ==
  ASSUME StartInv, TypeOK, NEW p \in Participants, NEW lossy, Disconnect(p, lossy)
  PROVE  StartInv'
<1>1. PICK i \in LifecycleRecord : i = io[p]
  BY DEF TypeOK
<1>2. PICK n : n = [i EXCEPT !.jobs = <<>>]
  OBVIOUS
<1>3. io' = [io EXCEPT ![p] = n]
  BY <1>1, <1>2 DEF Disconnect
<1>4. \A t : Goes(p, t, i, n)
  BY <1>2, DroppedGoes
<1>5. n.state = State(p) /\ n.jobs = <<>>
  BY <1>1, <1>2 DEF State, LifecycleRecord
<1>6. UNCHANGED <<life, bar, cache, conn>>
  BY DEF Disconnect, monitorVars
<1>7. PICK m \in Messages : m = Job("End") /\ m \notin Starters
  BY PlainJobs DEF MessageNames
<1>8. \A x, y \in Participants :
        \/ chan'[x][y] = <<>>
        \/ x # p /\ chan'[x][y] = chan[x][y]
        \/ x = p /\ chan'[x][y] \in {Append(<<>>, m), Append(chan[x][y], m)}
  BY <1>7 DEF Disconnect
<1>9. ASSUME NEW x \in Participants, NEW y \in Participants
      PROVE  /\ Conveys(io[x].jobs, chan[x][y], cache[y][x],
                        IF x = p THEN <<>> ELSE io[x].jobs, chan'[x][y], cache'[y][x])
             /\ HasAny(chan'[x][y], Starters) => HasAny(chan[x][y], Starters)
  <2>1. PICK ch \in Seq(Messages) : ch = chan[x][y]
    BY DEF TypeOK
  <2>2. PICK c : c = cache[y][x] /\ c = cache'[y][x]
    BY <1>6
  <2>3. PICK js : js = io[x].jobs
    OBVIOUS
  <2>4. PICK js1 : js1 = IF x = p THEN <<>> ELSE js
    OBVIOUS
  <2>5. PICK empty : empty = <<>>
    OBVIOUS
  <2> empty \in Seq(Messages)
    BY <2>5
  <2>6. Conveys(js, ch, c, js1, ch, c)
    BY <2>4, ConveysDropped, ConveysSelf
  <2>7. Conveys(js1, ch, c, js1, empty, c) /\ ~HasAny(empty, Starters)
    BY <2>5, ConveysDropped, EmptyAny
  <2>8. Conveys(js, ch, c, js1, empty, c)
    BY <2>6, <2>7, ConveysTransitive
  <2>9. /\ Conveys(js1, ch, c, js1, Append(ch, m), c)
        /\ HasAny(Append(ch, m), Starters) => HasAny(ch, Starters)
    BY <1>7, ConveysSent, AppendAny
  <2>10. /\ Conveys(js1, empty, c, js1, Append(empty, m), c)
         /\ HasAny(Append(empty, m), Starters) => HasAny(empty, Starters)
    BY <1>7, ConveysSent, AppendAny
  <2>11. Conveys(js, ch, c, js1, Append(ch, m), c)
    BY <2>6, <2>9, ConveysTransitive
  <2>12. Conveys(js, ch, c, js1, Append(empty, m), c)
    BY <2>8, <2>10, ConveysTransitive
  <2>13. chan'[x][y] \in {empty, ch, Append(empty, m), Append(ch, m)}
    BY <1>8, <2>1, <2>5
  <2> QED
    BY <2>1, <2>2, <2>3, <2>4, <2>6, <2>7, <2>8, <2>9, <2>10, <2>11, <2>12, <2>13
<1>10. Queues(p, n.jobs)
  BY <1>5, <1>6, <1>9 DEF Queues, StartInv, Starts
<1>11. Goes(p, bar[p].then, io[p], n) /\ Goes(p, bar[p].then, n, n)
  BY <1>1, <1>4, SelfGoes
<1> QED
  BY <1>3, <1>5, <1>6, <1>10, <1>11, GoesStep

-----------------------------------------------------------------------------
LEMMA InitStart == AllRequired /\ Init => StartInv
<1>1. SUFFICES ASSUME AllRequired, Init PROVE StartInv
  OBVIOUS
<1>2. \A p \in Participants :
        /\ io[p].state = "Invalid" /\ io[p].waits = FALSE /\ io[p].jobs = <<>>
        /\ bar[p].then = "none" /\ p \notin conn[p]
  BY <1>1 DEF Init, NoBarrier
<1>3. \A p, q \in Participants : chan[p][q] = <<>> /\ cache[p][q] = NoStatus
  BY <1>1 DEF Init
<1>4. (\A x : ~Has(<<>>, x) /\ Once(<<>>, x)) /\ (\A X : ~HasAny(<<>>, X)) /\ Leads(<<>>)
  BY EmptyHas, EmptyAny
<1>5. StatusOf(NoStatus) \notin Starters /\ StatusOf(NoStatus) \notin ReadyStatuses
  <2>1. StatusOf(NoStatus) \notin Starters
    <3>1. \A s \in StartingStates \cup {"Running"} : StatusOf(s)[2] = s
      BY DEF StatusOf
    <3>2. StatusOf(NoStatus)[2] = NoStatus /\ NoStatus \notin StartingStates \cup {"Running"}
      BY DEF StatusOf, NoStatus, StartingStates
    <3> QED
      BY <3>1, <3>2 DEF Starters
  <2> QED
    BY <2>1, StatusNames
<1>6. ASSUME NEW p \in Participants PROVE Starts(p) /\ RunsLast(p)
  <2>1. OneStart(bar[p].then, io[p]) /\ ~HasBegun(p)
    <3>1. ~Has(io[p].jobs, StartBarrier) /\ Once(io[p].jobs, StartBarrier)
          /\ ~Has(io[p].jobs, ShutdownBarrier) /\ ~HasAny(io[p].jobs, ReadyStatuses)
      BY <1>2, <1>4
    <3> QED
      BY <1>2, <3>1 DEF OneStart, HasBegun, Begun, Asks, Stops, Communicating, Going
  <2>2. Once(io[p].jobs, StartJob) /\ ~Has(io[p].jobs, StartJob)
    BY <1>2, <1>4
  <2>3. ~HasAny(chan[p][p], Starters)
    BY <1>3, <1>4
  <2> QED
    BY <1>2, <2>1, <2>2, <2>3 DEF Starts, RunsLast, State
<1>7. ASSUME NEW x \in Participants, NEW y \in Participants PROVE Announces(x, y)
  <2>1. /\ io[x].jobs = <<>> /\ chan[x][y] = <<>> /\ cache[y][x] = NoStatus
    BY <1>2, <1>3
  <2> QED
    BY <2>1, <1>4, <1>5 DEF Announces, InOrder
<1> QED
  BY <1>1, <1>6, <1>7 DEF StartInv

LEMMA NextStart == Inv /\ StartInv /\ [Next]_vars => StartInv'
<1> SUFFICES ASSUME Inv, StartInv, [Next]_vars PROVE StartInv'
  OBVIOUS
<1>1. TypeOK
  BY DEF Inv
<1>2. CASE UNCHANGED vars
  <2>1. UNCHANGED <<life, io, bar, acks, cache, sys, conn, chan, gone, todo>>
    BY <1>2 DEF vars, monitorVars
  <2>2. \A p \in Participants : Starts(p)' /\ RunsLast(p)'
    BY <2>1 DEF StartInv, Starts, RunsLast, HasBegun, NotAgain, IsPast, State
  <2>3. \A x, y \in Participants : Announces(x, y)'
    BY <2>1 DEF StartInv, Announces, IsPast, State
  <2> QED
    BY <2>2, <2>3 DEF StartInv, AllRequired
<1>3. ASSUME NEW p \in Participants, IoThread(p) PROVE StartInv'
  BY <1>1, <1>3, LifecycleJobsStart, StartAutonomousStart, StatusJobStart, SendJobsStart,
     BarrierJobStart DEF IoThread
<1>4. ASSUME NEW p \in Participants, User(p) PROVE StartInv'
  <2>1. CASE Leave(p)
    BY <1>1, <2>1, DisconnectStart DEF Leave
  <2>2. CASE Crash(p)
    BY <1>1, <2>2, DisconnectStart DEF Crash
  <2> QED
    BY <1>4, <2>1, <2>2, UserStart DEF User
<1>5. ASSUME NEW p \in Participants, NEW q \in Participants, Receive(p, q) PROVE StartInv'
  BY <1>1, <1>5, ReceiveStatusStart, MessagesStart, AnnouncementStart, ReceiveReplyStart,
     PeerShutdownStart DEF Receive
<1> QED
  BY <1>2, <1>3, <1>4, <1>5 DEF Next

(* The start of a simulation in which every participant is required: the   *)
(* first barrier of each is asked for once, and completed before anything  *)
(* that follows it.                                                        *)
THEOREM StartInvHolds == AllRequired /\ Spec => []StartInv
<1>1. AllRequired /\ Init => StartInv
  BY InitStart
<1>2. Inv /\ StartInv /\ [Next]_vars => StartInv'
  BY NextStart
<1> QED
  BY <1>1, <1>2, InvHolds, PTL DEF Spec

(* A coordinated participant runs only when every required participant has *)
(* completed its CommunicationReadyHandler, and none of them falls back    *)
(* behind it: OperationMode::Coordinated, where all are required.          *)
THEOREM StartsTogether == AllRequired /\ Spec => []StartTogether
<1>1. StartInv => StartTogether
  <2>1. SUFFICES ASSUME StartInv, NEW p \in Coordinated, NEW r \in Required,
                        State(p) \in {"Running", "Paused"}
                 PROVE  State(r) \notin (StartingStates \ {"ReadyToRun"}) \cup {"Invalid"}
    BY DEF StartTogether
  <2>2. p \in Participants /\ r \in Participants
    BY OrchestrationAssumption
  <2>3. IsPast(r)
    BY <2>1, <2>2 DEF StartInv, RunsLast
  <2> QED
    BY <2>3 DEF IsPast, Past, Early, State, StartingStates
<1> QED
  BY <1>1, StartInvHolds, PTL

-----------------------------------------------------------------------------
(* The stop of a participant. *)

(* Queues: no status at all, none behind x, st is the last one. *)
Silent(s) == \A i \in 1..Len(s) : s[i][1] # "Status"
Closes(s, x) == \A i \in 1..Len(s) : s[i] = x => \A j \in (i + 1)..Len(s) : s[j][1] # "Status"
Ends(s, st) ==
  \A i \in 1..Len(s) :
    s[i][1] = "Status" /\ (\A j \in (i + 1)..Len(s) : s[j][1] # "Status") => s[i] = StatusOf(st)

(* The last status of a participant in state st that is on its way to      *)
(* another one, or has arrived, is st: js, ch and c as in InOrder.  A      *)
(* monitor does not forget that somebody has shut down.                    *)
UpToDate(st, js, ch, c) ==
  /\ Ends(js, st)
  /\ Silent(js) => Ends(ch, st)
  /\ Silent(js) /\ Silent(ch) => c \in {st, "Shutdown"} \/ st = "Invalid"

(* The barrier of StoppedState comes behind the status Stopped. *)
StopsBehind(st, t, js, ch) ==
  /\ st = "Stopped" => Closes(js, ShutdownBarrier)
  /\ st = "Stopped" /\ t = "Shutdown" =>
       /\ Silent(js) /\ Closes(ch, CallToken)
       /\ Has(js, CallToken) \/ Has(ch, CallToken) \/ Silent(ch)

Stopping(st, t, js, ch, c) == UpToDate(st, js, ch, c) /\ StopsBehind(st, t, js, ch)

StopInv ==
  /\ \A p \in Participants : Silent(chan[p][p])
  /\ \A p, q \in Participants \ gone :
       Stopping(State(p), bar[p].then, io[p].jobs, chan[p][q], cache[q][p])

LEMMA AppendSilent ==
  ASSUME NEW S, NEW s \in Seq(S), NEW y \in S
  PROVE  /\ Silent(Append(s, y)) <=> Silent(s) /\ y[1] # "Status"
         /\ \A st : y[1] # "Status" /\ Ends(s, st) => Ends(Append(s, y), st)
         /\ \A st : y = StatusOf(st) => Ends(Append(s, y), st)
         /\ \A x : y[1] # "Status" /\ Closes(s, x) => Closes(Append(s, y), x)
<1>1. /\ Len(Append(s, y)) = Len(s) + 1 /\ Len(s) \in Nat
      /\ \A i \in 1..Len(s) : Append(s, y)[i] = s[i]
      /\ Append(s, y)[Len(s) + 1] = y
  OBVIOUS
<1>2. Silent(Append(s, y)) <=> Silent(s) /\ y[1] # "Status"
  <2>1. ASSUME Silent(Append(s, y)) PROVE Silent(s) /\ y[1] # "Status"
    BY <1>1, <2>1 DEF Silent
  <2>2. ASSUME Silent(s), y[1] # "Status" PROVE Silent(Append(s, y))
    BY <1>1, <2>2 DEF Silent
  <2> QED
    BY <2>1, <2>2
<1>3. ASSUME NEW st, y[1] # "Status", Ends(s, st) PROVE Ends(Append(s, y), st)
  <2>1. SUFFICES ASSUME NEW i \in 1..(Len(s) + 1), Append(s, y)[i][1] = "Status",
                        \A j \in (i + 1)..(Len(s) + 1) : Append(s, y)[j][1] # "Status"
                 PROVE  Append(s, y)[i] = StatusOf(st)
    BY <1>1 DEF Ends
  <2>2. i \in 1..Len(s) /\ Append(s, y)[i] = s[i]
    BY <1>1, <1>3, <2>1
  <2>3. \A j \in (i + 1)..Len(s) : s[j][1] # "Status"
    BY <1>1, <2>1, <2>2
  <2> QED
    BY <1>3, <2>1, <2>2, <2>3 DEF Ends
<1>4. ASSUME NEW st, y = StatusOf(st) PROVE Ends(Append(s, y), st)
  <2>1. SUFFICES ASSUME NEW i \in 1..(Len(s) + 1), Append(s, y)[i][1] = "Status",
                        \A j \in (i + 1)..(Len(s) + 1) : Append(s, y)[j][1] # "Status"
                 PROVE  Append(s, y)[i] = StatusOf(st)
    BY <1>1 DEF Ends
  <2>2. y[1] = "Status"
    BY <1>4 DEF StatusOf
  <2>3. i = Len(s) + 1
    BY <1>1, <2>1, <2>2
  <2> QED
    BY <1>1, <1>4, <2>3
<1>5. ASSUME NEW x, y[1] # "Status", Closes(s, x) PROVE Closes(Append(s, y), x)
  <2>1. SUFFICES ASSUME NEW i \in 1..(Len(s) + 1), Append(s, y)[i] = x,
                        NEW j \in (i + 1)..(Len(s) + 1)
                 PROVE  Append(s, y)[j][1] # "Status"
    BY <1>1 DEF Closes
  <2>2. CASE j = Len(s) + 1
    BY <1>1, <1>5, <2>2
  <2>3. CASE j # Len(s) + 1
    <3>1. j \in (i + 1)..Len(s) /\ i \in 1..Len(s) /\ j \in 1..Len(s)
      BY <1>1, <2>1, <2>3
    <3> QED
      BY <1>1, <1>5, <2>1, <3>1 DEF Closes
  <2> QED
    BY <2>2, <2>3
<1> QED
  BY <1>2, <1>3, <1>4, <1>5

LEMMA TailSilent ==
  ASSUME NEW S, NEW s \in Seq(S), s # <<>>
  PROVE  /\ Silent(s) => Silent(Tail(s)) /\ Head(s)[1] # "Status"
         /\ Head(s)[1] # "Status" /\ Silent(Tail(s)) => Silent(s)
         /\ \A st : Ends(s, st) => Ends(Tail(s), st)
         /\ \A st : Ends(s, st) /\ Head(s)[1] = "Status" /\ Silent(Tail(s)) =>
               Head(s) = StatusOf(st)
         /\ \A x : Closes(s, x) => Closes(Tail(s), x)
         /\ \A x : Closes(s, x) /\ Head(s) = x => Silent(Tail(s))
<1>1. /\ Len(s) \in Nat /\ Len(s) > 0 /\ Len(Tail(s)) = Len(s) - 1 /\ Head(s) = s[1]
      /\ \A i \in 1..(Len(s) - 1) : Tail(s)[i] = s[i + 1]
  OBVIOUS
<1>2. ASSUME NEW i \in 1..Len(s) PROVE i = 1 \/ (i - 1 \in 1..(Len(s) - 1) /\ s[i] = Tail(s)[i - 1])
  <2>1. CASE i # 1
    <3>1. i - 1 \in 1..(Len(s) - 1) /\ (i - 1) + 1 = i
      BY <1>1, <2>1
    <3> QED
      BY <1>1, <3>1
  <2> QED
    BY <2>1
<1>3. ASSUME NEW i \in 1..(Len(s) - 1) PROVE i + 1 \in 1..Len(s) /\ Tail(s)[i] = s[i + 1]
  BY <1>1
<1>4. Silent(s) => Silent(Tail(s)) /\ Head(s)[1] # "Status"
  BY <1>1, <1>3 DEF Silent
<1>5. Head(s)[1] # "Status" /\ Silent(Tail(s)) => Silent(s)
  BY <1>1, <1>2 DEF Silent
<1>6. ASSUME NEW st, Ends(s, st) PROVE Ends(Tail(s), st)
  <2>1. SUFFICES ASSUME NEW i \in 1..(Len(s) - 1), Tail(s)[i][1] = "Status",
                        \A j \in (i + 1)..(Len(s) - 1) : Tail(s)[j][1] # "Status"
                 PROVE  Tail(s)[i] = StatusOf(st)
    BY <1>1 DEF Ends
  <2>2. ASSUME NEW j \in ((i + 1) + 1)..Len(s) PROVE s[j][1] # "Status"
    <3>1. j - 1 \in (i + 1)..(Len(s) - 1) /\ j \in 1..Len(s) /\ j # 1
      BY <1>1, <2>1
    <3> QED
      BY <1>2, <2>1, <3>1
  <2> QED
    BY <1>3, <1>6, <2>1, <2>2 DEF Ends
<1>7. ASSUME NEW st, Ends(s, st), Head(s)[1] = "Status", Silent(Tail(s))
      PROVE  Head(s) = StatusOf(st)
  <2>1. ASSUME NEW j \in (1 + 1)..Len(s) PROVE s[j][1] # "Status"
    <3>1. j \in 1..Len(s) /\ j # 1
      BY <1>1
    <3> QED
      BY <1>1, <1>2, <1>7, <3>1 DEF Silent
  <2> QED
    BY <1>1, <1>7, <2>1 DEF Ends
<1>8. ASSUME NEW x, Closes(s, x) PROVE Closes(Tail(s), x)
  <2>1. SUFFICES ASSUME NEW i \in 1..(Len(s) - 1), Tail(s)[i] = x, NEW j \in (i + 1)..(Len(s) - 1)
                 PROVE  Tail(s)[j][1] # "Status"
    BY <1>1 DEF Closes
  <2>2. j \in 1..(Len(s) - 1) /\ j + 1 \in ((i + 1) + 1)..Len(s)
    BY <1>1
  <2> QED
    BY <1>3, <1>8, <2>1, <2>2 DEF Closes
<1>9. ASSUME NEW x, Closes(s, x), Head(s) = x PROVE Silent(Tail(s))
  <2>1. SUFFICES ASSUME NEW i \in 1..(Len(s) - 1) PROVE Tail(s)[i][1] # "Status"
    BY <1>1 DEF Silent
  <2>2. i + 1 \in (1 + 1)..Len(s) /\ 1 \in 1..Len(s) /\ s[1] = x
    BY <1>1, <1>9
  <2> QED
    BY <1>3, <1>9, <2>2 DEF Closes
<1> QED
  BY <1>4, <1>5, <1>6, <1>7, <1>8, <1>9

LEMMA SilentFacts ==
  ASSUME NEW s
  PROVE  /\ Silent(s) => \A x : Closes(s, x)
         /\ Silent(s) => \A st : Ends(s, st)
         /\ \A x : ~Has(s, x) => Closes(s, x)
         /\ Silent(<<>>)
<1>1. ASSUME Silent(s), NEW st PROVE Ends(s, st)
  BY <1>1 DEF Silent, Ends
<1>2. ASSUME NEW x, ~Has(s, x) PROVE Closes(s, x)
  BY <1>2 DEF Has, Closes
<1>3. Silent(<<>>)
  BY DEF Silent
<1>4. ASSUME Silent(s), NEW x PROVE Closes(s, x)
  <2>1. SUFFICES ASSUME NEW i \in 1..Len(s), NEW j \in (i + 1)..Len(s) PROVE s[j][1] # "Status"
    BY DEF Closes
  <2>2. j \in 1..Len(s)
    OBVIOUS
  <2> QED
    BY <1>4, <2>2 DEF Silent
<1> QED
  BY <1>1, <1>2, <1>3, <1>4

(* What the state machine says: a participant that is up to date remains   *)
(* so; it shuts down by itself only.                                       *)
Tells(t, e, n) ==
  \A ch, c : Stopping(e.state, t, e.jobs, ch, c) => Stopping(n.state, t, n.jobs, ch, c)
Says(t, e, n) == Tells(t, e, n) /\ (n.state = "Shutdown" => e.state = "Shutdown")

LEMMA SelfSays ==
  ASSUME NEW t, NEW e
  PROVE  Says(t, e, e)
BY DEF Says, Tells

LEMMA TellsTransitive ==
  ASSUME NEW t, NEW d, NEW e, NEW n, Tells(t, d, e), Tells(t, e, n)
  PROVE  Tells(t, d, n)
BY DEF Tells

LEMMA SaysTransitive ==
  ASSUME NEW t, NEW d, NEW e, NEW n, Says(t, d, e), Says(t, e, n)
  PROVE  Says(t, d, n)
BY TellsTransitive DEF Says

LEMMA FieldSays ==
  ASSUME NEW t, NEW e, NEW n, n.jobs = e.jobs, n.state = e.state
  PROVE  Says(t, e, n)
BY DEF Says, Tells

(* A state that is entered is the last one reported. *)
LEMMA EnterTells ==
  ASSUME NEW t, NEW e \in LifecycleRecord, NEW s \in ParticipantStates,
         s = "Stopped" => t # "Shutdown" /\ ~Has(e.jobs, ShutdownBarrier)
  PROVE  /\ Tells(t, e, Enter(e, s)) /\ (s # "Shutdown" => Says(t, e, Enter(e, s)))
         /\ Enter(e, s) \in LifecycleRecord /\ Enter(e, s).state = s
<1>1. PICK n : n = Enter(e, s)
  OBVIOUS
<1>2. PICK job \in Jobs : job = StatusOf(s)
  BY StatusNames
<1>3. e.jobs \in Seq(Jobs)
  BY DEF LifecycleRecord
<1>4. n = [e EXCEPT !.state = s, !.jobs = Append(@, job)]
  BY <1>1, <1>2 DEF Enter, StatusOf
<1>5. n.state = s /\ n.jobs = Append(e.jobs, job)
  BY <1>4 DEF LifecycleRecord
<1>6. job[1] = "Status" /\ job # ShutdownBarrier
  BY <1>2 DEF StatusOf, ShutdownBarrier
<1>7. Ends(n.jobs, s) /\ ~Silent(n.jobs)
  BY <1>2, <1>3, <1>5, <1>6, AppendSilent
<1>8. s = "Stopped" => Closes(n.jobs, ShutdownBarrier)
  <2>1. ~Has(e.jobs, ShutdownBarrier) => ~Has(n.jobs, ShutdownBarrier)
    BY <1>3, <1>5, <1>6, AppendHas
  <2> QED
    BY <2>1, SilentFacts
<1>9. \A ch, c : Stopping(n.state, t, n.jobs, ch, c)
  BY <1>5, <1>7, <1>8 DEF Stopping, UpToDate, StopsBehind
<1>10. n \in LifecycleRecord
  BY <1>1, EnterStep
<1> QED
  BY <1>1, <1>5, <1>9, <1>10 DEF Says, Tells

LEMMA EnterSays ==
  ASSUME NEW t, NEW e \in LifecycleRecord,
         NEW s \in {"ServicesCreated", "CommunicationInitializing", "CommunicationInitialized",
                    "ReadyToRun", "Running", "Paused", "Stopping", "Error", "ShuttingDown",
                    "Aborting"}
  PROVE  Says(t, e, Enter(e, s)) /\ Enter(e, s) \in LifecycleRecord /\ Enter(e, s).state = s
<1>1. s \in ParticipantStates /\ s # "Stopped" /\ s # "Shutdown"
  BY StateNames
<1> QED
  BY <1>1, EnterTells

LEMMA DeferSays ==
  ASSUME NEW t, NEW e \in LifecycleRecord, NEW job \in Jobs, job[1] # "Status"
  PROVE  Says(t, e, Defer(e, job)) /\ Defer(e, job) \in LifecycleRecord
<1>1. PICK n : n = Defer(e, job)
  OBVIOUS
<1>2. e.jobs \in Seq(Jobs)
  BY DEF LifecycleRecord
<1>3. n = [e EXCEPT !.jobs = Append(@, job)]
  BY <1>1 DEF Defer
<1>4. n.state = e.state /\ n.jobs = Append(e.jobs, job)
  BY <1>3 DEF LifecycleRecord
<1>5. n \in LifecycleRecord
  BY <1>1, DeferFacts
<1>6. Has(e.jobs, CallToken) => Has(n.jobs, CallToken)
  BY <1>2, <1>4, AppendHas
<1>7. /\ Silent(n.jobs) <=> Silent(e.jobs)
      /\ \A st : Ends(e.jobs, st) => Ends(n.jobs, st)
      /\ \A x : Closes(e.jobs, x) => Closes(n.jobs, x)
  BY <1>2, <1>4, AppendSilent
<1>8. ASSUME NEW ch, NEW c, Stopping(e.state, t, e.jobs, ch, c)
      PROVE  Stopping(n.state, t, n.jobs, ch, c)
  BY <1>4, <1>6, <1>7, <1>8 DEF Stopping, UpToDate, StopsBehind
<1> QED
  BY <1>1, <1>4, <1>5, <1>8 DEF Says, Tells

(* The jobs that are no statuses. *)
LEMMA NoStatusJobs ==
  /\ \A a \in Actions : <<"Barrier", a>> \in Jobs /\ <<"Barrier", a>>[1] # "Status"
  /\ \A name \in PlainNames \cup {"StartAutonomous"} : Job(name) \in Jobs /\ Job(name)[1] # "Status"
  /\ \A p \in Participants : ReplyTo(p) \in Jobs /\ ReplyTo(p)[1] # "Status"
  /\ \A name \in MessageNames : Job(name) \in Messages /\ Job(name)[1] # "Status"
<1>1. \A a \in Actions : <<"Barrier", a>> \in Jobs /\ <<"Barrier", a>>[1] # "Status"
  BY JobTypes
<1>2. ASSUME NEW name \in PlainNames \cup {"StartAutonomous"}
      PROVE  Job(name) \in Jobs /\ Job(name)[1] # "Status"
  <2>1. Job(name) \in Jobs
    BY PlainJobs, JobTypes DEF PlainNames
  <2>2. Job(name)[1] # "Status"
    BY DEF Job, PlainNames
  <2> QED
    BY <2>1, <2>2
<1>3. \A p \in Participants : ReplyTo(p) \in Jobs /\ ReplyTo(p)[1] # "Status"
  BY JobTypes DEF ReplyTo
<1>4. \A name \in MessageNames : Job(name) \in Messages /\ Job(name)[1] # "Status"
  BY PlainJobs DEF Job, MessageNames
<1> QED
  BY <1>1, <1>2, <1>3, <1>4

LEMMA ToErrorSays ==
  ASSUME NEW t, NEW e \in LifecycleRecord
  PROVE  Says(t, e, ToError(e)) /\ ToError(e) \in LifecycleRecord
BY EnterSays, SelfSays DEF ToError

LEMMA InitializeSays ==
  ASSUME NEW t, NEW e \in LifecycleRecord
  PROVE  Says(t, e, Initialize(e))
BY EnterSays, ToErrorSays DEF Initialize

LEMMA ReadyToRunSays ==
  ASSUME NEW p, NEW t, NEW e \in LifecycleRecord, NEW n \in ReadyToRun(p, e)
  PROVE  Says(t, e, n) /\ n \in LifecycleRecord
<1>1. n \in {e, ToError(e), Enter(e, "Running"), Enter(e, "Error")}
  BY DEF ReadyToRun, IfFaulty
<1> QED
  BY <1>1, SelfSays, ToErrorSays, EnterSays

LEMMA CompleteReadySays ==
  ASSUME NEW p, NEW t, NEW e \in LifecycleRecord, NEW n \in CompleteCommunicationReadyHandler(p, e)
  PROVE  Says(t, e, n) /\ n \in LifecycleRecord
<1>1. PICK i : i = Enter(e, "ReadyToRun")
  OBVIOUS
<1>2. Says(t, e, i) /\ i \in LifecycleRecord
  BY <1>1, EnterSays
<1>3. n = ToError(e) \/ n = i \/ n \in ReadyToRun(p, i)
  BY <1>1 DEF CompleteCommunicationReadyHandler
<1>4. n \in ReadyToRun(p, i) => Says(t, i, n) /\ n \in LifecycleRecord
  BY <1>2, ReadyToRunSays
<1> QED
  BY <1>2, <1>3, <1>4, ToErrorSays, SaysTransitive

LEMMA TriggerReadySays ==
  ASSUME NEW p, NEW t, NEW e \in LifecycleRecord, NEW n \in TriggerCommunicationReadyHandler(p, e)
  PROVE  Says(t, e, n) /\ n \in LifecycleRecord
<1>1. CASE p \in AsyncReady
  <2>1. PICK i : i = [e EXCEPT !.ready = IF @ = "no" THEN "invoked" ELSE @]
    OBVIOUS
  <2>2. i \in LifecycleRecord /\ i.jobs = e.jobs /\ i.state = e.state
    BY <2>1 DEF LifecycleRecord
  <2>3. Says(t, e, i)
    BY <2>2, FieldSays
  <2>4. Says(t, i, Enter(i, "Error")) /\ Enter(i, "Error") \in LifecycleRecord
    BY <2>2, EnterSays
  <2>5. n = i \/ n = Enter(i, "Error")
    BY <1>1, <2>1 DEF TriggerCommunicationReadyHandler, IfFaulty
  <2> QED
    BY <2>2, <2>3, <2>4, <2>5, SaysTransitive
<1>2. CASE p \notin AsyncReady
  <2>1. n \in CompleteCommunicationReadyHandler(p, e) \/ n = Enter(e, "Error")
    BY <1>2 DEF TriggerCommunicationReadyHandler, IfFaulty
  <2> QED
    BY <2>1, CompleteReadySays, EnterSays
<1> QED
  BY <1>1, <1>2

LEMMA CommunicationInitializedSays ==
  ASSUME NEW p, NEW t, NEW e \in LifecycleRecord, NEW n \in CommunicationInitialized(p, e)
  PROVE  Says(t, e, n) /\ n \in LifecycleRecord
<1>1. n \in TriggerCommunicationReadyHandler(p, e) \/ n = e \/ n = ToError(e)
  BY DEF CommunicationInitialized
<1> QED
  BY <1>1, TriggerReadySays, ToErrorSays, SelfSays

LEMMA SubscriptionsSays ==
  ASSUME NEW p, NEW t, NEW e \in LifecycleRecord, NEW n \in SubscriptionsCompleted(p, e)
  PROVE  Says(t, e, n) /\ n \in LifecycleRecord
<1>1. PICK w : w = [e EXCEPT !.waits = FALSE]
  OBVIOUS
<1>2. w \in LifecycleRecord /\ w.jobs = e.jobs /\ w.state = e.state
  BY <1>1 DEF LifecycleRecord
<1>3. PICK i : i = Enter(w, "CommunicationInitialized")
  OBVIOUS
<1>4. Says(t, e, i) /\ i \in LifecycleRecord
  BY <1>2, <1>3, FieldSays, EnterSays, SaysTransitive
<1>5. n = i \/ n \in CommunicationInitialized(p, i)
  BY <1>1, <1>3 DEF SubscriptionsCompleted
<1> QED
  BY <1>4, <1>5, CommunicationInitializedSays, SaysTransitive

LEMMA AsyncSubscriptionsSays ==
  ASSUME NEW p, NEW t, NEW e \in LifecycleRecord, NEW n \in AsyncSubscriptionsCompleted(p, e)
  PROVE  Says(t, e, n) /\ n \in LifecycleRecord
<1>1. PICK i \in IF e.waits THEN SubscriptionsCompleted(p, e) ELSE {e} :
           n = [i EXCEPT !.pending = FALSE]
  BY DEF AsyncSubscriptionsCompleted
<1>2. Says(t, e, i) /\ i \in LifecycleRecord
  BY <1>1, SubscriptionsSays, SelfSays
<1>3. n \in LifecycleRecord /\ n.jobs = i.jobs /\ n.state = i.state
  BY <1>1, <1>2 DEF LifecycleRecord
<1> QED
  BY <1>2, <1>3, FieldSays, SaysTransitive

LEMMA CommunicationInitializingSays ==
  ASSUME NEW p, NEW t, NEW e \in LifecycleRecord, NEW n \in CommunicationInitializing(p, e)
  PROVE  Says(t, e, n) /\ n \in LifecycleRecord
<1>1. CASE e.pending
  <2>1. n = [e EXCEPT !.waits = TRUE]
    BY <1>1 DEF CommunicationInitializing
  <2>2. n \in LifecycleRecord /\ n.jobs = e.jobs /\ n.state = e.state
    BY <2>1 DEF LifecycleRecord
  <2> QED
    BY <2>2, FieldSays
<1>2. CASE ~e.pending
  BY <1>2, SubscriptionsSays DEF CommunicationInitializing
<1> QED
  BY <1>1, <1>2

LEMMA BarrierSays ==
  ASSUME NEW t, NEW e \in LifecycleRecord, NEW a \in Actions
  PROVE  Says(t, e, Defer(e, <<"Barrier", a>>)) /\ Defer(e, <<"Barrier", a>>) \in LifecycleRecord
<1>1. PICK job : job = <<"Barrier", a>>
  OBVIOUS
<1>2. job \in Jobs /\ job[1] # "Status"
  BY <1>1, NoStatusJobs
<1> QED
  BY <1>1, <1>2, DeferSays

LEMMA ServicesCreatedSays ==
  ASSUME NEW p, NEW t, NEW e \in LifecycleRecord, NEW n \in ServicesCreated(p, e)
  PROVE  Says(t, e, n) /\ n \in LifecycleRecord
<1>1. \/ n = Defer(e, <<"Barrier", "Start">>) \/ n \in CommunicationInitializing(p, e)
      \/ n = ToError(e)
  BY DEF ServicesCreated
<1>2. "Start" \in Actions
  BY DEF Actions
<1> QED
  BY <1>1, <1>2, BarrierSays, CommunicationInitializingSays, ToErrorSays

LEMMA ShutdownTells ==
  ASSUME NEW t, NEW e \in LifecycleRecord
  PROVE  Tells(t, e, ShutdownParticipant(e))
<1>1. "Final" \in Actions /\ "Shutdown" \in ParticipantStates
  BY StateNames DEF Actions
<1>2. CASE e.state \in {"Stopped", "Error"}
  <2>1. PICK d : d = Enter(e, "ShuttingDown")
    OBVIOUS
  <2>2. Tells(t, e, d) /\ d \in LifecycleRecord
    BY <2>1, EnterSays DEF Says
  <2>3. PICK i : i = Enter(d, "Shutdown")
    OBVIOUS
  <2>4. Tells(t, d, i) /\ i \in LifecycleRecord
    BY <1>1, <2>2, <2>3, EnterTells
  <2>5. ShutdownParticipant(e) = Defer(i, <<"Barrier", "Final">>)
    BY <1>2, <2>1, <2>3 DEF ShutdownParticipant
  <2>6. Tells(t, i, Defer(i, <<"Barrier", "Final">>))
    BY <1>1, <2>4, BarrierSays DEF Says
  <2> QED
    BY <2>2, <2>4, <2>5, <2>6, TellsTransitive
<1>3. CASE e.state = "Shutdown"
  BY <1>1, <1>3, BarrierSays DEF ShutdownParticipant, Says
<1>4. CASE e.state \notin {"Stopped", "Error", "Shutdown"}
  BY <1>4, ToErrorSays DEF ShutdownParticipant, Says
<1> QED
  BY <1>2, <1>3, <1>4

LEMMA AbortTells ==
  ASSUME NEW t, NEW e \in LifecycleRecord
  PROVE  Tells(t, e, AbortSimulation(e))
<1>1. "Final" \in Actions /\ "Shutdown" \in ParticipantStates
  BY StateNames DEF Actions
<1>2. PICK d : d = Enter(e, "Aborting")
  OBVIOUS
<1>3. Tells(t, e, d) /\ d \in LifecycleRecord
  BY <1>2, EnterSays DEF Says
<1>4. PICK i : i = Enter(d, "Shutdown")
  OBVIOUS
<1>5. Tells(t, d, i) /\ i \in LifecycleRecord
  BY <1>1, <1>3, <1>4, EnterTells
<1>6. AbortSimulation(e) = e \/ AbortSimulation(e) = Defer(i, <<"Barrier", "Final">>)
  BY <1>2, <1>4 DEF AbortSimulation
<1>7. Tells(t, i, Defer(i, <<"Barrier", "Final">>)) /\ Tells(t, e, e)
  BY <1>1, <1>5, BarrierSays, SelfSays DEF Says
<1> QED
  BY <1>3, <1>5, <1>6, <1>7, TellsTransitive

(* A participant that runs has not asked for the barrier of StoppedState. *)
LEMMA StopTells ==
  ASSUME NEW p, NEW t, NEW e \in LifecycleRecord, NEW n \in StopSimulation(p, e), OneStart(t, e)
  PROVE  Tells(t, e, n) /\ (e.state # "Error" => Says(t, e, n))
<1>1. "Shutdown" \in Actions /\ "Stopped" \in ParticipantStates /\ "Stopping" \in ParticipantStates
  BY StateNames DEF Actions
<1>2. CASE e.state \in {"Running", "Paused"}
  <2>1. PICK s : s = Enter(e, "Stopping")
    OBVIOUS
  <2>2. Says(t, e, s) /\ s \in LifecycleRecord
    BY <2>1, EnterSays
  <2>3. t # "Shutdown" /\ ~Has(e.jobs, ShutdownBarrier)
    BY <1>2 DEF OneStart, Stops, Over, Going
  <2>4. ~Has(s.jobs, ShutdownBarrier)
    BY <1>1, <2>1, <2>3, EnterFacts DEF NoNew
  <2>5. PICK i : i = Enter(s, "Stopped")
    OBVIOUS
  <2>6. Says(t, s, i) /\ i \in LifecycleRecord
    BY <1>1, <2>2, <2>3, <2>4, <2>5, EnterTells
  <2>7. Says(t, i, Defer(i, <<"Barrier", "Shutdown">>))
    BY <1>1, <2>6, BarrierSays
  <2>8. Says(t, s, Enter(s, "Error"))
    BY <2>2, EnterSays
  <2>9. n = Defer(i, <<"Barrier", "Shutdown">>) \/ n = Enter(s, "Error")
    BY <1>2, <2>1, <2>5 DEF StopSimulation, IfFaulty
  <2>10. Says(t, e, n)
    BY <2>2, <2>6, <2>7, <2>8, <2>9, SaysTransitive
  <2> QED
    BY <2>10 DEF Says
<1>3. CASE e.state \notin {"Running", "Paused", "Error"}
  <2>1. n = Defer(e, <<"Barrier", "Shutdown">>) \/ n = e
    BY <1>3 DEF StopSimulation
  <2>2. Says(t, e, n)
    BY <1>1, <2>1, BarrierSays, SelfSays
  <2> QED
    BY <2>2 DEF Says
<1>4. CASE e.state = "Error"
  BY <1>4, ShutdownTells DEF StopSimulation
<1> QED
  BY <1>2, <1>3, <1>4

LEMMA NewSystemStateSays ==
  ASSUME NEW p, NEW t, NEW e \in LifecycleRecord, NEW s, NEW n \in NewSystemState(p, e, s),
         OneStart(t, e)
  PROVE  Says(t, e, n)
<1>1. \/ n = e \/ n \in ServicesCreated(p, e) \/ n \in CommunicationInitialized(p, e)
      \/ n \in ReadyToRun(p, e)
      \/ e.state \in {"Running", "Paused"} /\ n \in StopSimulation(p, e)
  BY DEF NewSystemState
<1> QED
  BY <1>1, SelfSays, ServicesCreatedSays, CommunicationInitializedSays, ReadyToRunSays, StopTells

(* Only the barrier of StoppedState leads to the shutdown. *)
LEMMA CompleteTells ==
  ASSUME NEW p, NEW t, NEW e \in LifecycleRecord, NEW a \in Actions, NEW n \in Complete(p, e, a)
  PROVE  Tells(t, e, n) /\ (a # "Shutdown" => Says(t, e, n))
<1>1. CASE a = "Start"
  <2>1. PICK i : i = Enter(e, "CommunicationInitializing")
    OBVIOUS
  <2>2. Says(t, e, i) /\ i \in LifecycleRecord
    BY <2>1, EnterSays
  <2>3. n \in CommunicationInitializing(p, i)
    BY <1>1, <2>1 DEF Complete
  <2>4. Says(t, e, n)
    BY <2>2, <2>3, CommunicationInitializingSays, SaysTransitive
  <2> QED
    BY <2>4 DEF Says
<1>2. CASE a = "Shutdown"
  BY <1>2, ShutdownTells DEF Complete
<1>3. CASE a = "Final"
  <2>1. n = SetFinalStatePromise(e)
    BY <1>3 DEF Complete
  <2>2. n.jobs = e.jobs /\ n.state = e.state
    BY <2>1 DEF SetFinalStatePromise, LifecycleRecord
  <2>3. Says(t, e, n)
    BY <2>2, FieldSays
  <2> QED
    BY <2>3 DEF Says
<1> QED
  BY <1>1, <1>2, <1>3 DEF Actions

-----------------------------------------------------------------------------
(* The queues of two participants: js, ch and c become js1, ch1 and c1. *)
Relays(js, ch, c, js1, ch1, c1) ==
  \A st, t : Stopping(st, t, js, ch, c) => Stopping(st, t, js1, ch1, c1)

LEMMA RelaysSelf ==
  ASSUME NEW js, NEW ch, NEW c
  PROVE  Relays(js, ch, c, js, ch, c)
BY DEF Relays

LEMMA RelaysTransitive ==
  ASSUME NEW js, NEW ch, NEW c, NEW js1, NEW ch1, NEW c1, NEW js2, NEW ch2, NEW c2,
         Relays(js, ch, c, js1, ch1, c1), Relays(js1, ch1, c1, js2, ch2, c2)
  PROVE  Relays(js, ch, c, js2, ch2, c2)
BY DEF Relays

LEMMA RelaysDone ==
  ASSUME NEW js \in Seq(Jobs), js # <<>>, NEW ch, NEW c, Head(js)[1] # "Status",
         Head(js) # CallToken \/ Silent(ch)
  PROVE  Relays(js, ch, c, Tail(js), ch, c)
<1>1. PICK j1 : j1 = Tail(js)
  OBVIOUS
<1>2. /\ Silent(js) <=> Silent(j1)
      /\ \A st : Ends(js, st) => Ends(j1, st)
      /\ \A x : Closes(js, x) => Closes(j1, x)
  BY <1>1, TailSilent
<1>3. Head(js) # CallToken => (Has(js, CallToken) => Has(j1, CallToken))
  BY <1>1, TailHas
<1>4. ASSUME NEW st, NEW t, Stopping(st, t, js, ch, c) PROVE Stopping(st, t, j1, ch, c)
  BY <1>2, <1>3, <1>4 DEF Stopping, UpToDate, StopsBehind
<1> QED
  BY <1>1, <1>4 DEF Relays

LEMMA RelaysSent ==
  ASSUME NEW js, NEW ch \in Seq(Messages), NEW c, NEW m \in Messages, m[1] # "Status"
  PROVE  Relays(js, ch, c, js, Append(ch, m), c)
<1>1. PICK c1 : c1 = Append(ch, m)
  OBVIOUS
<1>2. /\ Silent(c1) <=> Silent(ch)
      /\ \A st : Ends(ch, st) => Ends(c1, st)
      /\ \A x : Closes(ch, x) => Closes(c1, x)
  BY <1>1, AppendSilent
<1>3. Has(ch, CallToken) => Has(c1, CallToken)
  BY <1>1, AppendHas
<1>4. ASSUME NEW st, NEW t, Stopping(st, t, js, ch, c) PROVE Stopping(st, t, js, c1, c)
  BY <1>2, <1>3, <1>4 DEF Stopping, UpToDate, StopsBehind
<1> QED
  BY <1>1, <1>4 DEF Relays

LEMMA RelaysCall ==
  ASSUME NEW js \in Seq(Jobs), js # <<>>, NEW ch \in Seq(Messages), NEW c, Head(js) = CallToken
  PROVE  Relays(js, ch, c, Tail(js), Append(ch, CallToken), c)
<1>1. PICK m \in Messages : m = CallToken /\ m[1] # "Status"
  BY TokenFacts DEF CallToken, Job
<1>2. PICK j1 : j1 = Tail(js)
  OBVIOUS
<1>3. PICK c1 : c1 = Append(ch, m)
  OBVIOUS
<1>4. /\ Silent(js) <=> Silent(j1)
      /\ \A st : Ends(js, st) => Ends(j1, st)
      /\ \A x : Closes(js, x) => Closes(j1, x)
  BY <1>1, <1>2, TailSilent
<1>5. /\ Silent(c1) <=> Silent(ch)
      /\ \A st : Ends(ch, st) => Ends(c1, st)
      /\ \A x : Closes(ch, x) => Closes(c1, x)
  BY <1>1, <1>3, AppendSilent
<1>6. Has(c1, CallToken)
  BY <1>1, <1>3, AppendHas
<1>7. ASSUME NEW st, NEW t, Stopping(st, t, js, ch, c) PROVE Stopping(st, t, j1, c1, c)
  BY <1>4, <1>5, <1>6, <1>7 DEF Stopping, UpToDate, StopsBehind
<1> QED
  BY <1>1, <1>2, <1>3, <1>7 DEF Relays

LEMMA SameStatus ==
  ASSUME NEW s, NEW u, StatusOf(s) = StatusOf(u)
  PROVE  s = u
BY DEF StatusOf

(* A status is sent to another participant, is delivered to the own        *)
(* monitor, is received.                                                   *)
LEMMA RelaysJob ==
  ASSUME NEW js \in Seq(Jobs), js # <<>>, NEW ch \in Seq(Messages), NEW c, NEW m \in Messages,
         Head(js) = m, m[1] = "Status"
  PROVE  Relays(js, ch, c, Tail(js), Append(ch, m), c)
<1>1. PICK j1 : j1 = Tail(js)
  OBVIOUS
<1>2. PICK c1 : c1 = Append(ch, m)
  OBVIOUS
<1>3. /\ ~Silent(js)
      /\ \A st : Ends(js, st) => Ends(j1, st)
      /\ \A st : Ends(js, st) /\ Silent(j1) => m = StatusOf(st)
      /\ \A x : Closes(js, x) => Closes(j1, x)
  BY <1>1, TailSilent
<1>4. ~Silent(c1) /\ \A st : m = StatusOf(st) => Ends(c1, st)
  BY <1>2, AppendSilent
<1>5. ASSUME NEW st, NEW t, Stopping(st, t, js, ch, c) PROVE Stopping(st, t, j1, c1, c)
  BY <1>3, <1>4, <1>5 DEF Stopping, UpToDate, StopsBehind
<1> QED
  BY <1>1, <1>2, <1>5 DEF Relays

LEMMA RelaysOwn ==
  ASSUME NEW js \in Seq(Jobs), js # <<>>, NEW ch, Silent(ch), NEW c,
         NEW s, Head(js) = StatusOf(s), NEW c1, c1 = IF c = "Shutdown" THEN c ELSE s
  PROVE  Relays(js, ch, c, Tail(js), ch, c1)
<1>1. PICK j1 : j1 = Tail(js)
  OBVIOUS
<1>2. Head(js)[1] = "Status"
  BY DEF StatusOf
<1>3. /\ ~Silent(js)
      /\ \A st : Ends(js, st) => Ends(j1, st)
      /\ \A st : Ends(js, st) /\ Silent(j1) => st = s
      /\ \A x : Closes(js, x) => Closes(j1, x)
  BY <1>1, <1>2, TailSilent, SameStatus
<1>4. \A st : Ends(ch, st)
  BY SilentFacts
<1>5. ASSUME NEW st, NEW t, Stopping(st, t, js, ch, c) PROVE Stopping(st, t, j1, ch, c1)
  BY <1>3, <1>4, <1>5 DEF Stopping, UpToDate, StopsBehind
<1> QED
  BY <1>1, <1>5 DEF Relays

LEMMA RelaysTaken ==
  ASSUME NEW js, NEW ch \in Seq(Messages), ch # <<>>, NEW c, Head(ch)[1] # "Status"
  PROVE  Relays(js, ch, c, js, Tail(ch), c)
<1>1. PICK c1 : c1 = Tail(ch)
  OBVIOUS
<1>2. /\ Silent(ch) <=> Silent(c1)
      /\ \A st : Ends(ch, st) => Ends(c1, st)
      /\ \A x : Closes(ch, x) => Closes(c1, x)
      /\ \A x : Closes(ch, x) /\ Head(ch) = x => Silent(c1)
  BY <1>1, TailSilent
<1>3. Has(ch, CallToken) => Head(ch) = CallToken \/ Has(c1, CallToken)
  BY <1>1, TailHas
<1>4. ASSUME NEW st, NEW t, Stopping(st, t, js, ch, c) PROVE Stopping(st, t, js, c1, c)
  BY <1>2, <1>3, <1>4 DEF Stopping, UpToDate, StopsBehind
<1> QED
  BY <1>1, <1>4 DEF Relays

LEMMA RelaysStatus ==
  ASSUME NEW js, NEW ch \in Seq(Messages), ch # <<>>, NEW c,
         NEW s, Head(ch) = StatusOf(s), NEW c1, c1 = IF c = "Shutdown" THEN c ELSE s
  PROVE  Relays(js, ch, c, js, Tail(ch), c1)
<1>1. PICK h : h = Tail(ch)
  OBVIOUS
<1>2. Head(ch)[1] = "Status" /\ Head(ch) # CallToken
  <2>1. StatusOf(s)[1] = "Status" /\ CallToken[1] # "Status"
    BY DEF StatusOf, CallToken, Job
  <2> QED
    BY <2>1
<1>3. /\ ~Silent(ch)
      /\ \A st : Ends(ch, st) => Ends(h, st)
      /\ \A st : Ends(ch, st) /\ Silent(h) => st = s
      /\ \A x : Closes(ch, x) => Closes(h, x)
  BY <1>1, <1>2, TailSilent, SameStatus
<1>4. Has(ch, CallToken) => Has(h, CallToken)
  BY <1>1, <1>2, TailHas
<1>5. ASSUME NEW st, NEW t, Stopping(st, t, js, ch, c) PROVE Stopping(st, t, js, h, c1)
  BY <1>3, <1>4, <1>5 DEF Stopping, UpToDate, StopsBehind
<1> QED
  BY <1>1, <1>5 DEF Relays

-----------------------------------------------------------------------------
(* A step of p, whose IO thread has the jobs js left when the state        *)
(* machine goes on.                                                        *)
Forwards(p, js) ==
  /\ \A x, y \in Participants \ gone' :
       Relays(io[x].jobs, chan[x][y], cache[y][x],
              IF x = p THEN js ELSE io[x].jobs, chan'[x][y], cache'[y][x])
  /\ \A x \in Participants : Silent(chan'[x][x])

(* Everybody knows that p has stopped, or has seen it shut down before. *)
Arrived(p) == \A q \in Participants \ gone : cache[q][p] \in {"Stopped", "Shutdown"}
Arriving ==
  \A p \in Participants :
    State(p) = "Stopped" /\ State(p)' = "Shutdown" /\ ~NextJob(p, "Abort") => Arrived(p)

LEMMA StopFrame ==
  ASSUME StopInv, NEW p \in Participants, NEW js, NEW n,
         io'[p] = n, \A x \in Participants : x # p => io'[x] = io[x],
         \A x \in Participants : x # p => bar'[x].then = bar[x].then,
         gone \subseteq gone', Forwards(p, js),
         \A y \in Participants \ gone' : p \notin gone' =>
           (Stopping(State(p), bar[p].then, js, chan'[p][y], cache'[y][p])
              => Stopping(n.state, bar'[p].then, n.jobs, chan'[p][y], cache'[y][p])),
         n.state = "Shutdown" => State(p) # "Stopped" \/ NextJob(p, "Abort") \/ Arrived(p)
  PROVE  StopInv' /\ Arriving
<1>1. ASSUME NEW x \in Participants \ gone', NEW y \in Participants \ gone'
      PROVE  Stopping(io'[x].state, bar'[x].then, io'[x].jobs, chan'[x][y], cache'[y][x])
  <2>1. Stopping(io[x].state, bar[x].then, io[x].jobs, chan[x][y], cache[y][x])
    BY DEF StopInv, State
  <2>2. Relays(io[x].jobs, chan[x][y], cache[y][x],
               IF x = p THEN js ELSE io[x].jobs, chan'[x][y], cache'[y][x])
    BY DEF Forwards
  <2>3. CASE x # p
    <3>1. Relays(io[x].jobs, chan[x][y], cache[y][x], io[x].jobs, chan'[x][y], cache'[y][x])
      BY <2>2, <2>3
    <3>2. Stopping(io[x].state, bar[x].then, io[x].jobs, chan'[x][y], cache'[y][x])
      BY <2>1, <3>1 DEF Relays
    <3>3. io'[x] = io[x] /\ bar'[x].then = bar[x].then
      BY <2>3
    <3> QED
      BY <3>2, <3>3
  <2>4. CASE x = p
    <3>1. Relays(io[p].jobs, chan[p][y], cache[y][p], js, chan'[p][y], cache'[y][p])
      BY <2>2, <2>4
    <3>2. Stopping(State(p), bar[p].then, js, chan'[p][y], cache'[y][p])
      BY <2>1, <2>4, <3>1 DEF Relays, State
    <3> QED
      BY <2>4, <3>2
  <2> QED
    BY <2>3, <2>4
<1>2. StopInv'
  BY <1>1 DEF StopInv, State, Forwards
<1>3. ASSUME NEW x \in Participants, State(x) = "Stopped", State(x)' = "Shutdown",
             ~NextJob(x, "Abort")
      PROVE  Arrived(x)
  <2>1. x = p
    BY <1>3 DEF State
  <2> QED
    BY <1>3, <2>1 DEF State
<1> QED
  BY <1>2, <1>3 DEF Arriving

(* The barrier of p is kept. *)
LEMMA TellsStep ==
  ASSUME StopInv, TypeOK, NEW p \in Participants, NEW e, NEW n,
         e.state = State(p), Tells(bar[p].then, e, n), io' = [io EXCEPT ![p] = n],
         Says(bar[p].then, e, n) \/ e.state = "Error" \/ NextJob(p, "Abort"),
         Forwards(p, e.jobs), UNCHANGED gone,
         \A x \in Participants : bar'[x].then = bar[x].then
  PROVE  StopInv' /\ Arriving
<1>1. io'[p] = n /\ \A x \in Participants : x # p => io'[x] = io[x]
  BY IoOf
<1>2. ASSUME NEW y \in Participants,
             Stopping(State(p), bar[p].then, e.jobs, chan'[p][y], cache'[y][p])
      PROVE  Stopping(n.state, bar'[p].then, n.jobs, chan'[p][y], cache'[y][p])
  BY <1>2 DEF Tells
<1>3. n.state = "Shutdown" => State(p) # "Stopped" \/ NextJob(p, "Abort")
  BY DEF Says
<1> QED
  BY <1>1, <1>2, <1>3, StopFrame

(* A step of the state machine alone. *)
LEMMA SaysOnly ==
  ASSUME StopInv, TypeOK, NEW p \in Participants, NEW n, Says(bar[p].then, io[p], n),
         io' = [io EXCEPT ![p] = n], UNCHANGED <<bar, cache, chan, gone>>
  PROVE  StopInv' /\ Arriving
<1>1. PICK e : e = io[p]
  OBVIOUS
<1>2. Forwards(p, e.jobs)
  BY <1>1, RelaysSelf DEF Forwards, StopInv
<1>3. e.state = State(p) /\ Says(bar[p].then, e, n) /\ Tells(bar[p].then, e, n)
  BY <1>1 DEF State, Says
<1>4. \A x \in Participants : bar'[x].then = bar[x].then
  OBVIOUS
<1> QED
  BY <1>2, <1>3, <1>4, TellsStep

LEMMA DoneForwards ==
  ASSUME StopInv, TypeOK, NEW p \in Participants, io[p].jobs # <<>>,
         Head(io[p].jobs)[1] \notin {"Status", "Call"}, UNCHANGED <<cache, chan, gone>>
  PROVE  Forwards(p, Done(p).jobs)
<1>1. Done(p).jobs = Tail(io[p].jobs) /\ io[p].jobs \in Seq(Jobs)
  BY DoneStep
<1>2. Head(io[p].jobs) # CallToken /\ Head(io[p].jobs)[1] # "Status"
  <2>1. CallToken[1] = "Call"
    BY DEF CallToken, Job
  <2> QED
    BY <2>1
<1>3. \A ch, c : Relays(io[p].jobs, ch, c, Tail(io[p].jobs), ch, c)
  BY <1>1, <1>2, RelaysDone
<1> QED
  BY <1>1, <1>3, RelaysSelf DEF Forwards, StopInv

LEMMA LifecycleTells ==
  ASSUME StopInv, TypeOK, NEW p \in Participants, NEW name, NextJob(p, name),
         name \notin {"Status", "Call"}, NEW outcomes, Lifecycle(p, outcomes),
         \A n \in outcomes :
           /\ Tells(bar[p].then, Done(p), n)
           /\ Says(bar[p].then, Done(p), n) \/ Done(p).state = "Error" \/ name = "Abort"
  PROVE  StopInv' /\ Arriving
<1>1. io[p].jobs # <<>> /\ Head(io[p].jobs)[1] \notin {"Status", "Call"}
  BY DEF NextJob
<1>2. PICK n \in outcomes : io' = [io EXCEPT ![p] = n]
  BY DEF Lifecycle
<1>3. UNCHANGED <<bar, cache, chan, gone>>
  BY DEF Lifecycle, monitorVars
<1>4. PICK e : e = Done(p)
  OBVIOUS
<1>5. e.state = State(p) /\ Forwards(p, e.jobs)
  BY <1>1, <1>3, <1>4, DoneStep, DoneForwards DEF State
<1>6. /\ Tells(bar[p].then, e, n)
      /\ Says(bar[p].then, e, n) \/ e.state = "Error" \/ NextJob(p, "Abort")
  BY <1>2, <1>4
<1>7. \A x \in Participants : bar'[x].then = bar[x].then
  BY <1>3
<1> QED
  BY <1>2, <1>3, <1>5, <1>6, <1>7, TellsStep

LEMMA JobSays ==
  ASSUME NEW t, NEW e \in LifecycleRecord, NEW name \in PlainNames \cup {"StartAutonomous"}
  PROVE  Says(t, e, Defer(e, Job(name))) /\ Defer(e, Job(name)) \in LifecycleRecord
BY NoStatusJobs, DeferSays

LEMMA LifecycleJobsStop ==
  ASSUME StopInv, StartInv, TypeOK, NEW p \in Participants,
         \/ InitializeJob(p) \/ StartAutonomousJob(p) \/ CompleteReadyJob(p)
         \/ PauseJob(p) \/ ContinueJob(p) \/ StopJob(p) \/ ErrorJob(p) \/ AbortJob(p)
  PROVE  StopInv' /\ Arriving
<1>1. PICK t : t = bar[p].then
  OBVIOUS
<1>2. \A name : NextJob(p, name) => Done(p) \in LifecycleRecord /\ OneStart(t, Done(p))
  <2>1. OneStart(t, io[p])
    BY <1>1 DEF StartInv, Starts
  <2>2. io[p].jobs # <<>> => Goes(p, t, io[p], Done(p)) /\ Done(p) \in LifecycleRecord
    BY DoneGoes
  <2> QED
    BY <2>1, <2>2 DEF NextJob, Goes, Moves, Kept
<1>3. ASSUME NEW name, NextJob(p, name), name \notin {"Status", "Call"}, NEW outcomes,
             Lifecycle(p, outcomes), \A n \in outcomes : Says(t, Done(p), n)
      PROVE  StopInv' /\ Arriving
  BY <1>1, <1>3, LifecycleTells DEF Says
<1>4. CASE InitializeJob(p)
  <2>1. NextJob(p, "Initialize") /\ Lifecycle(p, {Initialize(Done(p))})
    BY <1>4 DEF InitializeJob
  <2>2. \A n \in {Initialize(Done(p))} : Says(t, Done(p), n)
    BY <1>2, <2>1, InitializeSays
  <2> QED
    BY <1>3, <2>1, <2>2
<1>5. CASE StartAutonomousJob(p)
  <2>1. NextJob(p, "StartAutonomous") /\ Lifecycle(p, ServicesCreated(p, Done(p)))
    BY <1>5 DEF StartAutonomousJob
  <2>2. \A n \in ServicesCreated(p, Done(p)) : Says(t, Done(p), n)
    BY <1>2, <2>1, ServicesCreatedSays
  <2> QED
    BY <1>3, <2>1, <2>2
<1>6. CASE CompleteReadyJob(p)
  <2>1. /\ NextJob(p, "CompleteReady")
        /\ Lifecycle(p, CompleteCommunicationReadyHandler(p, Done(p)))
    BY <1>6 DEF CompleteReadyJob
  <2>2. \A n \in CompleteCommunicationReadyHandler(p, Done(p)) : Says(t, Done(p), n)
    BY <1>2, <2>1, CompleteReadySays
  <2> QED
    BY <1>3, <2>1, <2>2
<1>7. CASE PauseJob(p) \/ ContinueJob(p)
  <2>1. \E name \in {"Pause", "Continue"} :
          /\ NextJob(p, name)
          /\ \E n \in {Enter(Done(p), "Paused"), Enter(Done(p), "Running"),
                       Defer(Done(p), Job("Error"))} : Lifecycle(p, {n})
    BY <1>7 DEF PauseJob, ContinueJob
  <2>2. PICK name \in {"Pause", "Continue"} :
          /\ NextJob(p, name)
          /\ \E n \in {Enter(Done(p), "Paused"), Enter(Done(p), "Running"),
                       Defer(Done(p), Job("Error"))} : Lifecycle(p, {n})
    BY <2>1
  <2>3. PICK n \in {Enter(Done(p), "Paused"), Enter(Done(p), "Running"),
                    Defer(Done(p), Job("Error"))} : Lifecycle(p, {n})
    BY <2>2
  <2>4. \A m \in {n} : Says(t, Done(p), m)
    BY <1>2, <2>2, EnterSays, JobSays DEF PlainNames
  <2> QED
    BY <1>3, <2>2, <2>3, <2>4
<1>8. CASE StopJob(p)
  <2>1. NextJob(p, "Stop") /\ Lifecycle(p, StopSimulation(p, Done(p)))
    BY <1>8 DEF StopJob
  <2>2. \A n \in StopSimulation(p, Done(p)) :
          /\ Tells(t, Done(p), n)
          /\ Says(t, Done(p), n) \/ Done(p).state = "Error"
    BY <1>2, <2>1, StopTells
  <2> QED
    BY <1>1, <2>1, <2>2, LifecycleTells
<1>9. CASE ErrorJob(p)
  <2>1. PICK n : n = IF life[p] \in {"idle", "aborted"} THEN Done(p) ELSE ToError(Done(p))
    OBVIOUS
  <2>2. NextJob(p, "Error") /\ Lifecycle(p, {n})
    BY <1>9, <2>1 DEF ErrorJob
  <2>3. \A m \in {n} : Says(t, Done(p), m)
    BY <1>2, <2>1, <2>2, ToErrorSays, SelfSays
  <2> QED
    BY <1>3, <2>2, <2>3
<1>10. CASE AbortJob(p)
  <2>1. NextJob(p, "Abort") /\ Lifecycle(p, {AbortSimulation(Done(p))})
    BY <1>10 DEF AbortJob
  <2>2. \A n \in {AbortSimulation(Done(p))} : Tells(t, Done(p), n)
    BY <1>2, <2>1, AbortTells
  <2> QED
    BY <1>1, <2>1, <2>2, LifecycleTells
<1> QED
  BY <1>4, <1>5, <1>6, <1>7, <1>8, <1>9, <1>10

(* A job, or two, are added to the queue of p. *)
LEMMA AddedSays ==
  ASSUME StopInv, TypeOK, NEW p \in Participants, NEW e \in LifecycleRecord,
         e.jobs = io[p].jobs, e.state = io[p].state,
         NEW name \in PlainNames \cup {"StartAutonomous"},
         NEW n, n = Defer(e, Job(name)) \/ n = Defer(Defer(e, Job("Abort")), Job(name))
                  \/ n = Defer(Defer(e, Job("Initialize")), Job(name)),
         io' = [io EXCEPT ![p] = n], UNCHANGED <<bar, cache, chan, gone>>
  PROVE  StopInv' /\ Arriving
<1>1. PICK t : t = bar[p].then
  OBVIOUS
<1>2. Says(t, io[p], e)
  BY FieldSays
<1>3. ASSUME NEW d \in LifecycleRecord, Says(t, io[p], d)
      PROVE  Says(t, io[p], Defer(d, Job(name)))
  BY <1>3, JobSays, SaysTransitive
<1>4. ASSUME NEW a \in {"Abort", "Initialize"}
      PROVE  Says(t, io[p], Defer(e, Job(a))) /\ Defer(e, Job(a)) \in LifecycleRecord
  BY <1>2, JobSays, SaysTransitive DEF PlainNames
<1>5. Says(t, io[p], n)
  BY <1>2, <1>3, <1>4
<1> QED
  BY <1>1, <1>5, SaysOnly

LEMMA UserStop ==
  ASSUME StopInv, Inv, NEW p \in Participants,
         \/ StartLifecycle(p) \/ PublishLifecycle(p) \/ CreateController(p)
         \/ Request(p) \/ RequestAbort(p) \/ CompleteCommunicationReadyHandlerAsync(p)
  PROVE  StopInv' /\ Arriving
<1>1. PICK e \in LifecycleRecord : e = io[p]
  BY DEF Inv, TypeOK
<1>2. TypeOK /\ UNCHANGED <<bar, cache, chan, gone>>
  BY DEF Inv, StartLifecycle, PublishLifecycle, CreateController, Request, RequestAbort, UserCall,
     CompleteCommunicationReadyHandlerAsync, monitorVars
<1>3. CASE UNCHANGED io
  <2>1. io' = [io EXCEPT ![p] = e]
    BY <1>1, <1>3, SameIo
  <2> QED
    BY <1>1, <1>2, <2>1, SelfSays, SaysOnly
<1>4. ASSUME NEW i \in LifecycleRecord, i.jobs = e.jobs, i.state = e.state,
             NEW name \in PlainNames \cup {"StartAutonomous"},
             io' = [io EXCEPT ![p] = Defer(i, Job(name))]
      PROVE  StopInv' /\ Arriving
  BY <1>1, <1>2, <1>4, AddedSays
<1>5. CASE StartLifecycle(p) /\ ~UNCHANGED io
  <2>1. io' = [io EXCEPT ![p] = Defer(e, Job("Abort"))]
    BY <1>1, <1>5 DEF StartLifecycle
  <2> QED
    BY <1>4, <2>1 DEF PlainNames
<1>6. CASE PublishLifecycle(p)
  <2>1. \/ io' = [io EXCEPT ![p] = Defer(e, Job("Initialize"))]
        \/ io' = [io EXCEPT ![p] = Defer(Defer(e, Job("Initialize")), Job("StartAutonomous"))]
    BY <1>1, <1>6 DEF PublishLifecycle
  <2>2. CASE io' = [io EXCEPT ![p] = Defer(e, Job("Initialize"))]
    BY <1>4, <2>2 DEF PlainNames
  <2>3. CASE io' = [io EXCEPT ![p] = Defer(Defer(e, Job("Initialize")), Job("StartAutonomous"))]
    BY <1>1, <1>2, <2>3, AddedSays
  <2> QED
    BY <2>1, <2>2, <2>3
<1>7. CASE CreateController(p)
  <2>1. PICK i : i = [e EXCEPT !.pending = TRUE]
    OBVIOUS
  <2>2. i \in LifecycleRecord /\ i.jobs = e.jobs /\ i.state = e.state
    BY <2>1 DEF LifecycleRecord
  <2>3. io' = [io EXCEPT ![p] = Defer(i, Job("Register"))]
    BY <1>1, <1>7, <2>1 DEF CreateController
  <2> QED
    BY <1>4, <2>2, <2>3 DEF PlainNames
<1>8. CASE Request(p)
  <2>1. PICK call \in {"Pause", "Continue", "Stop", "Error"} :
          io' = [io EXCEPT ![p] = Defer(@, Job(call))]
    BY <1>8 DEF Request
  <2>2. io' = [io EXCEPT ![p] = Defer(e, Job(call))]
    BY <1>1, <2>1
  <2> QED
    BY <1>4, <2>2 DEF PlainNames
<1>9. CASE RequestAbort(p)
  <2>1. \/ io' = [io EXCEPT ![p] = Defer(e, Job("Command"))]
        \/ io' = [io EXCEPT ![p] = Defer(Defer(e, Job("Abort")), Job("Command"))]
    BY <1>1, <1>9 DEF RequestAbort
  <2>2. CASE io' = [io EXCEPT ![p] = Defer(e, Job("Command"))]
    BY <1>4, <2>2 DEF PlainNames
  <2>3. CASE io' = [io EXCEPT ![p] = Defer(Defer(e, Job("Abort")), Job("Command"))]
    <3>1. "Command" \in PlainNames \cup {"StartAutonomous"}
      BY DEF PlainNames
    <3> QED
      BY <1>1, <1>2, <2>3, <3>1, AddedSays
  <2> QED
    BY <2>1, <2>2, <2>3
<1>10. CASE CompleteCommunicationReadyHandlerAsync(p)
  <2>1. PICK i : i = [e EXCEPT !.ready = "completed"]
    OBVIOUS
  <2>2. i \in LifecycleRecord /\ i.jobs = e.jobs /\ i.state = e.state
    BY <2>1 DEF LifecycleRecord
  <2>3. io' = [io EXCEPT ![p] = Defer(i, Job("CompleteReady"))]
    BY <1>1, <1>10, <2>1 DEF CompleteCommunicationReadyHandlerAsync
  <2> QED
    BY <1>4, <2>2, <2>3 DEF PlainNames
<1> QED
  BY <1>3, <1>5, <1>6, <1>7, <1>8, <1>9, <1>10

LEMMA DisconnectStop ==
  ASSUME StopInv, TypeOK, NEW p \in Participants, NEW lossy, Disconnect(p, lossy)
  PROVE  StopInv' /\ Arriving
<1>1. PICK n : n = [io[p] EXCEPT !.jobs = <<>>]
  OBVIOUS
<1>2. n.state = State(p) /\ n.jobs = <<>>
  BY <1>1 DEF State, TypeOK, LifecycleRecord
<1>3. io' = [io EXCEPT ![p] = n] /\ gone' = gone \cup {p} /\ UNCHANGED <<bar, cache>>
  BY <1>1 DEF Disconnect, monitorVars
<1>4. io'[p] = n /\ \A x \in Participants : x # p => io'[x] = io[x]
  BY <1>3, IoOf
<1>5. chan' = [a \in Participants |-> [b \in Participants |->
        IF b = p \/ b \in gone THEN <<>>
        ELSE IF a = p THEN Append(IF b \in lossy THEN <<>> ELSE chan[p][b], Job("End"))
        ELSE chan[a][b]]]
  BY DEF Disconnect
<1>6. ASSUME NEW x \in Participants, NEW y \in Participants
      PROVE  /\ x # p /\ y \notin gone' => chan'[x][y] = chan[x][y]
             /\ y \in gone' => chan'[x][y] = <<>>
  BY <1>3, <1>5
<1>7. Forwards(p, <<>>)
  <2>1. ASSUME NEW x \in Participants \ gone', NEW y \in Participants \ gone'
        PROVE  Relays(io[x].jobs, chan[x][y], cache[y][x],
                      IF x = p THEN <<>> ELSE io[x].jobs, chan'[x][y], cache'[y][x])
    <3>1. x # p /\ chan'[x][y] = chan[x][y] /\ cache'[y][x] = cache[y][x]
      BY <1>3, <1>6
    <3> QED
      BY <3>1, RelaysSelf
  <2>2. ASSUME NEW x \in Participants PROVE Silent(chan'[x][x])
    <3>1. chan'[x][x] = chan[x][x] \/ chan'[x][x] = <<>>
      BY <1>3, <1>6
    <3>2. Silent(chan[x][x]) /\ Silent(<<>>)
      BY SilentFacts DEF StopInv
    <3> QED
      BY <3>1, <3>2
  <2> QED
    BY <2>1, <2>2 DEF Forwards
<1> QED
  BY <1>2, <1>3, <1>4, <1>7, StopFrame

-----------------------------------------------------------------------------
(* Messages and statuses. *)

(* p sends a message that is no status and has the jobs js left. *)
LEMMA SentForwards ==
  ASSUME StopInv, TypeOK, NEW p \in Participants, NEW qs, NEW m \in Messages, m[1] # "Status",
         chan' = Send(chan, p, qs, m), UNCHANGED <<cache, gone>>, NEW js,
         \A ch, c : Relays(io[p].jobs, ch, c, js, ch, c)
  PROVE  Forwards(p, js)
<1>1. Sent(chan, chan', p, qs, m)
  BY SendStep DEF TypeOK
<1>2. \A x, y \in Participants : chan[x][y] \in Seq(Messages)
  BY DEF TypeOK
<1>3. ASSUME NEW x \in Participants, NEW y \in Participants
      PROVE  /\ Relays(io[x].jobs, chan[x][y], cache[y][x],
                       IF x = p THEN js ELSE io[x].jobs, chan'[x][y], cache'[y][x])
             /\ Silent(chan[x][y]) => Silent(chan'[x][y])
  <2>1. PICK ch \in Seq(Messages) : ch = chan[x][y]
    BY <1>2
  <2>2. PICK c : c = cache[y][x] /\ c = cache'[y][x]
    OBVIOUS
  <2>3. PICK js1 : js1 = IF x = p THEN js ELSE io[x].jobs
    OBVIOUS
  <2>4. chan'[x][y] \in {ch, Append(ch, m)}
    BY <1>1, <2>1 DEF Sent
  <2>5. Relays(io[x].jobs, ch, c, js1, ch, c)
    BY <2>3, RelaysSelf
  <2>6. Relays(js1, ch, c, js1, Append(ch, m), c)
    BY RelaysSent
  <2>7. Relays(io[x].jobs, ch, c, js1, Append(ch, m), c)
    BY <2>5, <2>6, RelaysTransitive
  <2>8. Silent(ch) => Silent(Append(ch, m))
    BY AppendSilent
  <2> QED
    BY <2>1, <2>2, <2>3, <2>4, <2>5, <2>7, <2>8
<1> QED
  BY <1>3 DEF Forwards, StopInv

(* A job is done whose message is no status. *)
LEMMA SendStop ==
  ASSUME StopInv, TypeOK, NEW p \in Participants, io[p].jobs # <<>>,
         Head(io[p].jobs)[1] \notin {"Status", "Call"}, NEW qs,
         NEW name \in MessageNames, chan' = Send(chan, p, qs, Job(name)),
         NEW n, Says(bar[p].then, Done(p), n), io' = [io EXCEPT ![p] = n],
         UNCHANGED <<bar, cache, gone>>
  PROVE  StopInv' /\ Arriving
<1>1. PICK e : e = Done(p)
  OBVIOUS
<1>2. e.state = State(p) /\ e.jobs = Tail(io[p].jobs) /\ io[p].jobs \in Seq(Jobs)
  BY <1>1, DoneStep DEF State
<1>3. Head(io[p].jobs) # CallToken /\ Head(io[p].jobs)[1] # "Status"
  <2>1. CallToken[1] = "Call"
    BY DEF CallToken, Job
  <2> QED
    BY <2>1
<1>4. \A ch, c : Relays(io[p].jobs, ch, c, e.jobs, ch, c)
  BY <1>2, <1>3, RelaysDone
<1>5. PICK m \in Messages : m = Job(name) /\ m[1] # "Status"
  BY NoStatusJobs
<1>6. Forwards(p, e.jobs)
  BY <1>4, <1>5, SentForwards
<1>7. Says(bar[p].then, e, n) /\ Tells(bar[p].then, e, n)
  BY <1>1 DEF Says
<1>8. \A x \in Participants : bar'[x].then = bar[x].then
  OBVIOUS
<1> QED
  BY <1>2, <1>6, <1>7, <1>8, TellsStep

LEMMA SendJobsStop ==
  ASSUME StopInv, TypeOK, NEW p \in Participants, CommandJob(p) \/ ReplyJob(p) \/ RegisterJob(p)
  PROVE  StopInv' /\ Arriving
<1>1. io[p].jobs # <<>> /\ Head(io[p].jobs)[1] \notin {"Status", "Call"}
  BY DEF CommandJob, ReplyJob, RegisterJob, NextJob
<1>2. PICK e \in LifecycleRecord : e = Done(p)
  BY <1>1, DoneStep
<1>3. PICK t : t = bar[p].then
  OBVIOUS
<1>4. CASE CommandJob(p) \/ ReplyJob(p)
  <2>1. \E qs : \E name \in MessageNames : SendJob(p, qs, Job(name))
    BY <1>4 DEF CommandJob, ReplyJob, MessageNames
  <2>2. PICK qs : \E name \in MessageNames : SendJob(p, qs, Job(name))
    BY <2>1
  <2>3. PICK name \in MessageNames : SendJob(p, qs, Job(name))
    BY <2>2
  <2>4. /\ chan' = Send(chan, p, qs, Job(name)) /\ io' = [io EXCEPT ![p] = e]
        /\ UNCHANGED <<bar, cache, gone>>
    BY <1>2, <2>3 DEF SendJob, monitorVars
  <2> QED
    BY <1>1, <1>2, <2>4, SelfSays, SendStop
<1>5. CASE RegisterJob(p)
  <2>1. /\ chan' = Send(chan, p, conn[p], Job("Subscribe"))
        /\ UNCHANGED <<bar, cache, gone>>
    BY <1>5 DEF RegisterJob, monitorVars
  <2>2. PICK n \in IF conn[p] = {} THEN AsyncSubscriptionsCompleted(p, e) ELSE {e} :
          io' = [io EXCEPT ![p] = n]
    BY <1>2, <1>5 DEF RegisterJob
  <2>3. Says(t, e, n)
    BY <2>2, AsyncSubscriptionsSays, SelfSays
  <2>4. "Subscribe" \in MessageNames
    BY DEF MessageNames
  <2> QED
    BY <1>1, <1>2, <1>3, <2>1, <2>2, <2>3, <2>4, SendStop
<1> QED
  BY <1>4, <1>5

(* The calls of a barrier, and statuses, go to everybody who is left. *)
LEMMA SentToAll ==
  ASSUME StopInv, StartInv, Inv, NEW p \in Participants, p \notin gone, NEW m \in Messages,
         chan' = Send(chan, p, conn[p], m)
  PROVE  /\ \A y \in Participants \ gone : y # p => chan'[p][y] = Append(chan[p][y], m)
         /\ \A x, y \in Participants : x # p => chan'[x][y] = chan[x][y]
         /\ chan'[p][p] = chan[p][p] /\ \A x \in Participants : Silent(chan'[x][x])
<1>1. Sent(chan, chan', p, conn[p], m)
  BY SendStep DEF Inv, TypeOK
<1>2. \A y \in Participants \ gone : y # p => y \in conn[p] \ gone
  BY DEF Inv, ConnectedIn, Peers
<1>3. p \notin conn[p]
  BY DEF StartInv, Starts
<1>4. \A y \in Participants \ gone : y # p => chan'[p][y] = Append(chan[p][y], m)
  BY <1>1, <1>2 DEF Sent
<1>5. \A x, y \in Participants : x # p => chan'[x][y] = chan[x][y]
  BY <1>1 DEF Sent
<1>6. chan'[p][p] = chan[p][p]
  BY <1>1, <1>3 DEF Sent
<1> QED
  BY <1>4, <1>5, <1>6 DEF StopInv

LEMMA CallJobStop ==
  ASSUME StopInv, StartInv, Inv, NEW p \in Participants, CallJob(p)
  PROVE  StopInv' /\ Arriving
<1>1. TypeOK /\ p \notin gone /\ io[p].jobs # <<>> /\ Head(io[p].jobs)[1] = "Call"
  BY DEF Inv, CallJob, NextJob
<1>2. PICK e : e = Done(p)
  OBVIOUS
<1>3. e.state = State(p) /\ e.jobs = Tail(io[p].jobs) /\ io[p].jobs \in Seq(Jobs)
  BY <1>1, <1>2, DoneStep DEF State
<1>4. Head(io[p].jobs) = CallToken
  <2>1. Head(io[p].jobs) \in Jobs
    BY <1>1, <1>3
  <2> QED
    BY <1>1, <2>1, StatusParts
<1>5. PICK m \in Messages : m = CallToken
  BY TokenFacts
<1>6. /\ chan' = Send(chan, p, conn[p], m) /\ io' = [io EXCEPT ![p] = e]
      /\ UNCHANGED <<bar, cache, gone>>
  BY <1>2, <1>5 DEF CallJob, SendJob, CallToken, monitorVars
<1>7. /\ \A y \in Participants \ gone : y # p => chan'[p][y] = Append(chan[p][y], m)
      /\ \A x, y \in Participants : x # p => chan'[x][y] = chan[x][y]
      /\ chan'[p][p] = chan[p][p] /\ \A x \in Participants : Silent(chan'[x][x])
  BY <1>1, <1>6, SentToAll
<1>8. ASSUME NEW y \in Participants \ gone
      PROVE  Relays(io[p].jobs, chan[p][y], cache[y][p], e.jobs, chan'[p][y], cache'[y][p])
  <2>1. PICK ch \in Seq(Messages) : ch = chan[p][y]
    BY <1>1 DEF TypeOK
  <2>2. PICK c : c = cache[y][p] /\ c = cache'[y][p]
    BY <1>6
  <2>3. CASE y = p
    <3>1. chan'[p][y] = ch /\ Silent(ch) /\ Head(io[p].jobs)[1] # "Status"
      BY <1>1, <1>7, <2>1, <2>3
    <3> QED
      BY <1>1, <1>3, <2>1, <2>2, <3>1, RelaysDone
  <2>4. CASE y # p
    <3>1. chan'[p][y] = Append(ch, CallToken)
      BY <1>5, <1>7, <2>1, <2>4
    <3> QED
      BY <1>1, <1>3, <1>4, <2>1, <2>2, <3>1, RelaysCall
  <2> QED
    BY <2>3, <2>4
<1>9. Forwards(p, e.jobs)
  BY <1>6, <1>7, <1>8, RelaysSelf DEF Forwards
<1>10. Says(bar[p].then, e, e) /\ Tells(bar[p].then, e, e)
  BY SelfSays DEF Says
<1>11. \A x \in Participants : bar'[x].then = bar[x].then
  BY <1>6
<1> QED
  BY <1>1, <1>3, <1>6, <1>9, <1>10, <1>11, TellsStep

(* The status s of q has reached the monitor of p, whose IO thread is e by *)
(* then.                                                                   *)
LEMMA NewsStop ==
  ASSUME StopInv, TypeOK, NEW p \in Participants, NEW q \in Participants, NEW s,
         NEW e \in LifecycleRecord, e.state = State(p), OneStart(bar[p].then, e),
         ReceiveStatus(p, q, s, e), Forwards(p, e.jobs), UNCHANGED <<bar, gone>>
  PROVE  StopInv' /\ Arriving
<1>1. PICK y : y = SystemStateAfter(cache[p], sys[p], q, s)
  OBVIOUS
<1>2. PICK n \in IF y = sys[p] THEN {e} ELSE NewSystemState(p, e, y) : io' = [io EXCEPT ![p] = n]
  BY <1>1 DEF ReceiveStatus
<1>3. Says(bar[p].then, e, n)
  BY <1>2, NewSystemStateSays, SelfSays
<1>4. Tells(bar[p].then, e, n) /\ \A x \in Participants : bar'[x].then = bar[x].then
  BY <1>3 DEF Says
<1> QED
  BY <1>2, <1>3, <1>4, TellsStep

LEMMA StatusJobStop ==
  ASSUME StopInv, StartInv, Inv, NEW p \in Participants, StatusJob(p)
  PROVE  StopInv' /\ Arriving
<1>1. TypeOK /\ p \notin gone /\ io[p].jobs # <<>> /\ Head(io[p].jobs)[1] = "Status"
  BY DEF Inv, StatusJob, NextJob
<1>2. PICK e : e = Done(p)
  OBVIOUS
<1>3. /\ Goes(p, bar[p].then, io[p], e) /\ e \in LifecycleRecord /\ e.state = State(p)
      /\ e.jobs = Tail(io[p].jobs) /\ io[p].jobs \in Seq(Jobs)
  BY <1>1, <1>2, DoneGoes
<1>4. Head(io[p].jobs) \in Jobs
  BY <1>1, <1>3
<1>5. PICK s \in ParticipantStates : Head(io[p].jobs) = <<"Status", s>>
  BY <1>1, <1>4, StatusParts
<1>6. Head(io[p].jobs) = StatusOf(s) /\ Argument(p) = s
  BY <1>5 DEF StatusOf, Argument
<1>7. PICK m \in Messages : m = Head(io[p].jobs)
  BY <1>6, StatusNames
<1>8. /\ chan' = Send(chan, p, conn[p], m) /\ ReceiveStatus(p, p, s, e)
      /\ UNCHANGED <<bar, gone>>
  BY <1>2, <1>6, <1>7 DEF StatusJob
<1>9. /\ \A y \in Participants \ gone : y # p => chan'[p][y] = Append(chan[p][y], m)
      /\ \A x, y \in Participants : x # p => chan'[x][y] = chan[x][y]
      /\ chan'[p][p] = chan[p][p] /\ \A x \in Participants : Silent(chan'[x][x])
  BY <1>1, <1>8, SentToAll
<1>10. /\ \A x, y \in Participants : x # p \/ y # p => cache'[y][x] = cache[y][x]
       /\ cache'[p][p] = IF cache[p][p] = "Shutdown" THEN cache[p][p] ELSE s
  BY <1>1, <1>8 DEF ReceiveStatus, UpdateParticipantStatus, TypeOK
<1>11. ASSUME NEW y \in Participants \ gone
       PROVE  Relays(io[p].jobs, chan[p][y], cache[y][p], e.jobs, chan'[p][y], cache'[y][p])
  <2>1. PICK ch \in Seq(Messages) : ch = chan[p][y]
    BY <1>1 DEF TypeOK
  <2>2. PICK c : c = cache[y][p]
    OBVIOUS
  <2>3. PICK js \in Seq(Jobs) : /\ js = io[p].jobs /\ js # <<>>
                             /\ Head(js) = m /\ Head(js) = StatusOf(s)
    BY <1>1, <1>3, <1>6, <1>7
  <2>4. CASE y = p
    <3>1. chan'[p][y] = ch /\ Silent(ch)
      BY <1>9, <2>1, <2>4
    <3>2. PICK c1 : c1 = cache'[y][p] /\ c1 = IF c = "Shutdown" THEN c ELSE s
      BY <1>10, <2>2, <2>4
    <3> QED
      BY <1>3, <2>1, <2>2, <2>3, <3>1, <3>2, RelaysOwn
  <2>5. CASE y # p
    <3>1. chan'[p][y] = Append(ch, m) /\ cache'[y][p] = c
      BY <1>9, <1>10, <2>1, <2>2, <2>5
    <3>2. m[1] = "Status"
      BY <1>1, <1>7
    <3> QED
      BY <1>3, <2>1, <2>2, <2>3, <3>1, <3>2, RelaysJob
  <2> QED
    BY <2>4, <2>5
<1>12. Forwards(p, e.jobs)
  BY <1>8, <1>9, <1>10, <1>11, RelaysSelf DEF Forwards
<1>13. OneStart(bar[p].then, e)
  BY <1>3 DEF StartInv, Starts, Goes, Moves, Kept
<1> QED
  BY <1>1, <1>3, <1>8, <1>12, <1>13, NewsStop

LEMMA TakenLater ==
  ASSUME TypeOK, NEW p \in Participants, NEW q \in Participants, chan[q][p] # <<>>,
         chan' = Taken(p, q)
  PROVE  /\ \A x, y \in Participants :
              chan'[x][y] = IF x = q /\ y = p THEN Tail(chan[x][y]) ELSE chan[x][y]
         /\ chan[q][p] \in Seq(Messages)
BY TakenStep

(* p takes a message of q. *)
LEMMA TakenForwards ==
  ASSUME StopInv, TypeOK, NEW p \in Participants, NEW q \in Participants, chan[q][p] # <<>>,
         chan' = Taken(p, q), UNCHANGED gone,
         \A x, y \in Participants : x # q \/ y # p => cache'[y][x] = cache[y][x],
         \/ q \in gone
         \/ Head(chan[q][p])[1] # "Status" /\ cache'[p][q] = cache[p][q]
         \/ \E s : /\ Head(chan[q][p]) = StatusOf(s)
                   /\ cache'[p][q] = IF cache[p][q] = "Shutdown" THEN cache[p][q] ELSE s
  PROVE  Forwards(p, io[p].jobs)
<1>1. /\ \A x, y \in Participants :
           chan'[x][y] = IF x = q /\ y = p THEN Tail(chan[x][y]) ELSE chan[x][y]
      /\ chan[q][p] \in Seq(Messages)
  BY TakenLater, Zenon
<1>2. ASSUME NEW x \in Participants \ gone, NEW y \in Participants \ gone
      PROVE  Relays(io[x].jobs, chan[x][y], cache[y][x],
                    io[x].jobs, chan'[x][y], cache'[y][x])
  <2>1. CASE x = q /\ y = p
    <3>1. PICK ch \in Seq(Messages) : ch = chan[q][p] /\ ch # <<>> /\ chan'[q][p] = Tail(ch)
      BY <1>1
    <3>2. PICK c : c = cache[p][q]
      OBVIOUS
    <3>3. PICK c1 : c1 = cache'[p][q]
      OBVIOUS
    <3>4. PICK js : js = io[q].jobs
      OBVIOUS
    <3>5. \/ Head(ch)[1] # "Status" /\ c1 = c
          \/ \E s : Head(ch) = StatusOf(s) /\ c1 = IF c = "Shutdown" THEN c ELSE s
      BY <1>2, <2>1, <3>1, <3>2, <3>3
    <3>6. Relays(js, ch, c, js, Tail(ch), c1)
      <4>1. CASE Head(ch)[1] # "Status" /\ c1 = c
        BY <3>1, <4>1, RelaysTaken, Zenon
      <4>2. ASSUME NEW s, Head(ch) = StatusOf(s), c1 = IF c = "Shutdown" THEN c ELSE s
            PROVE  Relays(js, ch, c, js, Tail(ch), c1)
        BY <3>1, <4>2, RelaysStatus, Zenon
      <4> QED
        BY <3>5, <4>1, <4>2, Zenon
    <3> QED
      BY <2>1, <3>1, <3>2, <3>3, <3>4, <3>6
  <2>2. CASE ~(x = q /\ y = p)
    <3>1. chan'[x][y] = chan[x][y] /\ cache'[y][x] = cache[y][x]
      BY <1>1, <2>2
    <3> QED
      BY <3>1, RelaysSelf
  <2> QED
    BY <2>1, <2>2
<1>3. ASSUME NEW x \in Participants PROVE Silent(chan'[x][x])
  <2>1. Silent(chan[x][x])
    BY DEF StopInv
  <2>2. CASE x = q /\ x = p
    <3>1. chan'[x][x] = Tail(chan[q][p]) /\ Silent(chan[q][p])
      BY <1>1, <2>1, <2>2
    <3> QED
      BY <1>1, <3>1, TailSilent
  <2>3. CASE ~(x = q /\ x = p)
    BY <1>1, <2>1, <2>3
  <2> QED
    BY <2>2, <2>3
<1>4. \A x : (IF x = p THEN io[p].jobs ELSE io[x].jobs) = io[x].jobs
  OBVIOUS
<1> QED
  BY <1>2, <1>3, <1>4 DEF Forwards

LEMMA ReceiveStatusStop ==
  ASSUME StopInv, StartInv, TypeOK, NEW p \in Participants, NEW q \in Participants,
         ReceiveParticipantStatus(p, q)
  PROVE  StopInv' /\ Arriving
<1>1. chan[q][p] # <<>> /\ Head(chan[q][p])[1] = "Status"
  BY DEF ReceiveParticipantStatus, Receives
<1>2. chan[q][p] \in Seq(Messages)
  BY DEF TypeOK
<1>3. Head(chan[q][p]) \in Messages
  BY <1>1, <1>2
<1>4. PICK s \in ParticipantStates : Head(chan[q][p]) = <<"Status", s>>
  BY <1>1, <1>3, StatusParts
<1>5. Head(chan[q][p]) = StatusOf(s) /\ Head(chan[q][p])[2] = s
  BY <1>4 DEF StatusOf
<1>6. PICK e \in LifecycleRecord : e = io[p]
  BY DEF TypeOK
<1>7. /\ chan' = Taken(p, q) /\ ReceiveStatus(p, q, s, e) /\ UNCHANGED <<bar, gone>>
  BY <1>5, <1>6 DEF ReceiveParticipantStatus
<1>8. /\ \A x, y \in Participants : x # q \/ y # p => cache'[y][x] = cache[y][x]
      /\ cache'[p][q] = IF cache[p][q] = "Shutdown" THEN cache[p][q] ELSE s
  BY <1>7 DEF ReceiveStatus, UpdateParticipantStatus, TypeOK
<1>9. Forwards(p, e.jobs)
  BY <1>1, <1>5, <1>6, <1>7, <1>8, TakenForwards
<1>10. e.state = State(p) /\ OneStart(bar[p].then, e)
  BY <1>6 DEF State, StartInv, Starts
<1> QED
  BY <1>7, <1>9, <1>10, NewsStop

LEMMA TakeStop ==
  ASSUME StopInv, TypeOK, NEW p \in Participants, NEW q \in Participants, chan[q][p] # <<>>,
         Head(chan[q][p])[1] # "Status" \/ q \in gone,
         chan' = Taken(p, q), NEW n, Says(bar[p].then, io[p], n), io' = [io EXCEPT ![p] = n],
         UNCHANGED <<bar, cache, gone>>
  PROVE  StopInv' /\ Arriving
<1>1. PICK e : e = io[p]
  OBVIOUS
<1>2. Forwards(p, e.jobs)
  BY <1>1, TakenForwards
<1>3. e.state = State(p) /\ Says(bar[p].then, e, n) /\ Tells(bar[p].then, e, n)
  BY <1>1 DEF State, Says
<1>4. \A x \in Participants : bar'[x].then = bar[x].then
  OBVIOUS
<1> QED
  BY <1>2, <1>3, <1>4, TellsStep

LEMMA MessagesStop ==
  ASSUME StopInv, Inv, NEW p \in Participants, NEW q \in Participants,
         \/ ReceiveSystemCommand(p, q) \/ ReceiveCall(p, q)
         \/ ReceiveSubscriptionAcknowledge(p, q)
  PROVE  StopInv' /\ Arriving
<1>1. TypeOK
  BY DEF Inv
<1>2. PICK e \in LifecycleRecord : e = io[p]
  BY <1>1 DEF TypeOK
<1>3. PICK t : t = bar[p].then
  OBVIOUS
<1>4. chan[q][p] # <<>> /\ Head(chan[q][p])[1] # "Status" /\ chan' = Taken(p, q)
  BY DEF ReceiveSystemCommand, ReceiveCall, ReceiveSubscriptionAcknowledge, Receives
<1>5. UNCHANGED <<bar, cache, gone>>
  BY DEF ReceiveSystemCommand, ReceiveCall, ReceiveSubscriptionAcknowledge, monitorVars
<1>6. ASSUME NEW n, Says(t, e, n), io' = [io EXCEPT ![p] = n]
      PROVE  StopInv' /\ Arriving
  BY <1>1, <1>2, <1>3, <1>4, <1>5, <1>6, TakeStop
<1>7. CASE UNCHANGED io
  <2>1. io' = [io EXCEPT ![p] = e]
    BY <1>2, <1>7, SameIo
  <2> QED
    BY <1>6, <2>1, SelfSays
<1>8. CASE ReceiveSystemCommand(p, q) /\ ~UNCHANGED io
  <2>1. io' = [io EXCEPT ![p] = Defer(e, Job("Abort"))]
    BY <1>2, <1>8 DEF ReceiveSystemCommand
  <2> QED
    BY <1>6, <2>1, JobSays DEF PlainNames
<1>9. CASE ReceiveCall(p, q)
  <2>1. PICK job \in Jobs : job = ReplyTo(q) /\ job[1] # "Status"
    BY NoStatusJobs
  <2>2. io' = [io EXCEPT ![p] = Defer(e, job)]
    BY <1>2, <1>9, <2>1 DEF ReceiveCall, ReplyTo
  <2> QED
    BY <1>6, <2>1, <2>2, DeferSays
<1>10. CASE ReceiveSubscriptionAcknowledge(p, q) /\ ~UNCHANGED io
  <2>1. PICK n \in AsyncSubscriptionsCompleted(p, e) : io' = [io EXCEPT ![p] = n]
    BY <1>2, <1>10 DEF ReceiveSubscriptionAcknowledge
  <2> QED
    BY <1>6, <2>1, AsyncSubscriptionsSays
<1> QED
  BY <1>7, <1>8, <1>9, <1>10

LEMMA AnnouncementStop ==
  ASSUME StopInv, Inv, NEW p \in Participants, NEW q \in Participants,
         ReceiveSubscriptionAnnouncement(p, q)
  PROVE  StopInv' /\ Arriving
<1>1. TypeOK
  BY DEF Inv
<1>2. PICK e \in LifecycleRecord : e = io[p]
  BY <1>1 DEF TypeOK
<1>3. chan[q][p] # <<>> /\ Head(chan[q][p])[1] # "Status"
  BY DEF ReceiveSubscriptionAnnouncement, Receives
<1>4. PICK m \in Messages : m = Job("Acknowledge") /\ m[1] # "Status"
  BY NoStatusJobs DEF MessageNames
<1>5. PICK ch : ch = Taken(p, q)
  OBVIOUS
<1>6. /\ ch \in [Participants -> [Participants -> Seq(Messages)]]
      /\ \A x, y \in Participants :
           ch[x][y] = IF x = q /\ y = p THEN Tail(chan[x][y]) ELSE chan[x][y]
      /\ chan[q][p] \in Seq(Messages)
  BY <1>1, <1>3, <1>5, TakenStep
<1>7. Sent(ch, chan', p, {q}, m)
  BY <1>4, <1>5, <1>6, SendStep DEF ReceiveSubscriptionAnnouncement
<1>8. UNCHANGED <<io, bar, cache, gone>>
  BY DEF ReceiveSubscriptionAnnouncement, monitorVars
<1>9. ASSUME NEW x \in Participants, NEW y \in Participants
      PROVE  /\ Relays(io[x].jobs, chan[x][y], cache[y][x],
                       io[x].jobs, chan'[x][y], cache'[y][x])
             /\ Silent(chan[x][y]) => Silent(chan'[x][y])
  <2>1. PICK c : c = cache[y][x] /\ c = cache'[y][x]
    BY <1>8
  <2>2. PICK js : js = io[x].jobs
    OBVIOUS
  <2>3. PICK old \in Seq(Messages) : old = chan[x][y]
    BY <1>1 DEF TypeOK
  <2>4. PICK mid \in Seq(Messages) : mid = ch[x][y]
    BY <1>6
  <2>5. Relays(js, old, c, js, mid, c) /\ (Silent(old) => Silent(mid))
    <3>1. CASE x = q /\ y = p
      <4>1. old # <<>> /\ mid = Tail(old) /\ Head(old)[1] # "Status"
        BY <1>3, <1>6, <2>3, <2>4, <3>1
      <4> QED
        BY <4>1, RelaysTaken, TailSilent
    <3>2. CASE ~(x = q /\ y = p)
      BY <1>6, <2>3, <2>4, <3>2, RelaysSelf
    <3> QED
      BY <3>1, <3>2
  <2>6. chan'[x][y] \in {mid, Append(mid, m)}
    BY <1>7, <2>4 DEF Sent
  <2>7. Relays(js, mid, c, js, Append(mid, m), c) /\ (Silent(mid) => Silent(Append(mid, m)))
    BY <1>4, RelaysSent, AppendSilent
  <2>8. Relays(js, old, c, js, Append(mid, m), c)
    BY <2>5, <2>7, RelaysTransitive
  <2> QED
    BY <2>1, <2>2, <2>3, <2>5, <2>6, <2>7, <2>8
<1>10. Forwards(p, e.jobs)
  BY <1>2, <1>8, <1>9 DEF Forwards, StopInv
<1>11. io' = [io EXCEPT ![p] = e]
  BY <1>2, <1>8, SameIo
<1>12. e.state = State(p) /\ Says(bar[p].then, e, e) /\ Tells(bar[p].then, e, e)
  BY <1>2, SelfSays DEF State, Says
<1>13. \A x \in Participants : bar'[x].then = bar[x].then
  BY <1>8
<1> QED
  BY <1>1, <1>8, <1>10, <1>11, <1>12, <1>13, TellsStep

-----------------------------------------------------------------------------
(* The barrier of StoppedState. *)

LEMMA StoppingNone ==
  ASSUME NEW st, NEW t, NEW js, NEW ch, NEW c, Stopping(st, t, js, ch, c)
  PROVE  Stopping(st, "none", js, ch, c) /\ \A a : a # "Shutdown" => Stopping(st, a, js, ch, c)
BY DEF Stopping, StopsBehind

(* No call of p is on its way to y when its barrier is complete, so that   *)
(* the status Stopped has arrived there.                                   *)
LEMMA StatusHasArrived ==
  ASSUME StopInv, NEW p \in Participants \ gone, State(p) = "Stopped", bar[p].then = "Shutdown",
         NEW y \in Participants \ gone,
         y # p => ~Has(io[p].jobs, CallToken) /\ ~Has(chan[p][y], CallToken)
  PROVE  cache[y][p] \in {"Stopped", "Shutdown"}
<1>1. Stopping(State(p), bar[p].then, io[p].jobs, chan[p][y], cache[y][p])
  BY DEF StopInv
<1>2. Silent(io[p].jobs) /\ Silent(chan[p][y])
  <2>1. y = p => Silent(chan[p][y])
    BY DEF StopInv
  <2> QED
    BY <1>1, <2>1 DEF Stopping, StopsBehind
<1> QED
  BY <1>1, <1>2 DEF Stopping, UpToDate

(* The state machine after a reply of q, or its end. *)
LEMMA ReturnOneStart ==
  ASSUME StartInv, Inv, NEW p \in Participants, NEW q, NEW e \in ReceiveCallReturn(p, bar[p], q),
         NEW b, b = BarrierWithout(bar[p], q)
  PROVE  /\ OneStart(b.then, e) /\ e \in LifecycleRecord
         /\ \/ e = io[p] /\ b.then = bar[p].then
            \/ /\ bar[p].then \in Actions /\ e \in Complete(p, io[p], bar[p].then)
               /\ b.then = "none" /\ bar[p].expect \subseteq {q}
<1>1. PICK i \in LifecycleRecord : i = io[p]
  BY DEF Inv, TypeOK
<1>2. OneStart(bar[p].then, i)
  BY <1>1 DEF StartInv, Starts
<1>3. PICK o \in [expect : SUBSET Participants, then : Actions \cup {"none"}] : o = bar[p]
  BY DEF Inv, TypeOK
<1>4. o = NoBarrier \/ o.then \in Actions
  BY <1>3 DEF Inv, BarrierTypes
<1>5. CASE o # NoBarrier /\ BarrierWithout(o, q) = NoBarrier
  <2>1. PICK a \in Actions : a = o.then
    BY <1>4, <1>5
  <2>2. e \in Complete(p, i, a) /\ b.then = "none"
    BY <1>1, <1>3, <1>5, <2>1 DEF ReceiveCallReturn, NoBarrier
  <2>3. o.expect \subseteq {q}
    <3>1. CASE o.expect \ {q} # {}
      <4>1. [o EXCEPT !.expect = @ \ {q}] = NoBarrier
        BY <1>5, <3>1 DEF BarrierWithout
      <4>2. [o EXCEPT !.expect = @ \ {q}].expect = o.expect \ {q} /\ NoBarrier.expect = {}
        BY DEF NoBarrier
      <4> QED
        BY <3>1, <4>1, <4>2
    <3>2. CASE o.expect \ {q} = {}
      BY <3>2
    <3> QED
      BY <3>1, <3>2
  <2>4. e \in LifecycleRecord
    BY <2>2, CompleteStep
  <2>5. OneStart("none", e)
    <3>1. CASE a = "Start"
      <4>1. CanStart(i)
        BY <1>2, <1>3, <2>1, <3>1, StartBarrierActive
      <4> QED
        BY <2>2, <3>1, <4>1, StartCompletes
    <3>2. CASE a # "Start"
      <4>1. Goes(p, "none", i, e)
        BY <2>2, <3>2, LaterCompletes DEF Actions
      <4>2. OneStart("none", i)
        BY <1>2, <1>3, <2>1, <3>2, LaterBarrier
      <4> QED
        BY <4>1, <4>2 DEF Goes, Moves, Kept
    <3> QED
      BY <3>1, <3>2
  <2> QED
    BY <1>1, <1>3, <2>1, <2>2, <2>3, <2>4, <2>5
<1>6. CASE ~(o # NoBarrier /\ BarrierWithout(o, q) = NoBarrier)
  <2>1. e = i
    BY <1>1, <1>3, <1>6 DEF ReceiveCallReturn
  <2>2. b.then = o.then
    <3>1. CASE o = NoBarrier
      BY <1>3, <3>1 DEF BarrierWithout, NoBarrier
    <3>2. CASE o # NoBarrier
      <4>1. b = [o EXCEPT !.expect = @ \ {q}]
        BY <1>3, <1>6, <3>2 DEF BarrierWithout
      <4> QED
        BY <1>3, <4>1
    <3> QED
      BY <3>1, <3>2
  <2> QED
    BY <1>1, <1>2, <1>3, <2>1, <2>2
<1> QED
  BY <1>5, <1>6

(* A reply of q, or its end, is handled by p; n follows. *)
LEMMA ReturnStop ==
  ASSUME StopInv, StartInv, Inv, NEW p \in Participants \ gone, NEW q \in Participants,
         NEW e \in ReceiveCallReturn(p, bar[p], q), NEW n,
         \A t : OneStart(t, e) => Says(t, e, n),
         io' = [io EXCEPT ![p] = n], UNCHANGED gone,
         bar' = [bar EXCEPT ![p] = BarrierWithout(bar[p], q)],
         Forwards(p, io[p].jobs),
         q \in gone \/ Has(chan[q][p], ReplyToken)
  PROVE  StopInv' /\ Arriving
<1>1. TypeOK
  BY DEF Inv
<1>2. PICK i \in LifecycleRecord : i = io[p]
  BY <1>1 DEF TypeOK
<1>3. PICK b : b = BarrierWithout(bar[p], q)
  OBVIOUS
<1>4. bar'[p] = b /\ \A x \in Participants : x # p => bar'[x].then = bar[x].then
  BY <1>1, <1>3 DEF TypeOK
<1>5. io'[p] = n /\ \A x \in Participants : x # p => io'[x] = io[x]
  BY <1>1, IoOf
<1>6. /\ OneStart(b.then, e) /\ e \in LifecycleRecord
      /\ \/ e = i /\ b.then = bar[p].then
         \/ /\ bar[p].then \in Actions /\ e \in Complete(p, i, bar[p].then)
            /\ b.then = "none" /\ bar[p].expect \subseteq {q}
  BY <1>2, <1>3, ReturnOneStart
<1>7. Says(b.then, e, n)
  BY <1>6
<1>8. CASE e = i /\ b.then = bar[p].then
  <2>1. Tells(b.then, i, n) /\ (n.state = "Shutdown" => i.state = "Shutdown")
    BY <1>7, <1>8 DEF Says
  <2>2. n.state = "Shutdown" => State(p) # "Stopped"
    BY <1>2, <2>1 DEF State
  <2>3. ASSUME NEW y \in Participants,
               Stopping(State(p), bar[p].then, i.jobs, chan'[p][y], cache'[y][p])
        PROVE  Stopping(n.state, bar'[p].then, n.jobs, chan'[p][y], cache'[y][p])
    BY <1>2, <1>4, <1>8, <2>1, <2>3 DEF Tells, State
  <2> QED
    BY <1>2, <1>4, <1>5, <2>2, <2>3, StopFrame
<1>9. CASE /\ bar[p].then \in Actions /\ e \in Complete(p, i, bar[p].then)
           /\ b.then = "none" /\ bar[p].expect \subseteq {q}
  <2>1. Tells("none", i, e) /\ (bar[p].then # "Shutdown" => Says("none", i, e))
    BY <1>2, <1>9, CompleteTells
  <2>2. Tells("none", i, n) /\ (bar[p].then # "Shutdown" => Says("none", i, n))
    BY <1>7, <1>9, <2>1, TellsTransitive, SaysTransitive DEF Says
  <2>3. ASSUME NEW y \in Participants,
               Stopping(State(p), bar[p].then, i.jobs, chan'[p][y], cache'[y][p])
        PROVE  Stopping(n.state, bar'[p].then, n.jobs, chan'[p][y], cache'[y][p])
    <3>1. Stopping(i.state, "none", i.jobs, chan'[p][y], cache'[y][p])
      BY <1>2, <2>3, StoppingNone DEF State
    <3> QED
      BY <1>4, <1>9, <2>2, <3>1 DEF Tells
  <2>4. ASSUME State(p) = "Stopped", bar[p].then = "Shutdown", NEW y \in Participants \ gone
        PROVE  cache[y][p] \in {"Stopped", "Shutdown"}
    <3>1. ASSUME y # p PROVE ~Has(io[p].jobs, CallToken) /\ ~Has(chan[p][y], CallToken)
      <4>1. OneToken(p, y)
        BY <2>4, <3>1 DEF Inv, Tokens, Peers
      <4>2. y \notin bar[p].expect \/ (y = q /\ Has(chan[y][p], ReplyToken))
        BY <1>9, <2>4
      <4> QED
        BY <4>1, <4>2 DEF OneToken
    <3> QED
      BY <2>4, <3>1, StatusHasArrived
  <2>5. n.state = "Shutdown" => State(p) # "Stopped" \/ NextJob(p, "Abort") \/ Arrived(p)
    <3>1. CASE bar[p].then = "Shutdown"
      BY <2>4, <3>1 DEF Arrived
    <3>2. CASE bar[p].then # "Shutdown"
      BY <1>2, <2>2, <3>2 DEF Says, State
    <3> QED
      BY <3>1, <3>2
  <2> QED
    BY <1>2, <1>4, <1>5, <2>3, <2>5, StopFrame
<1> QED
  BY <1>6, <1>8, <1>9

LEMMA ReceiveReplyStop ==
  ASSUME StopInv, StartInv, Inv, NEW p \in Participants, NEW q \in Participants,
         ReceiveReply(p, q)
  PROVE  StopInv' /\ Arriving
<1>1. /\ TypeOK /\ p \notin gone /\ chan' = Taken(p, q)
      /\ chan[q][p] # <<>> /\ Head(chan[q][p])[1] = "Reply"
  BY DEF Inv, ReceiveReply, Receives
<1>2. /\ bar' = [bar EXCEPT ![p] = BarrierWithout(bar[p], q)]
      /\ UNCHANGED <<cache, gone>>
  BY DEF ReceiveReply, monitorVars
<1>3. PICK e \in ReceiveCallReturn(p, bar[p], q) : io' = [io EXCEPT ![p] = e]
  BY DEF ReceiveReply
<1>4. Has(chan[q][p], ReplyToken)
  <2>1. chan[q][p] \in Seq(Messages)
    BY <1>1 DEF TypeOK
  <2>2. Head(chan[q][p]) \in Messages
    BY <1>1, <2>1
  <2>3. Head(chan[q][p]) = ReplyToken
    BY <1>1, <2>2, StatusParts
  <2> QED
    BY <1>1, <2>1, <2>3, TailHas
<1>5. Forwards(p, io[p].jobs)
  BY <1>1, <1>2, TakenForwards
<1>6. \A t : OneStart(t, e) => Says(t, e, e)
  BY SelfSays
<1> QED
  BY <1>1, <1>2, <1>3, <1>4, <1>5, <1>6, ReturnStop

LEMMA PeerShutdownStop ==
  ASSUME StopInv, StartInv, Inv, NEW p \in Participants, NEW q \in Participants,
         OnPeerShutdown(p, q)
  PROVE  StopInv' /\ Arriving
<1>1. /\ TypeOK /\ p \notin gone /\ chan' = Taken(p, q) /\ UNCHANGED gone
      /\ chan[q][p] # <<>> /\ Head(chan[q][p])[1] = "End"
  BY DEF Inv, OnPeerShutdown, Receives
<1>2. q \in gone
  <2>1. chan[q][p] \in Seq(Messages)
    BY <1>1 DEF TypeOK
  <2>2. Head(chan[q][p]) \in Messages
    BY <1>1, <2>1
  <2>3. Head(chan[q][p]) = Job("End")
    BY <1>1, <2>2, StatusParts
  <2>4. Has(chan[q][p], Job("End"))
    BY <1>1, <2>1, <2>3, TailHas
  <2> QED
    BY <2>4 DEF Inv, ConnectedIn
<1>3. PICK i \in LifecycleRecord : i = io[p]
  BY <1>1 DEF TypeOK
<1>4. CASE io[p].final # NoStatus
  <2>1. UNCHANGED <<io, bar, cache>>
    BY <1>4 DEF OnPeerShutdown, monitorVars
  <2>2. io' = [io EXCEPT ![p] = i]
    BY <1>3, <2>1, SameIo
  <2> QED
    BY <1>1, <1>2, <1>3, <2>1, <2>2, SelfSays, TakeStop
<1>5. CASE io[p].final = NoStatus
  <2>1. PICK before : before = cache[p]
    OBVIOUS
  <2>2. PICK lost : lost = (before[q] \notin {NoStatus, "Shutdown"})
    OBVIOUS
  <2>3. PICK c1 : c1 = IF lost THEN UpdateParticipantStatus(before, q, "Error") ELSE before
    OBVIOUS
  <2>4. PICK y1 : y1 = IF lost THEN SystemStateAfter(before, sys[p], q, "Error") ELSE sys[p]
    OBVIOUS
  <2>5. PICK y2 : y2 = SystemStateWithout(c1, y1, q)
    OBVIOUS
  <2>6. /\ bar' = [bar EXCEPT ![p] = BarrierWithout(bar[p], q)]
        /\ cache' = [cache EXCEPT ![p] = RemoveParticipant(c1, q)]
    BY <1>5, <2>1, <2>2, <2>3 DEF OnPeerShutdown
  <2>7. \E e \in ReceiveCallReturn(p, bar[p], q) :
          \E n \in IF y2 = y1 THEN {e} ELSE NewSystemState(p, e, y2) : io' = [io EXCEPT ![p] = n]
    BY <1>5, <2>1, <2>2, <2>3, <2>4, <2>5 DEF OnPeerShutdown
  <2>8. PICK e \in ReceiveCallReturn(p, bar[p], q) :
          \E n \in IF y2 = y1 THEN {e} ELSE NewSystemState(p, e, y2) : io' = [io EXCEPT ![p] = n]
    BY <2>7
  <2>9. PICK n \in IF y2 = y1 THEN {e} ELSE NewSystemState(p, e, y2) : io' = [io EXCEPT ![p] = n]
    BY <2>8
  <2>10. \A x \in Participants : x # q => c1[x] = cache[p][x]
    BY <1>1, <2>1, <2>3 DEF TypeOK, UpdateParticipantStatus
  <2>11. c1 \in [Participants -> ParticipantStates \cup {NoStatus}]
    BY <1>1, <2>1, <2>3, StateNames DEF TypeOK, UpdateParticipantStatus
  <2>12. \A x, y \in Participants : x # q \/ y # p => cache'[y][x] = cache[y][x]
    BY <1>1, <2>6, <2>10, <2>11 DEF TypeOK, RemoveParticipant
  <2>13. Forwards(p, io[p].jobs)
    BY <1>1, <1>2, <2>12, TakenForwards
  <2>14. e \in LifecycleRecord
    BY <2>8, ReturnOneStart
  <2>15. ASSUME NEW t, OneStart(t, e) PROVE Says(t, e, n)
    BY <2>9, <2>14, <2>15, NewSystemStateSays, SelfSays
  <2> QED
    BY <1>1, <1>2, <2>6, <2>8, <2>9, <2>13, <2>15, ReturnStop
<1> QED
  BY <1>4, <1>5

LEMMA BarrierJobStop ==
  ASSUME StopInv, StartInv, Inv, NEW p \in Participants, BarrierJob(p)
  PROVE  StopInv' /\ Arriving
<1>1. TypeOK /\ p \notin gone /\ io[p].jobs # <<>> /\ Head(io[p].jobs)[1] = "Barrier"
  BY DEF Inv, BarrierJob, NextJob
<1>2. PICK i \in LifecycleRecord : i = io[p]
  BY <1>1 DEF TypeOK
<1>3. PICK e : e = Done(p)
  OBVIOUS
<1>4. /\ e \in LifecycleRecord /\ e.state = State(p) /\ State(p) = i.state
      /\ e.jobs = Tail(i.jobs) /\ i.jobs \in Seq(Jobs) /\ i.jobs # <<>>
  BY <1>1, <1>2, <1>3, DoneGoes DEF State
<1>5. Head(i.jobs) \in Jobs
  BY <1>4
<1>6. PICK a \in Actions : Head(i.jobs) = <<"Barrier", a>>
  BY <1>1, <1>2, <1>5, StatusParts
<1>7. Argument(p) = a
  BY <1>2, <1>6 DEF Argument
<1>8. UNCHANGED <<cache, chan, gone>>
  BY DEF BarrierJob, monitorVars
<1>9. Forwards(p, e.jobs)
  BY <1>1, <1>3, <1>8, DoneForwards
<1>10. CASE bar[p] # NoBarrier
  <2>1. io' = [io EXCEPT ![p] = e] /\ UNCHANGED bar
    BY <1>3, <1>10 DEF BarrierJob
  <2>2. Says(bar[p].then, e, e) /\ Tells(bar[p].then, e, e)
    BY SelfSays DEF Says
  <2>3. \A x \in Participants : bar'[x].then = bar[x].then
    BY <2>1
  <2> QED
    BY <1>1, <1>4, <1>8, <1>9, <2>1, <2>2, <2>3, TellsStep
<1>11. CASE bar[p] = NoBarrier
  <2>1. bar[p].then = "none" /\ bar[p].expect = {}
    BY <1>11 DEF NoBarrier
  <2>2. Stopping(State(p), "none", i.jobs, chan[p][p], cache[p][p]) /\ Silent(chan[p][p])
    BY <1>1, <1>2, <2>1 DEF StopInv
  <2>3. State(p) = "Stopped" /\ a = "Shutdown" => Silent(e.jobs) /\ Silent(i.jobs)
    <3>1. SUFFICES ASSUME State(p) = "Stopped", a = "Shutdown"
                   PROVE  Silent(e.jobs) /\ Silent(i.jobs)
      OBVIOUS
    <3>2. Head(i.jobs) = ShutdownBarrier /\ Head(i.jobs)[1] # "Status"
      BY <1>6, <3>1 DEF ShutdownBarrier
    <3>3. Closes(i.jobs, ShutdownBarrier)
      BY <2>2, <3>1 DEF Stopping, StopsBehind
    <3> QED
      BY <1>4, <3>2, <3>3, TailSilent
  <2>4. CASE conn[p] = {}
    <3>1. PICK n \in Complete(p, e, a) : io' = [io EXCEPT ![p] = n]
      BY <1>3, <1>7, <1>11, <2>4 DEF BarrierJob
    <3>2. UNCHANGED bar
      BY <1>11, <2>4 DEF BarrierJob
    <3>3. Tells("none", e, n) /\ (a # "Shutdown" => Says("none", e, n))
      BY <1>4, <3>1, CompleteTells
    <3>4. io'[p] = n /\ \A x \in Participants : x # p => io'[x] = io[x]
      BY <1>1, <3>1, IoOf
    <3>5. ASSUME NEW y \in Participants,
                 Stopping(State(p), bar[p].then, e.jobs, chan'[p][y], cache'[y][p])
          PROVE  Stopping(n.state, bar'[p].then, n.jobs, chan'[p][y], cache'[y][p])
      BY <1>4, <2>1, <3>2, <3>3, <3>5 DEF Tells
    <3>6. ASSUME State(p) = "Stopped", a = "Shutdown" PROVE Arrived(p)
      <4>1. \A y \in Participants \ gone : y = p
        BY <1>1, <2>4 DEF Inv, ConnectedIn, Peers
      <4>2. cache[p][p] \in {"Stopped", "Shutdown"}
        BY <2>2, <2>3, <3>6 DEF Stopping, UpToDate
      <4> QED
        BY <4>1, <4>2 DEF Arrived
    <3>7. n.state = "Shutdown" => State(p) # "Stopped" \/ NextJob(p, "Abort") \/ Arrived(p)
      <4>1. CASE a = "Shutdown"
        BY <3>6, <4>1
      <4>2. CASE a # "Shutdown"
        BY <1>4, <3>3, <4>2 DEF Says
      <4> QED
        BY <4>1, <4>2
    <3>8. \A x \in Participants : x # p => bar'[x].then = bar[x].then
      BY <3>2
    <3> QED
      BY <1>8, <1>9, <3>4, <3>5, <3>7, <3>8, StopFrame
  <2>5. CASE conn[p] # {}
    <3>1. PICK n : n = Defer(e, CallToken)
      OBVIOUS
    <3>2. /\ bar' = [bar EXCEPT ![p] = [expect |-> conn[p], then |-> a]]
          /\ io' = [io EXCEPT ![p] = n]
      BY <1>3, <1>7, <1>11, <2>5, <3>1 DEF BarrierJob, CallToken
    <3>3. bar'[p].then = a /\ \A x \in Participants : x # p => bar'[x].then = bar[x].then
      BY <1>1, <3>2 DEF TypeOK
    <3>4. io'[p] = n /\ \A x \in Participants : x # p => io'[x] = io[x]
      BY <1>1, <3>2, IoOf
    <3>5. PICK job \in Jobs : job = CallToken /\ job[1] # "Status"
      BY TokenFacts, JobTypes DEF CallToken, Job
    <3>6. \A t : Says(t, e, n)
      BY <1>4, <3>1, <3>5, DeferSays
    <3>7. n.state = State(p) /\ n.jobs = Append(e.jobs, job) /\ e.jobs \in Seq(Jobs)
      BY <1>4, <3>1, <3>5 DEF Defer, LifecycleRecord
    <3>8. Has(n.jobs, CallToken) /\ (Silent(e.jobs) => Silent(n.jobs))
      BY <3>5, <3>7, AppendHas, AppendSilent
    <3>9. ASSUME NEW y \in Participants \ gone,
                 Stopping(State(p), bar[p].then, e.jobs, chan[p][y], cache[y][p])
          PROVE  Stopping(n.state, a, n.jobs, chan[p][y], cache[y][p])
      <4>1. Stopping(n.state, "none", n.jobs, chan[p][y], cache[y][p])
        BY <1>4, <2>1, <3>6, <3>9 DEF Says, Tells
      <4>2. CASE a # "Shutdown"
        BY <4>1, <4>2, StoppingNone
      <4>3. CASE a = "Shutdown"
        <5>1. Closes(chan[p][y], CallToken)
          <6>1. CASE y = p
            BY <2>2, <6>1, SilentFacts
          <6>2. CASE y # p
            <7>1. OneToken(p, y)
              BY <1>1, <3>9, <6>2 DEF Inv, Tokens, Peers
            <7>2. ~Has(chan[p][y], CallToken)
              BY <2>1, <7>1 DEF OneToken
            <7> QED
              BY <7>2, SilentFacts
          <6> QED
            BY <6>1, <6>2
        <5>2. State(p) = "Stopped" => Silent(n.jobs)
          BY <2>3, <3>8, <4>3
        <5> QED
          BY <3>7, <3>8, <4>1, <5>1, <5>2 DEF Stopping, StopsBehind
      <4> QED
        BY <4>2, <4>3
    <3>10. n.state = "Shutdown" => State(p) # "Stopped"
      BY <3>7
    <3>11. ASSUME NEW y \in Participants \ gone',
                  Stopping(State(p), bar[p].then, e.jobs, chan'[p][y], cache'[y][p])
           PROVE  Stopping(n.state, bar'[p].then, n.jobs, chan'[p][y], cache'[y][p])
      BY <1>8, <3>3, <3>9, <3>11
    <3> QED
      BY <1>8, <1>9, <3>3, <3>4, <3>10, <3>11, StopFrame
  <2> QED
    BY <2>4, <2>5
<1> QED
  BY <1>10, <1>11

-----------------------------------------------------------------------------
LEMMA InitStop == Init => StopInv
<1>1. SUFFICES ASSUME Init PROVE StopInv
  OBVIOUS
<1>2. Silent(<<>>)
  BY SilentFacts
<1>3. ASSUME NEW p \in Participants, NEW q \in Participants
      PROVE  /\ chan[p][q] = <<>> /\ io[p].jobs = <<>> /\ State(p) = "Invalid"
  BY <1>1 DEF Init, State
<1>4. \A st : Ends(<<>>, st)
  BY <1>2, SilentFacts
<1>5. \A t, c : Stopping("Invalid", t, <<>>, <<>>, c)
  BY <1>4 DEF Stopping, UpToDate, StopsBehind
<1> QED
  BY <1>2, <1>3, <1>5 DEF StopInv

LEMMA NextStop ==
  Inv /\ StartInv /\ StopInv /\ [Next]_vars => StopInv' /\ (Arriving \/ UNCHANGED vars)
<1>1. SUFFICES ASSUME Inv, StartInv, StopInv, [Next]_vars
               PROVE  StopInv' /\ (Arriving \/ UNCHANGED vars)
  OBVIOUS
<1>2. TypeOK
  BY <1>1 DEF Inv
<1>3. CASE UNCHANGED vars
  <2>1. StopInv'
    BY <1>1, <1>3 DEF StopInv, Stopping, UpToDate, StopsBehind, State, vars, monitorVars
  <2> QED
    BY <1>3, <2>1
<1>4. ASSUME NEW p \in Participants, IoThread(p) PROVE StopInv' /\ Arriving
  BY <1>1, <1>2, <1>4, LifecycleJobsStop, StatusJobStop, SendJobsStop, CallJobStop, BarrierJobStop
     DEF IoThread
<1>5. ASSUME NEW p \in Participants, User(p) PROVE StopInv' /\ Arriving
  <2>1. ASSUME Leave(p) \/ Crash(p) PROVE StopInv' /\ Arriving
    <3>1. \E lossy : Disconnect(p, lossy)
      BY <2>1 DEF Leave, Crash
    <3> QED
      BY <1>1, <1>2, <3>1, DisconnectStop
  <2> QED
    BY <1>1, <1>5, <2>1, UserStop DEF User
<1>6. ASSUME NEW p \in Participants, NEW q \in Participants, Receive(p, q)
      PROVE  StopInv' /\ Arriving
  BY <1>1, <1>2, <1>6, ReceiveStatusStop, MessagesStop, AnnouncementStop, ReceiveReplyStop,
     PeerShutdownStop DEF Receive
<1> QED
  BY <1>1, <1>3, <1>4, <1>5, <1>6 DEF Next

-----------------------------------------------------------------------------
(* The stop of a simulation in which every participant is required: the last *)
(* status on its way is the state of its sender, and the call of the barrier *)
(* of StoppedState follows the status Stopped on every connection.           *)
THEOREM StopInvHolds == AllRequired /\ Spec => []StopInv
<1>1. Init => StopInv
  BY InitStop
<1>2. Inv /\ StartInv /\ StopInv /\ [Next]_vars => StopInv'
  BY NextStop
<1> QED
  BY <1>1, <1>2, InvHolds, StartInvHolds, PTL DEF Spec

(* A participant that stops shuts down only when its status Stopped has     *)
(* arrived at every other one, unless it is aborted: StoppedState waits for *)
(* a barrier that comes behind the status on every connection.              *)
THEOREM StopArrives == AllRequired /\ Spec => StoppingHasArrived
<1>1. Inv /\ StartInv /\ StopInv /\ [Next]_vars => [Arriving]_vars
  BY NextStop
<1>2. [Arriving]_vars
      => [\A p \in Participants :
            State(p) = "Stopped" /\ State(p)' = "Shutdown" /\ ~NextJob(p, "Abort") =>
              \A q \in Participants \ gone : cache[q][p] \in {"Stopped", "Shutdown"}]_vars
  BY DEF Arriving, Arrived
<1> QED
  BY <1>1, <1>2, InvHolds, StartInvHolds, StopInvHolds, PTL DEF Spec, StoppingHasArrived
=============================================================================
