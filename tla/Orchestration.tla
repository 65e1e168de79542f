---------------------------- MODULE Orchestration ----------------------------
(***************************************************************************)
(* The lifecycles of the participants of a simulation: LifecycleService    *)
(* and its state machine (LifecycleManagement, LifecycleStates), the       *)
(* SystemMonitor every participant keeps, the barrier of the               *)
(* request-reply service (ParticipantReplies) that orders one participant's*)
(* next state after the messages it has sent, and the acknowledged         *)
(* subscriptions of VAsioConnection a lifecycle waits for.                 *)
(*                                                                         *)
(* Every state a participant enters is sent as a status to all others and  *)
(* to its own monitor, by a job that is posted to its IO thread.  A        *)
(* coordinated participant is driven by the system state its own monitor   *)
(* derives, an autonomous one goes on by itself.  The IO thread runs the   *)
(* posted jobs in order, and between any two of them it may handle any     *)
(* number of messages of any peer.                                         *)
(*                                                                         *)
(* All participants are connected from the start and know the required     *)
(* participants.  Virtual time is the subject of module TimeSync.          *)
(***************************************************************************)
EXTENDS SystemState

CONSTANTS
  Participants,  \* every process that may take part
  Required,      \* WorkflowConfiguration::requiredParticipantNames
  Coordinated,   \* those with OperationMode::Coordinated; they are required
  First,         \* *_requiredParticipants.begin(): any required participant
  AsyncReady,    \* those with SetCommunicationReadyHandlerAsync
  Faulty,        \* those whose handlers may throw an exception
  Scripts        \* sets of <<call, p>>: what users may do, each once, and
                 \* which participants may crash

ASSUME OrchestrationAssumption ==
  /\ Coordinated \subseteq Required /\ Required \subseteq Participants
  /\ First \in Required
  /\ Scripts \subseteq SUBSET
       ({"Create", "Pause", "Continue", "Stop", "Error", "Abort", "Crash"} \X Participants)

VARIABLES
  life,   \* _isLifecycleStarted and _abortedBeforeLifecycleStart
  io,     \* the lifecycle state machine and the jobs of the IO thread
  bar,    \* ParticipantReplies: _barrierActive, the peers expected, the action
  acks,   \* _pendingAsyncSubscriptionAcknowledges
  cache,  \* cache[p][q]: the status of q in p's SystemStateTracker
  sys,    \* the system state in p's SystemStateTracker
  conn,   \* the peers p has a connection to
  chan,   \* chan[p][q]: messages sent by p that q has not handled
  gone,   \* the participants that have disconnected
  todo    \* the part of the script that has not happened yet

monitorVars == <<cache, sys>>
vars == <<life, io, bar, acks, monitorVars, conn, chan, gone, todo>>

-----------------------------------------------------------------------------
(* "idle": StartLifecycle was not called.  "aborted": nor was it when an     *)
(* abort command arrived.  "starting": it was called.  "started": it has     *)
(* registered its handlers and posted its jobs.  "ignored": it was called    *)
(* after the abort.                                                          *)
Lives == {"idle", "aborted", "starting", "started", "ignored"}

(* What a barrier is for: to leave ServicesCreated, to leave Stopped, to     *)
(* complete the lifecycle.                                                   *)
Actions == {"Start", "Shutdown", "Final"}

Jobs ==
  ({"Initialize", "StartAutonomous", "CompleteReady", "Register", "Command", "Call",
    "Pause", "Continue", "Stop", "Error", "Abort"} \X {""})
  \cup ({"Status"} \X ParticipantStates) \cup ({"Barrier"} \X Actions)
  \cup ({"Reply"} \X Participants)

Job(name) == <<name, "">>

Messages == ({"Subscribe", "Acknowledge", "Call", "Reply", "Abort", "End"} \X {""})
            \cup ({"Status"} \X ParticipantStates)

NoBarrier == [expect |-> {}, then |-> "none"]

(* m is sent to those in qs that can still read it. *)
Send(ch, p, qs, m) ==
  [ch EXCEPT ![p] = [q \in Participants |->
     IF q \in qs \ gone THEN Append(@[q], m) ELSE @[q]]]

-----------------------------------------------------------------------------
(* The lifecycle state machine.  e is the state of one IO thread; an event   *)
(* yields the set of states it may lead to.                                  *)

Enter(e, s) == [e EXCEPT !.state = s, !.jobs = Append(@, <<"Status", s>>)]

Defer(e, job) == [e EXCEPT !.jobs = Append(@, job)]

(* An event that a state does not expect leads to Error. *)
ToError(e) == IF e.state \in {"Shutdown", "Error"} THEN e ELSE Enter(e, "Error")

IfFaulty(p, outcomes) == IF p \in Faulty THEN outcomes ELSE {}

Initialize(e) ==
  CASE e.state = "Invalid" -> Enter(e, "ServicesCreated")
    [] OTHER -> ToError(e)

ReadyToRun(p, e) ==
  CASE e.state = "ReadyToRun" -> {Enter(e, "Running")} \cup IfFaulty(p, {Enter(e, "Error")})
    [] e.state \in {"Running", "Shutdown"} -> {e}
    [] OTHER -> {ToError(e)}

CompleteCommunicationReadyHandler(p, e) ==
  IF e.state # "CommunicationInitialized" THEN {ToError(e)}
  ELSE IF p \in Coordinated THEN {Enter(e, "ReadyToRun")}
  ELSE ReadyToRun(p, Enter(e, "ReadyToRun"))

(* The asynchronous handler is invoked once. *)
TriggerCommunicationReadyHandler(p, e) ==
  IF p \in AsyncReady
  THEN LET i == [e EXCEPT !.ready = IF @ = "no" THEN "invoked" ELSE @] IN
       {i} \cup IF e.ready = "no" THEN IfFaulty(p, {Enter(i, "Error")}) ELSE {}
  ELSE CompleteCommunicationReadyHandler(p, e) \cup IfFaulty(p, {Enter(e, "Error")})

CommunicationInitialized(p, e) ==
  CASE e.state = "CommunicationInitialized" -> TriggerCommunicationReadyHandler(p, e)
    [] e.state \in {"ReadyToRun", "Running", "Shutdown"} -> {e}
    [] OTHER -> {ToError(e)}

(* Whatever the state is by now. *)
SubscriptionsCompleted(p, e) ==
  LET i == Enter([e EXCEPT !.waits = FALSE], "CommunicationInitialized") IN
  IF p \in Coordinated THEN {i} ELSE CommunicationInitialized(p, i)

(* Mutant: the lifecycle that waits for the last acknowledge is not told. *)
MutHandlerNotInvoked(p, e) == {[e EXCEPT !.pending = FALSE]}

AsyncSubscriptionsCompleted(p, e) ==
  {[n EXCEPT !.pending = FALSE] :
     n \in IF e.waits THEN SubscriptionsCompleted(p, e) ELSE {e}}

CommunicationInitializing(p, e) ==
  IF e.pending THEN {[e EXCEPT !.waits = TRUE]} ELSE SubscriptionsCompleted(p, e)

ServicesCreated(p, e) ==
  CASE e.state = "ServicesCreated" -> {Defer(e, <<"Barrier", "Start">>)}
    [] e.state = "CommunicationInitializing" -> CommunicationInitializing(p, e)
    [] OTHER -> {ToError(e)}

(* Mutant: the future is set without a barrier. *)
MutFinalWithoutBarrier(e) ==
  CASE e.state \in {"Stopped", "Error"} ->
         [Enter(Enter(e, "ShuttingDown"), "Shutdown") EXCEPT !.final = "Shutdown"]
    [] e.state = "Shutdown" -> [e EXCEPT !.final = "Shutdown"]
    [] OTHER -> ToError(e)

ShutdownParticipant(e) ==
  CASE e.state \in {"Stopped", "Error"} ->
         Defer(Enter(Enter(e, "ShuttingDown"), "Shutdown"), <<"Barrier", "Final">>)
    [] e.state = "Shutdown" -> Defer(e, <<"Barrier", "Final">>)
    [] OTHER -> ToError(e)

(* Stopping is asked for in vain before the participant runs. *)
StopSimulation(p, e) ==
  CASE e.state \in {"Running", "Paused"} ->
         LET s == Enter(e, "Stopping") IN
         {Defer(Enter(s, "Stopped"), <<"Barrier", "Shutdown">>)}
           \cup IfFaulty(p, {Enter(s, "Error")})
    [] e.state = "Stopped" -> {Defer(e, <<"Barrier", "Shutdown">>)}
    [] e.state = "Error" -> {ShutdownParticipant(e)}
    [] OTHER -> {e}

AbortSimulation(e) ==
  IF e.state = "Shutdown" THEN e
  ELSE Defer(Enter(Enter(e, "Aborting"), "Shutdown"), <<"Barrier", "Final">>)

(* The future of StartLifecycle is set and the connection told to ignore     *)
(* the end of others.                                                        *)
SetFinalStatePromise(e) ==
  IF e.state = "Error" THEN e
  ELSE [e EXCEPT !.final = IF @ = NoStatus THEN e.state ELSE @]

(* The barrier for action a is complete. *)
Complete(p, e, a) ==
  CASE a = "Start" -> CommunicationInitializing(p, Enter(e, "CommunicationInitializing"))
    [] a = "Shutdown" -> {ShutdownParticipant(e)}
    [] a = "Final" -> {SetFinalStatePromise(e)}

(* The own monitor reports a new system state. *)
NewSystemState(p, e, s) ==
  IF p \notin Coordinated \/ life[p] # "started" THEN {e}
  ELSE CASE s = "ServicesCreated" -> ServicesCreated(p, e)
         [] s = "CommunicationInitialized" -> CommunicationInitialized(p, e)
         [] s = "ReadyToRun" -> ReadyToRun(p, e)
         [] s = "Stopping" /\ e.state \in {"Running", "Paused"} -> StopSimulation(p, e)
         [] OTHER -> {e}

-----------------------------------------------------------------------------
(* The monitor of p. *)

UpdateParticipantStatus(c, q, s) == IF c[q] = "Shutdown" THEN c ELSE [c EXCEPT ![q] = s]

(* The system state after q's status s has arrived. *)
SystemStateAfter(c, old, q, s) ==
  IF q \in Required /\ c[q] \notin {"Shutdown", s}
  THEN ComputeSystemState(UpdateParticipantStatus(c, q, s), Required, old, s)
  ELSE old

RemoveParticipant(c, q) == [c EXCEPT ![q] = NoStatus]

(* Mutant: the state of any required participant becomes the system state. *)
MutStateOfAny(c, old, q) == IF c[q] = NoStatus THEN old ELSE RemoveParticipant(c, q)[First]

SystemStateWithout(c, old, q) ==
  IF c[q] = NoStatus THEN old
  ELSE LET r == RemoveParticipant(c, q) IN
       ComputeSystemState(r, Required, old, IF r[First] = NoStatus THEN "Invalid" ELSE r[First])

(* p's monitor receives the status s of q, e being p's state machine. *)
ReceiveStatus(p, q, s, e) ==
  LET y == SystemStateAfter(cache[p], sys[p], q, s) IN
  /\ cache' = [cache EXCEPT ![p] = UpdateParticipantStatus(@, q, s)]
  /\ sys' = [sys EXCEPT ![p] = y]
  /\ \E n \in IF y = sys[p] THEN {e} ELSE NewSystemState(p, e, y) : io' = [io EXCEPT ![p] = n]

-----------------------------------------------------------------------------
Init ==
  /\ life = [p \in Participants |-> "idle"]
  /\ io = [p \in Participants |->
       [state |-> "Invalid", ready |-> "no", pending |-> FALSE, waits |-> FALSE,
        final |-> NoStatus, jobs |-> <<>>]]
  /\ bar = [p \in Participants |-> NoBarrier]
  /\ acks = [p \in Participants |-> {}]
  /\ cache = [p \in Participants |-> [q \in Participants |-> NoStatus]]
  /\ sys = [p \in Participants |-> "Invalid"]
  /\ conn = [p \in Participants |-> Participants \ {p}]
  /\ chan = [p \in Participants |-> [q \in Participants |-> <<>>]]
  /\ gone = {}
  /\ todo \in Scripts

-----------------------------------------------------------------------------
(* The calls of user threads. *)

(* A lifecycle that was aborted before only posts the abort. *)
StartLifecycle(p) ==
  /\ p \notin gone
  /\ \/ /\ life[p] = "idle"
        /\ life' = [life EXCEPT ![p] = "starting"] /\ UNCHANGED io
     \/ /\ life[p] = "aborted"
        /\ life' = [life EXCEPT ![p] = "ignored"]
        /\ io' = [io EXCEPT ![p] = Defer(@, Job("Abort"))]
  /\ UNCHANGED <<bar, acks, monitorVars, conn, chan, gone, todo>>

(* The rest of StartLifecycle. *)
PublishLifecycle(p) ==
  /\ p \notin gone /\ life[p] = "starting"
  /\ life' = [life EXCEPT ![p] = "started"]
  /\ io' = [io EXCEPT ![p] =
       IF p \in Coordinated THEN Defer(@, Job("Initialize"))
       ELSE Defer(Defer(@, Job("Initialize")), Job("StartAutonomous"))]
  /\ UNCHANGED <<bar, acks, monitorVars, conn, chan, gone, todo>>

UserCall(p, call) ==
  /\ p \notin gone /\ <<call, p>> \in todo
  /\ todo' = todo \ {<<call, p>>}
  /\ UNCHANGED <<bar, acks, monitorVars, conn, chan, gone>>

(* Pause, Continue, Stop and ReportError post a job. *)
Request(p) ==
  \E call \in {"Pause", "Continue", "Stop", "Error"} :
    /\ UserCall(p, call)
    /\ io' = [io EXCEPT ![p] = Defer(@, Job(call))]
    /\ UNCHANGED life

(* A controller that subscribes asynchronously is created. *)
CreateController(p) ==
  /\ UserCall(p, "Create")
  /\ io' = [io EXCEPT ![p] = Defer([@ EXCEPT !.pending = TRUE], Job("Register"))]
  /\ UNCHANGED life

(* SystemController::AbortSimulation: the own lifecycle, then all others. *)
RequestAbort(p) ==
  /\ UserCall(p, "Abort")
  /\ IF life[p] \in {"idle", "aborted"}
     THEN /\ life' = [life EXCEPT ![p] = "aborted"]
          /\ io' = [io EXCEPT ![p] = Defer(@, Job("Command"))]
     ELSE /\ io' = [io EXCEPT ![p] = Defer(Defer(@, Job("Abort")), Job("Command"))]
          /\ UNCHANGED life

CompleteCommunicationReadyHandlerAsync(p) ==
  /\ p \notin gone /\ io[p].ready = "invoked"
  /\ io' = [io EXCEPT ![p] = Defer([@ EXCEPT !.ready = "completed"], Job("CompleteReady"))]
  /\ UNCHANGED <<life, bar, acks, monitorVars, conn, chan, gone, todo>>

-----------------------------------------------------------------------------
(* The jobs of the IO thread. *)

NextJob(p, name) == p \notin gone /\ io[p].jobs # <<>> /\ Head(io[p].jobs)[1] = name

Argument(p) == Head(io[p].jobs)[2]

(* The IO thread without the job it is working on. *)
Done(p) == [io[p] EXCEPT !.jobs = Tail(@)]

(* A job that only concerns the state machine. *)
Lifecycle(p, outcomes) ==
  /\ \E e \in outcomes : io' = [io EXCEPT ![p] = e]
  /\ UNCHANGED <<life, bar, acks, monitorVars, conn, chan, gone, todo>>

InitializeJob(p) == NextJob(p, "Initialize") /\ Lifecycle(p, {Initialize(Done(p))})

StartAutonomousJob(p) == NextJob(p, "StartAutonomous") /\ Lifecycle(p, ServicesCreated(p, Done(p)))

CompleteReadyJob(p) ==
  NextJob(p, "CompleteReady") /\ Lifecycle(p, CompleteCommunicationReadyHandler(p, Done(p)))

(* Pause and Continue report an error in any other state, which is deferred. *)
PauseJob(p) ==
  /\ NextJob(p, "Pause")
  /\ Lifecycle(p, {IF io[p].state = "Running" THEN Enter(Done(p), "Paused")
                   ELSE Defer(Done(p), Job("Error"))})

ContinueJob(p) ==
  /\ NextJob(p, "Continue")
  /\ Lifecycle(p, {IF io[p].state = "Paused" THEN Enter(Done(p), "Running")
                   ELSE Defer(Done(p), Job("Error"))})

StopJob(p) == NextJob(p, "Stop") /\ Lifecycle(p, StopSimulation(p, Done(p)))

(* An error is ignored before StartLifecycle. *)
ErrorJob(p) ==
  /\ NextJob(p, "Error")
  /\ Lifecycle(p, {IF life[p] \in {"idle", "aborted"} THEN Done(p) ELSE ToError(Done(p))})

AbortJob(p) == NextJob(p, "Abort") /\ Lifecycle(p, {AbortSimulation(Done(p))})

(* A status is sent to the others, then delivered to the own monitor. *)
StatusJob(p) ==
  /\ NextJob(p, "Status")
  /\ chan' = Send(chan, p, conn[p], Head(io[p].jobs))
  /\ ReceiveStatus(p, p, Argument(p), Done(p))
  /\ UNCHANGED <<life, bar, acks, conn, gone, todo>>

SendJob(p, qs, m) ==
  /\ chan' = Send(chan, p, qs, m)
  /\ io' = [io EXCEPT ![p] = Done(p)]
  /\ UNCHANGED <<life, bar, acks, monitorVars, conn, gone, todo>>

CommandJob(p) == NextJob(p, "Command") /\ SendJob(p, conn[p], Job("Abort"))
CallJob(p) == NextJob(p, "Call") /\ SendJob(p, conn[p], Job("Call"))
ReplyJob(p) == NextJob(p, "Reply") /\ SendJob(p, {Argument(p)}, Job("Reply"))

(* A controller is registered: the connected peers are asked to acknowledge  *)
(* its subscription.                                                         *)
RegisterJob(p) ==
  /\ NextJob(p, "Register")
  /\ acks' = [acks EXCEPT ![p] = conn[p]]
  /\ chan' = Send(chan, p, conn[p], Job("Subscribe"))
  /\ \E e \in IF conn[p] = {} THEN AsyncSubscriptionsCompleted(p, Done(p)) ELSE {Done(p)} :
       io' = [io EXCEPT ![p] = e]
  /\ UNCHANGED <<life, bar, monitorVars, conn, gone, todo>>

(* Mutants: the replies are not waited for; a reply of its own is. *)
MutNoCall(p) ==
  /\ NextJob(p, "Barrier")
  /\ \E e \in Complete(p, Done(p), Argument(p)) : io' = [io EXCEPT ![p] = e]
  /\ UNCHANGED <<life, bar, acks, monitorVars, conn, chan, gone, todo>>

MutExpectsItself(p) ==
  /\ NextJob(p, "Barrier")
  /\ IF bar[p] = NoBarrier
     THEN /\ bar' = [bar EXCEPT ![p] = [expect |-> conn[p] \cup {p}, then |-> Argument(p)]]
          /\ io' = [io EXCEPT ![p] = Defer(Done(p), Job("Call"))]
     ELSE io' = [io EXCEPT ![p] = Done(p)] /\ UNCHANGED bar
  /\ UNCHANGED <<life, acks, monitorVars, conn, chan, gone, todo>>

(* CallAfterAllParticipantsReplied: a barrier that is active is not joined   *)
(* by another one, whose action is dropped.                                  *)
BarrierJob(p) ==
  /\ NextJob(p, "Barrier")
  /\ IF bar[p] = NoBarrier
     THEN IF conn[p] = {}
          THEN /\ \E e \in Complete(p, Done(p), Argument(p)) : io' = [io EXCEPT ![p] = e]
               /\ UNCHANGED bar
          ELSE /\ bar' = [bar EXCEPT ![p] = [expect |-> conn[p], then |-> Argument(p)]]
               /\ io' = [io EXCEPT ![p] = Defer(Done(p), Job("Call"))]
     ELSE io' = [io EXCEPT ![p] = Done(p)] /\ UNCHANGED bar
  /\ UNCHANGED <<life, acks, monitorVars, conn, chan, gone, todo>>

-----------------------------------------------------------------------------
(* The messages of a peer q, handled by the IO thread of p. *)

Receives(p, q, kind) ==
  p \notin gone /\ chan[q][p] # <<>> /\ Head(chan[q][p])[1] = kind

Taken(p, q) == [chan EXCEPT ![q][p] = Tail(@)]

ReceiveParticipantStatus(p, q) ==
  /\ Receives(p, q, "Status")
  /\ ReceiveStatus(p, q, Head(chan[q][p])[2], io[p])
  /\ chan' = Taken(p, q)
  /\ UNCHANGED <<life, bar, acks, conn, gone, todo>>

ReceiveSystemCommand(p, q) ==
  /\ Receives(p, q, "Abort")
  /\ chan' = Taken(p, q)
  /\ IF life[p] \in {"idle", "aborted"}
     THEN life' = [life EXCEPT ![p] = "aborted"] /\ UNCHANGED io
     ELSE io' = [io EXCEPT ![p] = Defer(@, Job("Abort"))] /\ UNCHANGED life
  /\ UNCHANGED <<bar, acks, monitorVars, conn, gone, todo>>

ReceiveCall(p, q) ==
  /\ Receives(p, q, "Call")
  /\ chan' = Taken(p, q)
  /\ io' = [io EXCEPT ![p] = Defer(@, <<"Reply", q>>)]
  /\ UNCHANGED <<life, bar, acks, monitorVars, conn, gone, todo>>

(* q need not be waited for any longer: what is left of the barrier, and     *)
(* what its completion does.                                                 *)
BarrierWithout(b, q) ==
  IF b.expect \ {q} = {} THEN NoBarrier ELSE [b EXCEPT !.expect = @ \ {q}]

ReceiveCallReturn(p, b, q) ==
  IF b # NoBarrier /\ BarrierWithout(b, q) = NoBarrier THEN Complete(p, io[p], b.then) ELSE {io[p]}

ReceiveReply(p, q) ==
  /\ Receives(p, q, "Reply")
  /\ chan' = Taken(p, q)
  /\ \E e \in ReceiveCallReturn(p, bar[p], q) : io' = [io EXCEPT ![p] = e]
  /\ bar' = [bar EXCEPT ![p] = BarrierWithout(@, q)]
  /\ UNCHANGED <<life, acks, monitorVars, conn, gone, todo>>

ReceiveSubscriptionAnnouncement(p, q) ==
  /\ Receives(p, q, "Subscribe")
  /\ chan' = Send(Taken(p, q), p, {q}, Job("Acknowledge"))
  /\ UNCHANGED <<life, io, bar, acks, monitorVars, conn, gone, todo>>

(* The last acknowledge lets a lifecycle that waits for it go on. *)
ReceiveSubscriptionAcknowledge(p, q) ==
  /\ Receives(p, q, "Acknowledge")
  /\ chan' = Taken(p, q)
  /\ acks' = [acks EXCEPT ![p] = @ \ {q}]
  /\ IF acks[p] \ {q} # {} THEN UNCHANGED io
     ELSE \E e \in AsyncSubscriptionsCompleted(p, io[p]) : io' = [io EXCEPT ![p] = e]
  /\ UNCHANGED <<life, bar, monitorVars, conn, gone, todo>>

(* The connection of q has ended, which is ignored after the own lifecycle.  *)
(* The request-reply service is told first.  The monitor then reports an     *)
(* error for a participant that has not shut down, and removes it.           *)
OnPeerShutdown(p, q) ==
  LET before == cache[p]
      lost == before[q] \notin {NoStatus, "Shutdown"}
      c1 == IF lost THEN UpdateParticipantStatus(before, q, "Error") ELSE before
      y1 == IF lost THEN SystemStateAfter(before, sys[p], q, "Error") ELSE sys[p]
      y2 == SystemStateWithout(c1, y1, q)
  IN
  /\ Receives(p, q, "End")
  /\ chan' = Taken(p, q)
  /\ IF io[p].final # NoStatus THEN UNCHANGED <<io, bar, monitorVars, conn>>
     ELSE /\ bar' = [bar EXCEPT ![p] = BarrierWithout(@, q)]
          /\ cache' = [cache EXCEPT ![p] = RemoveParticipant(c1, q)]
          /\ sys' = [sys EXCEPT ![p] = y2]
          /\ conn' = [conn EXCEPT ![p] = @ \ {q}]
          /\ \E e \in ReceiveCallReturn(p, bar[p], q) :
               \E n \in IF y2 = y1 THEN {e} ELSE NewSystemState(p, e, y2) :
                 io' = [io EXCEPT ![p] = n]
  /\ UNCHANGED <<life, acks, gone, todo>>

-----------------------------------------------------------------------------
(* The end of a participant. *)

(* What was sent to p is lost; lossy: those that lose what p sent, too. *)
Disconnect(p, lossy) ==
  /\ gone' = gone \cup {p}
  /\ chan' = [a \in Participants |-> [b \in Participants |->
       IF b = p \/ b \in gone THEN <<>>
       ELSE IF a = p THEN Append(IF b \in lossy THEN <<>> ELSE chan[p][b], Job("End"))
       ELSE chan[a][b]]]
  /\ io' = [io EXCEPT ![p].jobs = <<>>]
  /\ UNCHANGED <<life, bar, acks, monitorVars, conn>>

(* The user destroys the participant when the future is set. *)
Leave(p) ==
  p \notin gone /\ io[p].final # NoStatus /\ Disconnect(p, {}) /\ UNCHANGED todo

Crash(p) ==
  /\ p \notin gone /\ <<"Crash", p>> \in todo
  /\ todo' = todo \ {<<"Crash", p>>}
  /\ \E lossy \in SUBSET (Participants \ {p}) : Disconnect(p, lossy)

-----------------------------------------------------------------------------
IoThread(p) ==
  \/ InitializeJob(p) \/ StartAutonomousJob(p) \/ CompleteReadyJob(p)
  \/ PauseJob(p) \/ ContinueJob(p) \/ StopJob(p) \/ ErrorJob(p) \/ AbortJob(p)
  \/ StatusJob(p) \/ CommandJob(p) \/ CallJob(p) \/ ReplyJob(p)
  \/ RegisterJob(p) \/ BarrierJob(p)

Receive(p, q) ==
  \/ ReceiveParticipantStatus(p, q) \/ ReceiveSystemCommand(p, q)
  \/ ReceiveCall(p, q) \/ ReceiveReply(p, q)
  \/ ReceiveSubscriptionAnnouncement(p, q) \/ ReceiveSubscriptionAcknowledge(p, q)
  \/ OnPeerShutdown(p, q)

User(p) ==
  \/ StartLifecycle(p) \/ PublishLifecycle(p) \/ CreateController(p)
  \/ Request(p) \/ RequestAbort(p)
  \/ CompleteCommunicationReadyHandlerAsync(p) \/ Leave(p) \/ Crash(p)

Next ==
  \/ \E p \in Participants : IoThread(p) \/ User(p)
  \/ \E p, q \in Participants : Receive(p, q)

(* The IO thread works as long as there is a job or a message, in whatever   *)
(* order; a lifecycle that can be started is started, an asynchronous        *)
(* handler is completed.  Each of these steps uses up a message, a job or a  *)
(* call, so fairness of all of them together lets each one happen.  Nothing  *)
(* is assumed of other calls, of crashes and of leaving.                     *)
Fairness ==
  WF_vars(\E p \in Participants :
            \/ IoThread(p) \/ \E q \in Participants : Receive(p, q)
            \/ StartLifecycle(p) \/ PublishLifecycle(p)
            \/ CompleteCommunicationReadyHandlerAsync(p))

Spec == Init /\ [][Next]_vars /\ Fairness
-----------------------------------------------------------------------------
(* Properties. *)

State(p) == io[p].state

LifecycleRecord ==
  [state : ParticipantStates, ready : {"no", "invoked", "completed"},
   pending : BOOLEAN, waits : BOOLEAN, final : ParticipantStates \cup {NoStatus},
   jobs : Seq(Jobs)]

(* Every variable keeps its type. *)
TypeOK ==
  /\ life \in [Participants -> Lives]
  /\ io \in [Participants -> LifecycleRecord]
  /\ bar \in [Participants -> [expect : SUBSET Participants, then : Actions \cup {"none"}]]
  /\ acks \in [Participants -> SUBSET Participants]
  /\ cache \in [Participants -> [Participants -> ParticipantStates \cup {NoStatus}]]
  /\ sys \in [Participants -> ParticipantStates]
  /\ conn \in [Participants -> SUBSET Participants]
  /\ chan \in [Participants -> [Participants -> Seq(Messages)]]
  /\ gone \subseteq Participants
  /\ todo \subseteq UNION Scripts

(* OperationMode::Coordinated: a coordinated participant runs only after     *)
(* every required participant has completed its CommunicationReadyHandler.   *)
StartTogether ==
  \A p \in Coordinated, r \in Required :
    State(p) \in {"Running", "Paused"} =>
      State(r) \notin (StartingStates \ {"ReadyToRun"}) \cup {"Invalid"}

(* The barrier of ShutdownState does its work: when the future of            *)
(* StartLifecycle is set, every other monitor knows that the participant has *)
(* shut down, so the end of its connection is not taken for a loss.          *)
FinalIsKnown ==
  \A p, q \in Participants :
    io[p].final # NoStatus /\ p \notin gone /\ q \notin gone /\ io[q].final = NoStatus
      => cache[q][p] = "Shutdown"

(* The end of a participant that does not crash is never taken for a lost    *)
(* connection: OnParticipantDisconnected reports the error of a monitor only *)
(* for those that did not shut down.                                         *)
NoFalseAlarm ==
  [][\A p, q \in Participants :
       conn'[p] = conn[p] \ {q} /\ q \in conn[p] /\ io[q].final # NoStatus =>
         cache[p][q] \in {NoStatus, "Shutdown"}]_vars

(* The barrier of StoppedState does its work: the status Stopped of a        *)
(* participant has arrived everywhere before it shuts down, unless it is     *)
(* aborted. A monitor that holds Shutdown saw it already: the completion of  *)
(* the first barrier of an aborted participant takes it back to work, and    *)
(* the monitor of another ignores all that follows Shutdown.                 *)
StoppingHasArrived ==
  [][\A p \in Participants :
       State(p) = "Stopped" /\ State(p)' = "Shutdown" /\ ~NextJob(p, "Abort") =>
         \A q \in Participants \ gone : cache[q][p] \in {"Stopped", "Shutdown"}]_vars

(* Every lifecycle that is started gets to Running: the wait for the         *)
(* acknowledges, the barrier and the system state of the required            *)
(* participants all come to an end.                                          *)
EverybodyRuns ==
  \A p \in Participants : life[p] = "started" ~> State(p) = "Running"

(* The barrier before CommunicationInitializing is asked for or active. *)
StartsUp(p) ==
  bar[p].then = "Start" \/ \E i \in DOMAIN io[p].jobs : io[p].jobs[i] = <<"Barrier", "Start">>

(* A participant that has stopped, or is aborted after its first barrier,    *)
(* while it runs or in an error, completes its lifecycle, whatever the       *)
(* others do: the barriers of two participants never wait for each other,    *)
(* nor for one that is gone.                                                 *)
StopCompletes ==
  \A p \in Participants :
    \/ State(p) = "Stopped"
    \/ /\ State(p) \in {"Running", "Paused", "Error"} /\ ~StartsUp(p)
       /\ \E i \in DOMAIN io[p].jobs : io[p].jobs[i] = Job("Abort")
    ~> io[p].final = "Shutdown" \/ p \in gone
=============================================================================
