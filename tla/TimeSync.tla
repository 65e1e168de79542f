------------------------------ MODULE TimeSync ------------------------------
(***************************************************************************)
(* The distributed virtual time of SIL Kit: TimeSyncService with its       *)
(* SynchronizedPolicy, the TimeConfiguration it keeps, and the parts of    *)
(* the LifecycleService that start, pause, stop and abort it.              *)
(*                                                                         *)
(* Every participant announces, in a NextSimTask message, the virtual time *)
(* of the simulation step it wants to execute next, and executes it once   *)
(* no participant it knows has announced an earlier one.  There is no      *)
(* central clock.  A participant may join when the others have already     *)
(* advanced (hop on) and may leave or crash at any time (hop off).         *)
(*                                                                         *)
(* One IO thread per participant runs the deferred jobs (jobs, a FIFO      *)
(* queue: VAsioConnection::ExecuteDeferred) and handles the messages of    *)
(* its peers (chan, one FIFO queue per connection).  User threads call     *)
(* Pause, Continue, Stop, SetPeriod and CompleteSimulationStep between any *)
(* two of these.  A blocking simulation step handler runs on the IO        *)
(* thread: until it returns, the IO thread does nothing else.              *)
(***************************************************************************)
EXTENDS Integers, Sequences, FiniteSets

CONSTANTS
  Participants,  \* every process that may take part
  Coordinated,   \* those with OperationMode::Coordinated; they are required
  Blocking,      \* those that use SetSimulationStepHandler, not ...Async
  StepSizes,     \* StepSizes[p]: the step durations p's user may choose
  Pausers,       \* those whose user may call Pause
  Stoppers,      \* those whose user may call Stop
  Crashers,      \* those that may disappear without a shutdown
  MaxTime,       \* bound: no step starts later than this
  MaxPauses      \* bound: number of calls of Pause, all participants together

ASSUME ParticipantsAssumption ==
  /\ Coordinated \subseteq Participants
  /\ Blocking \subseteq Participants
  /\ StepSizes \in [Participants -> SUBSET (Nat \ {0})]

ASSUME BoundsAssumption == MaxTime \in Nat /\ MaxPauses \in Nat

VARIABLES
  phase,           \* the lifecycle state, as far as time depends on it
  stopRequested,   \* LifecycleService::_stopRequested
  pauseRequested,  \* LifecycleService::_pauseRequested
  waiting,         \* the peers whose reply the ServicesCreated barrier awaits
  sysError,        \* the own SystemMonitor reports SystemState::Error
  jobs,            \* deferred jobs of the IO thread
  chan,            \* chan[p][q]: messages sent by p that q has not handled
  cur,             \* _currentTask.timePoint
  next,            \* _myNextTask.timePoint
  dur,             \* _myNextTask.duration
  known,           \* the keys of _otherNextTasks
  other,           \* the values of _otherNextTasks
  hoppedOn,        \* _hoppedOn
  step,            \* what became of the step started last
  lastSent,        \* _lastSentNextSimTask
  pauses           \* calls of Pause so far

lifecycleVars == <<phase, stopRequested, pauseRequested, waiting, sysError>>
timeVars == <<cur, next, dur, hoppedOn, step, lastSent>>
viewVars == <<known, other>>
vars == <<lifecycleVars, jobs, chan, timeVars, viewVars, pauses>>

-----------------------------------------------------------------------------
(* Data. *)

(* "None": StartLifecycle was not called, there is no policy.  "Created",    *)
(* "Barrier": ServicesCreated, before and after the call to all participants.*)
(* "Ready": up to ReadyToRun.  "Stopped": Stopping up to Shutdown, and       *)
(* Aborting.  "Off": the connections are closed.                             *)
Phases == {"None", "Created", "Barrier", "Ready", "Running", "Paused",
           "Stopped", "Error", "Off"}

(* "task": the blocking handler is running.  "open": the asynchronous step   *)
(* has started and its user has not called CompleteSimulationStep yet.       *)
(* "completing": the user has called it.  "stuck": the guard of an           *)
(* asynchronous step was set but the hop-on check kept the handler from      *)
(* being called.  In the last three _isExecutingSimStep is set.              *)
StepStates == {"none", "task", "open", "completing", "stuck"}

Jobs == {"Process", "Request", "Complete", "Pause", "Continue", "Stop",
         "Abort", "Error"}

Kinds == {"Created", "Call", "Reply", "Next", "Abort", "Bye", "Lost"}

Task == [tp : Nat \cup {-1}, dur : Nat]

Message == [kind : Kinds, task : Task]

NoTask == [tp |-> -1, dur |-> 0]

Signal(kind) == [kind |-> kind, task |-> NoTask]

NextSimTask(tp, d) == [kind |-> "Next", task |-> [tp |-> tp, dur |-> d]]

(* The processes p has a connection to: a peer that is gone stays one until  *)
(* p has read the end of its stream.                                         *)
Peers(p) == {q \in Participants \ {p} : phase[q] # "Off" \/ chan[q][p] # <<>>}

(* A message of p to every process that can still read it.  SendMsg posts    *)
(* it to the IO thread first; as all messages of p take this way, their      *)
(* order on a connection is the order in which they are sent here.           *)
Broadcast(ch, p, m) ==
  [ch EXCEPT ![p] = [q \in Participants |->
     IF q # p /\ phase[q] # "Off" THEN Append(@[q], m) ELSE @[q]]]

Post(js, p, job) == [js EXCEPT ![p] = Append(@, job)]

IsExecutingSimStep(p) == step[p] \in {"open", "completing", "stuck"}

-----------------------------------------------------------------------------
(* Conditions. *)

(* The guard shared by RequestNextStep and IsTimeAdvancePossible. *)
MayAdvance(p) ==
  phase[p] = "Running" /\ ~stopRequested[p] /\ ~pauseRequested[p]

(* Mutants: silent participants do not count; an earlier step is tolerated    *)
(* when it reaches up to the own one.                                        *)
MutSilentIgnored(p, kn, oth) == \E q \in kn : 0 <= oth[q].tp /\ oth[q].tp < next[p]
MutOverlapTolerated(p, kn, oth) == \E q \in kn : oth[q].tp + oth[q].dur < next[p]

OtherParticipantHasLowerTimepoint(p, kn, oth) ==
  \E q \in kn : oth[q].tp < next[p]

(* kn, oth: the view of p, which the handler may just have updated. *)
IsTimeAdvancePossible(p, kn, oth) ==
  /\ MayAdvance(p)
  /\ ~(p \in Coordinated /\ sysError[p])
  /\ ~OtherParticipantHasLowerTimepoint(p, kn, oth)
  /\ next[p] <= MaxTime

(* The others that have advanced further than their step size. *)
AlreadyAdvanced(kn, oth) == {q \in kn : oth[q].tp > oth[q].dur}

HandleHopOn(p, kn, oth) ==
  ~hoppedOn[p] /\ cur[p] = -1 /\ AlreadyAdvanced(kn, oth) # {}

(* Where the step that is due takes place: at the own next time point or,    *)
(* hopping on, at the smallest time among those that have advanced.          *)
IsStepTime(p, kn, oth, t) ==
  IF HandleHopOn(p, kn, oth)
  THEN \E q \in AlreadyAdvanced(kn, oth) :
         /\ t = oth[q].tp
         /\ \A r \in AlreadyAdvanced(kn, oth) : t <= oth[r].tp
  ELSE t = next[p]

-----------------------------------------------------------------------------
(* What handlers have in common.  ch and js are the queues after the         *)
(* handler has taken its own input from them.                                *)

RequestNextStep(p, ch, js, nx, ph) ==
  IF ph = "Running" /\ ~stopRequested[p] /\ ~pauseRequested[p]
  THEN /\ chan' = IF lastSent[p] # nx
                  THEN Broadcast(ch, p, NextSimTask(nx, dur[p])) ELSE ch
       /\ lastSent' = [lastSent EXCEPT ![p] = nx]
       /\ jobs' = Post(js, p, "Process")
  ELSE chan' = ch /\ jobs' = js /\ UNCHANGED lastSent

(* Mutants: the next step is computed before the current one is replaced; it  *)
(* is not computed; it is announced before the current one is completed.     *)
MutNextFromOldStep(p, t, ch, js) ==
  /\ cur' = [cur EXCEPT ![p] = t]
  /\ next' = [next EXCEPT ![p] = IF cur[p] = -1 THEN cur[p] ELSE cur[p] + dur[p]]
  /\ step' = [step EXCEPT ![p] = IF p \in Blocking THEN "task" ELSE "open"]
  /\ chan' = ch /\ jobs' = js
  /\ UNCHANGED lastSent
MutNextNotAdvanced(p, t, ch, js) ==
  /\ cur' = [cur EXCEPT ![p] = t]
  /\ step' = [step EXCEPT ![p] = IF p \in Blocking THEN "task" ELSE "open"]
  /\ chan' = ch /\ jobs' = js
  /\ UNCHANGED <<next, lastSent>>
MutAnnouncedEarly(p, t, ch, js) ==
  /\ cur' = [cur EXCEPT ![p] = t]
  /\ next' = [next EXCEPT ![p] = t + dur[p]]
  /\ step' = [step EXCEPT ![p] = IF p \in Blocking THEN "task" ELSE "open"]
  /\ RequestNextStep(p, ch, js, t + dur[p], phase[p])

(* The step is executed: the time advances and the handler is called. *)
AdvanceTimeStep(p, t, ch, js) ==
  /\ cur' = [cur EXCEPT ![p] = t]
  /\ next' = [next EXCEPT ![p] = t + dur[p]]
  /\ step' = [step EXCEPT ![p] = IF p \in Blocking THEN "task" ELSE "open"]
  /\ chan' = ch /\ jobs' = js
  /\ UNCHANGED lastSent

(* A coordinated participant may not hop on: it aborts the simulation and    *)
(* does not call the handler.  The blocking policy then requests the next    *)
(* step as after any other step.                                             *)
AbortHopOnForCoordinatedParticipants(p, t, ch, js) ==
  LET chA == Broadcast(ch, p, Signal("Abort"))
      jsA == Post(js, p, "Abort")
  IN /\ next' = [next EXCEPT ![p] = t]
     /\ UNCHANGED cur
     /\ IF p \in Blocking
        THEN UNCHANGED step /\ RequestNextStep(p, chA, jsA, t, "Running")
        ELSE /\ step' = [step EXCEPT ![p] = "stuck"]
             /\ chan' = chA /\ jobs' = jsA
             /\ UNCHANGED lastSent

ProcessSimulationTimeUpdate(p, kn, oth, ch, js) ==
  /\ UNCHANGED dur
  /\ IF IsTimeAdvancePossible(p, kn, oth) /\ ~IsExecutingSimStep(p)
     THEN LET hop == HandleHopOn(p, kn, oth) IN
          /\ hoppedOn' = [hoppedOn EXCEPT ![p] = @ \/ hop]
          /\ \E t \in {next[p]} \cup {oth[q].tp : q \in kn} :
               /\ IsStepTime(p, kn, oth, t)
               /\ IF hop /\ p \in Coordinated
                  THEN AbortHopOnForCoordinatedParticipants(p, t, ch, js)
                  ELSE AdvanceTimeStep(p, t, ch, js)
     ELSE /\ chan' = ch /\ jobs' = js
          /\ UNCHANGED <<cur, next, hoppedOn, step, lastSent>>

-----------------------------------------------------------------------------
Init ==
  /\ phase = [p \in Participants |-> "None"]
  /\ stopRequested = [p \in Participants |-> FALSE]
  /\ pauseRequested = [p \in Participants |-> FALSE]
  /\ waiting = [p \in Participants |-> {}]
  /\ sysError = [p \in Participants |-> FALSE]
  /\ jobs = [p \in Participants |-> <<>>]
  /\ chan = [p \in Participants |-> [q \in Participants |-> <<>>]]
  /\ cur = [p \in Participants |-> -1]
  /\ next = [p \in Participants |-> 0]
  /\ dur \in [Participants -> UNION {StepSizes[p] : p \in Participants}]
  /\ \A p \in Participants : dur[p] \in StepSizes[p]
  /\ known = [p \in Participants |-> {}]
  /\ other = [p \in Participants |-> [q \in Participants |-> NoTask]]
  /\ hoppedOn = [p \in Participants |-> FALSE]
  /\ step = [p \in Participants |-> "none"]
  /\ lastSent = [p \in Participants |-> -1]
  /\ pauses = 0

-----------------------------------------------------------------------------
(* The lifecycle up to Running. *)

(* Configures the policy and announces the time synchronization service. *)
StartLifecycle(p) ==
  /\ phase[p] = "None"
  /\ phase' = [phase EXCEPT ![p] = "Created"]
  /\ chan' = Broadcast(chan, p, Signal("Created"))
  /\ UNCHANGED <<stopRequested, pauseRequested, waiting, sysError, jobs,
                 timeVars, viewVars, pauses>>

(* ServicesCreatedState asks every connected participant for a reply, so     *)
(* that all of them have seen the announcement of its services.  The         *)
(* coordinated participants do so together.                                  *)
CallAfterAllParticipantsReplied(p) ==
  /\ phase[p] = "Created"
  /\ p \in Coordinated => \A q \in Coordinated : phase[q] # "None"
  /\ waiting' = [waiting EXCEPT ![p] = Peers(p)]
  /\ phase' = [phase EXCEPT ![p] = IF Peers(p) = {} THEN "Ready" ELSE "Barrier"]
  /\ chan' = Broadcast(chan, p, Signal("Call"))
  /\ UNCHANGED <<stopRequested, pauseRequested, sysError, jobs, timeVars,
                 viewVars, pauses>>

(* The transition to Running, which starts the time; coordinated             *)
(* participants wait until all of them have got ready.                       *)
StartTime(p) ==
  /\ phase[p] = "Ready" /\ step[p] # "task"
  /\ p \in Coordinated =>
       \A q \in Coordinated : phase[q] = "Ready" \/ lastSent[q] >= 0
  /\ phase' = [phase EXCEPT ![p] = "Running"]
  /\ RequestNextStep(p, chan, jobs, next[p], "Running")
  /\ UNCHANGED <<stopRequested, pauseRequested, waiting, sysError, cur, next,
                 dur, hoppedOn, step, viewVars, pauses>>

-----------------------------------------------------------------------------
(* The simulation step. *)

(* The blocking handler returns to the IO thread. *)
ReturnFromTask(p) ==
  /\ step[p] = "task"
  /\ step' = [step EXCEPT ![p] = "none"]
  /\ RequestNextStep(p, chan, jobs, next[p], phase[p])
  /\ UNCHANGED <<lifecycleVars, cur, next, dur, hoppedOn, viewVars, pauses>>

(* A user thread completes the asynchronous step. *)
CompleteSimulationStep(p) ==
  /\ step[p] = "open" /\ phase[p] # "Off"
  /\ step' = [step EXCEPT ![p] = "completing"]
  /\ jobs' = Post(jobs, p, "Complete")
  /\ UNCHANGED <<lifecycleVars, chan, cur, next, dur, hoppedOn, lastSent,
                 viewVars, pauses>>

(* Mutant: the time of the next step is recomputed. *)
MutSetPeriodMovesNext(p) ==
  /\ phase[p] \notin {"Stopped", "Error", "Off"} /\ cur[p] >= 0
  /\ \E d \in StepSizes[p] \ {dur[p]} :
       dur' = [dur EXCEPT ![p] = d] /\ next' = [next EXCEPT ![p] = cur[p] + d]
  /\ UNCHANGED <<lifecycleVars, jobs, chan, cur, hoppedOn, step, lastSent,
                 viewVars, pauses>>

SetPeriod(p) ==
  /\ phase[p] \notin {"Stopped", "Error", "Off"}
  /\ \E d \in StepSizes[p] \ {dur[p]} : dur' = [dur EXCEPT ![p] = d]
  /\ UNCHANGED <<lifecycleVars, jobs, chan, cur, next, hoppedOn, step,
                 lastSent, viewVars, pauses>>

-----------------------------------------------------------------------------
(* Calls of the user to the LifecycleService. *)

Pause(p) ==
  /\ p \in Pausers /\ pauses < MaxPauses
  /\ phase[p] = "Running" /\ ~pauseRequested[p]
  /\ pauseRequested' = [pauseRequested EXCEPT ![p] = TRUE]
  /\ jobs' = Post(jobs, p, "Pause")
  /\ pauses' = pauses + 1
  /\ UNCHANGED <<phase, stopRequested, waiting, sysError, chan, timeVars, viewVars>>

Continue(p) ==
  /\ pauseRequested[p] /\ phase[p] \in {"Running", "Paused"}
  /\ pauseRequested' = [pauseRequested EXCEPT ![p] = FALSE]
  /\ jobs' = Post(jobs, p, "Continue")
  /\ UNCHANGED <<phase, stopRequested, waiting, sysError, chan, timeVars,
                 viewVars, pauses>>

Stop(p) ==
  /\ p \in Stoppers
  /\ phase[p] \in {"Running", "Paused"} /\ ~stopRequested[p]
  /\ stopRequested' = [stopRequested EXCEPT ![p] = TRUE]
  /\ jobs' = Post(jobs, p, "Stop")
  /\ UNCHANGED <<phase, pauseRequested, waiting, sysError, chan, timeVars,
                 viewVars, pauses>>

-----------------------------------------------------------------------------
(* The deferred jobs of the IO thread. *)

IoThreadIsFree(p) == phase[p] # "Off" /\ step[p] # "task"

NextJob(p, job) == IoThreadIsFree(p) /\ jobs[p] # <<>> /\ Head(jobs[p]) = job

Rest(p) == [jobs EXCEPT ![p] = Tail(@)]

ProcessJob(p) ==
  /\ NextJob(p, "Process")
  /\ ProcessSimulationTimeUpdate(p, known[p], other[p], chan, Rest(p))
  /\ UNCHANGED <<lifecycleVars, viewVars, pauses>>

RequestJob(p) ==
  /\ NextJob(p, "Request")
  /\ RequestNextStep(p, chan, Rest(p), next[p], phase[p])
  /\ UNCHANGED <<lifecycleVars, cur, next, dur, hoppedOn, step, viewVars, pauses>>

CompleteJob(p) ==
  /\ NextJob(p, "Complete")
  /\ step' = [step EXCEPT ![p] = "none"]
  /\ RequestNextStep(p, chan, Rest(p), next[p], phase[p])
  /\ UNCHANGED <<lifecycleVars, cur, next, dur, hoppedOn, viewVars, pauses>>

(* Pausing in any state but Running reports an error, which is deferred. *)
PauseJob(p) ==
  /\ NextJob(p, "Pause")
  /\ IF phase[p] = "Running"
     THEN phase' = [phase EXCEPT ![p] = "Paused"] /\ jobs' = Rest(p)
     ELSE jobs' = Post(Rest(p), p, "Error") /\ UNCHANGED phase
  /\ UNCHANGED <<stopRequested, pauseRequested, waiting, sysError, chan,
                 timeVars, viewVars, pauses>>

(* Mutant: the next step is not requested again. *)
MutContinueWithoutRequest(p) ==
  /\ NextJob(p, "Continue")
  /\ IF phase[p] = "Paused"
     THEN phase' = [phase EXCEPT ![p] = "Running"] /\ jobs' = Rest(p)
     ELSE jobs' = Post(Rest(p), p, "Error") /\ UNCHANGED phase
  /\ UNCHANGED <<stopRequested, pauseRequested, waiting, sysError, chan,
                 timeVars, viewVars, pauses>>

ContinueJob(p) ==
  /\ NextJob(p, "Continue")
  /\ IF phase[p] = "Paused"
     THEN /\ phase' = [phase EXCEPT ![p] = "Running"]
          /\ jobs' = Post(Rest(p), p, "Request")
     ELSE jobs' = Post(Rest(p), p, "Error") /\ UNCHANGED phase
  /\ UNCHANGED <<stopRequested, pauseRequested, waiting, sysError, chan,
                 timeVars, viewVars, pauses>>

(* An error is ignored by a participant that has already shut down. *)
ErrorJob(p) ==
  /\ NextJob(p, "Error")
  /\ \/ phase' = [phase EXCEPT ![p] = "Error"]
     \/ phase[p] = "Stopped" /\ UNCHANGED phase
  /\ jobs' = Rest(p)
  /\ UNCHANGED <<stopRequested, pauseRequested, waiting, sysError, chan,
                 timeVars, viewVars, pauses>>

(* Stopping takes effect in Running and Paused, and ends an error. *)
StopJob(p) ==
  /\ NextJob(p, "Stop")
  /\ phase' = [phase EXCEPT ![p] =
       IF @ \in {"Running", "Paused", "Error"} THEN "Stopped" ELSE @]
  /\ jobs' = Rest(p)
  /\ UNCHANGED <<stopRequested, pauseRequested, waiting, sysError, chan,
                 timeVars, viewVars, pauses>>

(* StartLifecycle has queued the call to all participants of an autonomous   *)
(* participant before.                                                       *)
AbortJob(p) ==
  /\ NextJob(p, "Abort")
  /\ phase[p] = "Created" => p \in Coordinated
  /\ phase' = [phase EXCEPT ![p] = "Stopped"]
  /\ jobs' = Rest(p)
  /\ UNCHANGED <<stopRequested, pauseRequested, waiting, sysError, chan,
                 timeVars, viewVars, pauses>>

-----------------------------------------------------------------------------
(* The messages of a peer q, handled by the IO thread of p. *)

Receives(p, q, kind) ==
  IoThreadIsFree(p) /\ chan[q][p] # <<>> /\ Head(chan[q][p]).kind = kind

Taken(p, q) == [chan EXCEPT ![q][p] = Tail(@)]

(* Mutant: the current step is announced to the late joiner, not the next. *)
MutResendCurrent(p, q) ==
  /\ Receives(p, q, "Created")
  /\ known' = [known EXCEPT ![p] = @ \cup {q}]
  /\ other' = [other EXCEPT ![p][q] = IF q \in known[p] THEN @ ELSE NoTask]
  /\ chan' = IF cur[p] >= 0
             THEN Broadcast(Taken(p, q), p, NextSimTask(cur[p], dur[p]))
             ELSE Taken(p, q)
  /\ UNCHANGED <<lifecycleVars, jobs, timeVars, pauses>>

(* q's time synchronization service was discovered.  If the own time has     *)
(* advanced, the own next step is announced again: to everybody.             *)
ReceiveServiceCreated(p, q) ==
  /\ Receives(p, q, "Created")
  /\ known' = [known EXCEPT ![p] = @ \cup {q}]
  /\ other' = [other EXCEPT ![p][q] = IF q \in known[p] THEN @ ELSE NoTask]
  /\ chan' = IF cur[p] >= 0
             THEN Broadcast(Taken(p, q), p, NextSimTask(next[p], dur[p]))
             ELSE Taken(p, q)
  /\ UNCHANGED <<lifecycleVars, jobs, timeVars, pauses>>

ReceiveCall(p, q) ==
  /\ Receives(p, q, "Call")
  /\ chan' = IF phase[q] = "Off" THEN Taken(p, q)
             ELSE [Taken(p, q) EXCEPT ![p][q] = Append(@, Signal("Reply"))]
  /\ UNCHANGED <<lifecycleVars, jobs, timeVars, viewVars, pauses>>

(* Mutant: the first reply completes the barrier. *)
MutFirstReplySuffices(p, q) ==
  /\ waiting' = [waiting EXCEPT ![p] = @ \ {q}]
  /\ phase' = [phase EXCEPT ![p] = IF @ = "Barrier" THEN "Ready" ELSE @]

(* One peer less to wait for, when it replied or disconnected.  The last one *)
(* completes the barrier.  An abort does not cancel it: an autonomous        *)
(* participant that was aborted in the meantime goes on all the same, a      *)
(* coordinated one does not as the others count it as shut down.             *)
BarrierWithout(p, q) ==
  /\ waiting' = [waiting EXCEPT ![p] = @ \ {q}]
  /\ phase' = [phase EXCEPT ![p] =
       IF /\ waiting[p] # {} /\ waiting[p] \ {q} = {}
          /\ @ = "Barrier" \/ p \notin Coordinated
       THEN "Ready" ELSE @]

ReceiveCallReturn(p, q) ==
  /\ Receives(p, q, "Reply")
  /\ BarrierWithout(p, q)
  /\ chan' = Taken(p, q)
  /\ UNCHANGED <<stopRequested, pauseRequested, sysError, jobs, timeVars,
                 viewVars, pauses>>

(* Without a policy the message is dropped, from an unknown participant it   *)
(* is ignored; otherwise it is stored, and the own step may have become due. *)
ReceiveNextSimTask(p, q) ==
  LET task == Head(chan[q][p]).task IN
  /\ Receives(p, q, "Next")
  /\ other' = [other EXCEPT ![p][q] =
       IF phase[p] # "None" /\ q \in known[p] THEN task ELSE @]
  /\ ProcessSimulationTimeUpdate(p, known[p], other'[p], Taken(p, q), jobs)
  /\ UNCHANGED <<lifecycleVars, known, pauses>>

ReceiveAbortSimulation(p, q) ==
  /\ Receives(p, q, "Abort")
  /\ chan' = Taken(p, q)
  /\ IF phase[p] = "None"
     THEN phase' = [phase EXCEPT ![p] = "Stopped"] /\ UNCHANGED jobs
     ELSE jobs' = Post(jobs, p, "Abort") /\ UNCHANGED phase
  /\ UNCHANGED <<stopRequested, pauseRequested, waiting, sysError, timeVars,
                 viewVars, pauses>>

(* The connection of q ends.  The service discovery is told first: if q was  *)
(* synchronized it hops off, and the own step may have become due.  The      *)
(* request-reply service is told next, the system monitor last: a required   *)
(* participant that did not shut down puts the system into the error state.  *)
OnPeerShutdown(p, q, kind) ==
  /\ Receives(p, q, kind)
  /\ known' = [known EXCEPT ![p] = @ \ {q}]
  /\ other' = [other EXCEPT ![p][q] = NoTask]
  /\ IF q \in known[p]
     THEN ProcessSimulationTimeUpdate(p, known'[p], other'[p], Taken(p, q), jobs)
     ELSE chan' = Taken(p, q) /\ UNCHANGED <<jobs, timeVars>>
  /\ BarrierWithout(p, q)
  /\ sysError' = [sysError EXCEPT ![p] =
       @ \/ (kind = "Lost" /\ q \in Coordinated)]
  /\ UNCHANGED <<stopRequested, pauseRequested, pauses>>

ReceiveDisconnect(p, q) == OnPeerShutdown(p, q, "Bye")

ReceiveConnectionLost(p, q) == OnPeerShutdown(p, q, "Lost")

-----------------------------------------------------------------------------
(* The end of a participant. *)

(* The streams of p end with kind; what was sent to p is lost, and of what p *)
(* sent, q still receives the first kept[q] messages.                        *)
Disconnect(p, kind, kept) ==
  /\ phase' = [phase EXCEPT ![p] = "Off"]
  /\ jobs' = [jobs EXCEPT ![p] = <<>>]
  /\ chan' = [a \in Participants |-> [b \in Participants |->
       IF b = p THEN <<>>
       ELSE IF a = p /\ phase[b] # "Off"
            THEN Append(SubSeq(chan[p][b], 1, kept[b]), Signal(kind))
            ELSE chan[a][b]]]
  /\ UNCHANGED <<stopRequested, pauseRequested, waiting, sysError, timeVars,
                 viewVars, pauses>>

Everything(p) == [q \in Participants |-> Len(chan[p][q])]

Leave(p) ==
  /\ phase[p] \in {"Stopped", "Error"} /\ step[p] # "task"
  /\ Disconnect(p, IF phase[p] = "Error" THEN "Lost" ELSE "Bye", Everything(p))

(* A crash may lose the whole of what was not yet received. *)
Crash(p) ==
  /\ p \in Crashers /\ phase[p] # "Off"
  /\ \E lossy \in SUBSET Participants :
       Disconnect(p, IF phase[p] \in {"None", "Stopped"} THEN "Bye" ELSE "Lost",
                  [q \in Participants |-> IF q \in lossy THEN 0 ELSE Everything(p)[q]])

-----------------------------------------------------------------------------
IoThread(p) ==
  \/ ProcessJob(p) \/ RequestJob(p) \/ CompleteJob(p)
  \/ PauseJob(p) \/ ContinueJob(p) \/ StopJob(p) \/ AbortJob(p) \/ ErrorJob(p)
  \/ CallAfterAllParticipantsReplied(p) \/ StartTime(p)

Receive(p, q) ==
  \/ ReceiveServiceCreated(p, q) \/ ReceiveCall(p, q) \/ ReceiveCallReturn(p, q)
  \/ ReceiveNextSimTask(p, q) \/ ReceiveAbortSimulation(p, q)
  \/ ReceiveDisconnect(p, q) \/ ReceiveConnectionLost(p, q)

User(p) ==
  \/ StartLifecycle(p) \/ SetPeriod(p) \/ Pause(p) \/ Continue(p) \/ Stop(p)
  \/ ReturnFromTask(p) \/ CompleteSimulationStep(p) \/ Leave(p) \/ Crash(p)

Next ==
  \/ \E p \in Participants : IoThread(p) \/ User(p)
  \/ \E p, q \in Participants : Receive(p, q)

(* The IO thread works as long as there is a job or a message, in whatever   *)
(* order; a step that was started ends, a paused participant is continued,   *)
(* one that has stopped leaves.  Nothing is assumed of Pause, Stop,          *)
(* SetPeriod and of crashes.                                                 *)
Fairness ==
  \A p \in Participants :
    /\ WF_vars(IoThread(p) \/ \E q \in Participants : Receive(p, q))
    /\ WF_vars(ReturnFromTask(p)) /\ WF_vars(CompleteSimulationStep(p))
    /\ WF_vars(Continue(p)) /\ WF_vars(Leave(p)) /\ WF_vars(StartLifecycle(p))

Spec == Init /\ [][Next]_vars /\ Fairness
-----------------------------------------------------------------------------
(* Properties. *)

(* Every variable keeps its type. *)
TypeOK ==
  /\ phase \in [Participants -> Phases]
  /\ stopRequested \in [Participants -> BOOLEAN]
  /\ pauseRequested \in [Participants -> BOOLEAN]
  /\ waiting \in [Participants -> SUBSET Participants]
  /\ sysError \in [Participants -> BOOLEAN]
  /\ jobs \in [Participants -> Seq(Jobs)]
  /\ chan \in [Participants -> [Participants -> Seq(Message)]]
  /\ cur \in [Participants -> Nat \cup {-1}]
  /\ next \in [Participants -> Nat]
  /\ dur \in [Participants -> Nat \ {0}]
  /\ known \in [Participants -> SUBSET Participants]
  /\ other \in [Participants -> [Participants -> Task]]
  /\ hoppedOn \in [Participants -> BOOLEAN]
  /\ step \in [Participants -> StepStates]
  /\ lastSent \in [Participants -> Nat \cup {-1}]
  /\ pauses \in Nat

(* The announcements in the queue s do not decrease, from lo up to hi. *)
Chronological(s, lo, hi) ==
  /\ lo <= hi
  /\ \A i \in 1..Len(s) : s[i].kind = "Next" =>
       /\ lo <= s[i].task.tp /\ s[i].task.tp <= hi
       /\ \A j \in 1..Len(s) :
            s[j].kind = "Next" /\ i < j => s[i].task.tp <= s[j].task.tp

(* TimeConfiguration::OnReceiveNextSimStep never meets its "Chonology        *)
(* error": along every connection the announced time points do not           *)
(* decrease, from the one stored at the receiver over those in transit to    *)
(* the one the sender would announce now, in spite of announcements that are *)
(* repeated for a late joiner and of a sender that hops on.                  *)
Chronology ==
  \A p, q \in Participants :
    Chronological(chan[q][p], other[p][q].tp, next[q])

(* The barrier of ServicesCreatedState does its work: whoever is running is  *)
(* known to every participant that is still there, so no one advances in     *)
(* ignorance of it.                                                          *)
RunningIsKnown ==
  \A p, q \in Participants :
    p # q /\ phase[p] \in {"Running", "Paused"} /\ phase[q] # "Off" => p \in known[q]

(* The simulation step handler of p is called. *)
StepStarts(p) == step[p] = "none" /\ step'[p] \in {"task", "open"}

(* The virtual time of a participant only increases: no step jumps back and  *)
(* none is triggered twice at the same time (AdvanceTimeStep, HandleHopOn).  *)
TimeOnlyIncreases ==
  [][\A p \in Participants : StepStarts(p) => cur'[p] > cur[p]]_vars

(* The earliest time p may still act at: its current time in the middle of a *)
(* step, the time of its next step otherwise.                                *)
Floor(p) == IF step[p] \in {"task", "open"} THEN cur[p] ELSE next[p]

(* A participant that does not hop on starts its step only when no other     *)
(* participant it knows has its next step earlier.                           *)
StepWaitsForOthers ==
  [][\A p \in Participants :
       StepStarts(p) /\ hoppedOn'[p] = hoppedOn[p] =>
         \A q \in known'[p] : cur'[p] <= next[q]]_vars

(* The first step of a late joiner takes place at the advanced time of the   *)
(* simulation: not before a step another participant has already executed.   *)
JoinsAtAdvancedTime ==
  [][\A p \in Participants :
       StepStarts(p) /\ cur[p] = -1 =>
         \A q \in Participants : phase[q] # "Off" => cur[q] <= cur'[p]]_vars

(* Every participant that runs gets to execute all its steps up to the       *)
(* bound, unless it leaves Running for good or the system is in error: no    *)
(* announcement that was dropped, no pause, no late joiner and no lost       *)
(* participant makes it wait forever.                                        *)
Progress ==
  \A p \in Participants :
    phase[p] = "Running" ~>
      \/ next[p] > MaxTime
      \/ phase[p] \in {"Stopped", "Error", "Off"}
      \/ p \in Coordinated /\ sysError[p]

-----------------------------------------------------------------------------
(* The group of all participants, as ConservativeTime describes it. *)
Conservative ==
  INSTANCE ConservativeTime WITH
    Group <- Participants,
    time <- cur,
    floor <- [p \in Participants |-> Floor(p)],
    busy <- {p \in Participants : step[p] \in {"task", "open"}},
    left <- {p \in Participants : phase[p] = "Off"}

(* Participants that start together keep the promise of ConservativeTime. *)
ImplementsConservativeTime == Conservative!CSpec
=============================================================================
