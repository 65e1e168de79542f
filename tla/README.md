# SIL Kit: models of its distributed protocols

SIL Kit connects the processes of a simulation (*participants*). It has no
central clock and no central controller: every participant derives, from the
messages of the others, when its next simulation step is due and in which state
the system is. This directory holds TLA+ models of these protocols and of what
they stand on: how a participant joins, how a connection carries messages, how
services find each other, how remote procedure calls end, and how a LIN bus is
simulated. TLC runs check them on small instances; TLAPS proves nearly all of their
safety properties for all instances: any participants, messages, labels, servers,
buffer sizes and interleavings.

Paths below are relative to `src/SilKit/source/` unless they begin with `docs/`.

## 1. Inventory

### Components, their state and operations

| component | state | operations | correct if |
|---|---|---|---|
| Time synchronization (`services/orchestration/TimeSyncService.cpp`, `TimeConfiguration.cpp`) | current and next task, next task of every known other, `_hoppedOn`, `_lastSentNextSimTask`, `_isExecutingSimStep` | request, announce and execute a step, complete an asynchronous step, set the period, late joiner appears, peer disappears | steps happen in the order of virtual time; time only increases; nobody waits forever |
| Lifecycle (`LifecycleService.cpp`, `LifecycleManagement.cpp`, `LifecycleStates.cpp`) | participant state, flags for requested stop and pause, final-state promise | start, pause, continue, stop, abort, report an error, reaction to the system state | coordinated participants start together, a stop or an abort ends the lifecycle, the others know it before the connection closes |
| System monitor (`SystemMonitor.cpp`, `SystemStateTracker.cpp`) | last status of every participant, system state | receive a status, handle a lost participant | the derived system state drives every coordinated participant the same way |
| System controller (`SystemController.cpp`) | none | abort the simulation, set the workflow configuration | |
| Request-reply service (`core/requests/`) | calls in progress, the active barrier | call all participants, reply, synthesize the reply of a lost participant | the barrier ends once everything sent before it has been handled by all |
| Connection (`core/vasio/VAsioConnection.*`) | peers, links, deferred jobs, pending subscription acknowledges | send, dispatch, register a service, acknowledge, peer shutdown | order per connection; all waits end |
| Connecting (`core/vasio/ConnectKnownParticipants.cpp`, `RemoteConnectionManager.cpp`) | stage of every peer and of all, attempts, timers | connect directly, ask the other to connect, go by proxy, update the stage | a join succeeds only if all have replied; it ends |
| Registry (`core/vasio/VAsioRegistry.cpp`) | participants by name | announce, reject, relay, forget | names are unique; of two participants the later one is told of the earlier |
| Peer (`core/vasio/VAsioPeer.cpp`, `RingBuffer.cpp`) | sending queue, aggregated bytes, flush timer, ring buffer | send, aggregate, flush, write and read in pieces, cut into messages | a stream of whole messages in order |
| Service discovery (`core/service/`) | announced services, handlers, clusters by label | announce, withdraw, register a handler | every handler is called for every matching service |
| RPC (`services/rpc`) | number of servers, calls in progress, timeouts | call, answer, time out, server leaves | each timed call ends; nothing follows a timeout |
| LIN (`services/lin`) | mode, status, responses of every node as each controller knows them | configure, send a header or frame, answer, sleep, wake up | copies catch up; the master learns the outcome of its frames |
| Publish/subscribe, CAN, Ethernet, FlexRay | matched counterparts, controller state | send, acknowledge | bus-specific |
| Tracing, dashboard, configuration, logging, serialization, C API | files, records | input and output | not a protocol |

### Interaction

Every participant has one IO thread. It runs the jobs posted with
`ExecuteDeferred` in order and dispatches the messages of its peers in between;
on one connection messages stay in order, between connections there is no order.
User threads call the services at any time; nearly every call only sets a flag
and posts a job. The lifecycle announces each state as a status message; the
monitor of every participant derives a system state from the statuses, and the
lifecycle of a coordinated participant reacts to the system state of *its own*
monitor. The barrier of the request-reply service stands between a status and
the next state where the order matters. Time synchronization starts with the
transition to `Running` and asks the lifecycle for its state before each step.

### What is hard

* Participants see the statuses and announcements of others in different orders;
  the system state depends on the order of arrival.
* Participants join a running simulation, pause in the middle of a step, change
  their step size, crash while others wait for them.
* A job is posted in one state and executed in another; an abort overtakes a
  barrier; a barrier is asked for while another one is active.
* The callbacks of a lost connection run in a fixed order, each with effects of
  its own.
* Some state is shared by the user thread and the IO thread with locks that do
  not span check and use: the stage of connecting, the counter of RPC servers.
* Timers race with the answers they were started for.
* Bytes arrive in any pieces, in a buffer that wraps around and grows.
* Copies of another's state (clusters of labels, LIN nodes) are kept up to date
  by messages or increments, in whatever order these come.

`PROJECT.json` lists these at their lines under `hazards`.

## 2. Modules

| module | models |
|---|---|
| `TimeSync` | virtual time: `SynchronizedPolicy`, `TimeConfiguration`, and of the lifecycle what time depends on |
| `ConservativeTime` | abstract specification: what virtual time promises to a group, without messages |
| `TimeSyncProofs` | inductive invariant and theorems about `TimeSync` |
| `TimeGroupProofs` | the start barrier of `TimeSync`, that it implements `ConservativeTime`, and the start of a late joiner; extends `TimeSyncProofs` |
| `SystemState` | `SystemStateTracker::ComputeSystemState` as an operator |
| `Orchestration` | lifecycles, monitors, barrier and subscriptions of all participants; extends `SystemState` |
| `OrchestrationProofs`, `JoiningProofs`, `TransportProofs`, `DiscoveryProofs`, `RpcProofs`, `LinProofs` | inductive invariants and theorems about the module each is named after |
| `Joining` | `JoinSimulation`, `ConnectKnownParticipants`, the registry |
| `Transport` | one direction of a connection between two `VAsioPeer`s, byte by byte |
| `Channel` | abstract specification: what that direction promises, message by message |
| `DiscoveryStore` | `SpecificDiscoveryStore` and `MatchLabels` |
| `Rpc` | an `RpcClient` and the internal servers created for it |
| `Lin` | LIN controllers with trivial behaviour on one bus |
| `MC...` | model values, step sizes, user calls, label lists, ... for TLC |

Operators named after a bug (`ReceiveReturnUnchecked`, `ReserveKeepsWPos`) or
commented as mutants are no part of the specifications. Each stands before the
definition it is a faulty variant of; `PROJECT.json` says which property it breaks.

### TimeSync

`cur`, `next`, `dur` are the fields of `_currentTask` and `_myNextTask`; `known`
and `other` are the keys and values of `_otherNextTasks`; `hoppedOn`, `lastSent`
keep the source's names. `step` unites `_isExecutingSimStep` and whether a user
handler is running. `phase` folds the lifecycle states time cannot tell apart.
`jobs` is the queue of the IO thread, `chan[p][q]` the stream from p to q. Times
are counted in units of an arbitrary size; -1 is the code's `-1ns`.

Each handler is one action, including everything it does before it returns to
the IO thread: `ReceiveNextSimTask` stores the announcement *and* executes the
step that has become due. A blocking step handler occupies the IO thread until
`ReturnFromTask`; an asynchronous one ends with `CompleteSimulationStep` on a
user thread, which posts `CompleteJob`. Deferred calls (`Pause`, `Continue`,
`Stop`) are an action for the call and one for the job.

Abstractions. The states before `Running` are reduced to the barrier of
`ServicesCreated` and to the fact that coordinated participants go on together;
`Orchestration` has them in full. A status is known to others as soon as it is
entered, except for the error state after a lost connection, which each
participant enters when it handles the end of the connection. Messages are put on
the stream when they are sent, although `SendMsg` posts them first: all messages
of a participant take this way, so that their order on a connection is the same.

### Orchestration

`io[p]` is the lifecycle state machine of p with the jobs of its IO thread. The
events of the state machine (`ReadyToRun`, `StopSimulation`, ...) are operators
that return the set of possible next records; more than one if a user's handler
may throw. Entering a state appends the status job that sends it to others and
then to the own monitor; `StatusJob` and `ReceiveParticipantStatus` update the
tracker and run the reaction of the lifecycle in the same step, as the code does.
`bar[p]` is `ParticipantReplies`: the barrier that is active, and its
continuation. `acks[p]`, `pending` and `waits` are the asynchronous
subscriptions.

Abstractions. All participants are connected and know the required participants
before the first lifecycle starts. `First` stands for the element
`_requiredParticipants.begin()` yields, which the implementation of
`std::unordered_set` decides. One asynchronously subscribing controller stands
for all that are created. Calls of the barrier carry no identifier, as only one
barrier is active at a time. `StartLifecycle` is two steps (up to the check for
an earlier abort, and the rest). What users call, and who may crash, is a script:
a set of calls that happen at most once each, at any time and in any order.

### Joining

Each process has a user thread in `JoinSimulation` (`user[p]`) and an IO thread.
`stage[p]` is `_connectStage`, `peer[p][q]` the `_peerStage` of q, both with the names
of the enumerations; `waitable` and `complete` are the two promises. `UpdateStage` is
run by both threads without a lock around it; its checks and the assignments that
follow are separate steps (`update[p][t]` is the place of thread t in it). The IO
thread takes finished connection attempts, timers and messages one at a time, and is
inside `UpdateStage` or `TryProxyConnect` between the steps of a handler. The registry
is one process that reads one message per step.

Abstractions. Whether an attempt to connect succeeds is the network's choice, unless
the other process is gone; the URIs tried by `ConnectPeer` are not told apart. All
speak the same protocol version and join the same simulation. What the registry sends
to a process that has ended is lost; what that one had sent is read. The announcement
to a participant that has connected on request is on the wire before the `UpdateStage`
that follows in the same handler returns; in the code it is sent after it. The reply may
thus arrive earlier than it can in the code, so that more orders are checked.

### Transport and Channel

A byte is a pair of message and position, so that a byte that is lost, repeated or
moved shows. `queue`, `current` and `sending` are the sending side, `aggregated`, `timer`
and `timerStarted` the aggregation; `ring` is the `RingBuffer` with its two positions,
its size and its contents, written in the two pieces `GetWritingBuffers` offers.
`DispatchBuffer` is cut at its loop: `ReadSize`, then `DispatchMessage` until too few
bytes are left. The sender modelled writes no size of 0 or beyond the limit and the
receiver does not shut down by itself, so that the early returns for these
(`VAsioPeer.cpp:239`, `262`, `RingBuffer.cpp:39`) are left out.

`Channel` is the promise: a line of whole messages. Messages are accepted in order. User
data may be held back until a flush, and no message of a kind that is aggregated (user
data, flush) is put on the line ahead of those; the other kinds (`urgent`) may be. As long
as the connection is open every accepted message is held back, on the line or delivered.
Closing it loses a suffix of the line; after that nothing is put on the line any more, and
what is held back may be discarded. The refinement mapping sends a detailed state to the
messages whose last byte is held back or under way; the channel is closed when the sender
shuts down.

### DiscoveryStore

`entry` is the `DiscoveryKeyNode` of one topic: the clusters of all, of those without
labels, of each label, and of each label's absence (`notLabel`; `seen` are the keys with
an entry in `notLabelMap`). `GreedyLabel` chooses the label with the fewest
counterparts, with the side effect of the lookup (`LookedUp`). `told` and `untold` count
the calls of a handler. The handler itself applies `MatchLabels`, so that a call in vain
does no harm. All operations run under the mutex of the service discovery.

### Rpc

`TriggerCall` is four steps of the user thread, as it reads `_numCounterparts` twice and
takes its locks one after the other; `ReceiveMessage` is three steps of the IO thread, as
it leaves the lock before it calls the handler and decrements. `TimeHandler` runs on the
IO thread if the participant is synchronized, else on a thread of its own (`Synchronized`).
The servers subscribe, are announced, answer when their user likes, or leave.

### Lin

`nodes[c][d]` is what controller c keeps of d in `_linNodes`, the own entry included;
`responded` is `_linIdsRespondedBySlaves`. The master judges by its copy whether a header
finds no, one or several responders; slaves answer by their own entry. A header is handled
by the sender itself in the same step (the code posts it to its own IO thread), and a
dynamic slave responds from within its header handler only. `awaited` are the
frames whose outcome the code owes to the master's handler, `told` those reported. A
frame's form stands for length and checksum model; payloads are left out.

## 3. Runs

`CHECK_DEADLOCK FALSE` is set everywhere: a simulation ends, when all have left,
when everything has been sent or, in `TimeSync`, when the bound on time is reached.

| run | instance | shows |
|---|---|---|
| `TimeSyncGroup` | 3 coordinated; one blocking with step size 2, which pauses once and stops; time up to 2 | types; the group implements `ConservativeTime` |
| `TimeSyncJoin` | 2 coordinated, 1 autonomous, which starts at any time; step size 1; time up to 1 | announcements in order on every connection; whoever runs is known to everybody; steps wait for others; a joiner enters at the advanced time |
| `TimeSyncPeriod` | 2 autonomous; one changes between step sizes 1 and 2 and pauses once; the other may stop or crash; time up to 1 | the same order under changes of the step size; progress |
| `OrchStart` | a coordinated with an asynchronous ready handler and a required autonomous one, which creates a controller at any time | nobody coordinated runs too early; everybody runs |
| `OrchEnd` | 2 coordinated; the handlers of one may throw; scripts: one pauses and continues and the other stops; one reports an error and aborts, or stops; one stops, or aborts, and the other may crash; one stops and aborts | a final state is known before the connection closes; nobody is wrongly taken for lost; `Stopped` arrives before the shutdown; a stop, or an abort after the first barrier, ends the lifecycle |
| `Joining` | one joins two, one of which cannot be asked to connect and the other may end; two join an empty simulation at once, with all capabilities or with none; one joins a single one that cannot be reached by proxy; one may time out, and then ends | success means that all have replied; any two that joined are connected; stages never go back; the join ends |
| `Transport` | 3 messages of 3 or 5 bytes of any kind, size field 2, ring buffer of 4, threshold 7, at most 2 bytes per write or read | types; ring buffer sound; messages whole; refinement of `Channel`: order kept and nothing lost before shutdown; what is flushed arrives |
| `DiscoveryStore` | 3 services and 2 handlers, 5 label lists with mandatory and optional labels of 2 keys and 2 values; symmetry of services and of handlers, which the specification nowhere orders | clusters exact; nobody with mandatory labels misses a match; creations and removals are told in pairs |
| `Rpc` | 2 servers, of which one may leave; a call with a timeout of 1 or 2 ticks and one without; synchronized | the counter and the returns awaited are exact; a timeout is the last result; timed calls end |
| `Lin` | a master, a static and a possibly dynamic slave, one identifier, one frame, one change of response or status by the user, further changes by handlers | copies of slaves catch up; the identifiers answered by slaves are exact; outcomes are reported |

The bounds. Three participants are needed for a third party to be behind while
two others agree; two suffice where a property speaks of pairs. In time units,
one step beyond the first is enough for a participant to have advanced, to
announce again and to be joined; step size 2 against 1 lets one participant
execute two steps within another's. One pause covers the pause that races a
step, an announcement or a stop. In `Joining` two joiners at once cover both orders
at the registry, and the four sets of capabilities make every way to connect and every
fallback happen. In `Transport` the ring buffer has to grow for either length and
wraps within a message and within a size field; three messages let two be
aggregated and a third flush, overtake or cross the threshold. In
`DiscoveryStore` two keys are needed for a party to lack a label another one has, and
three services for clusters of different sizes, by which the greedy label is
chosen. In `Rpc` two servers separate the first return from the last. In `Lin` one frame
against one change covers each race of a header with an update. Queues are not
bounded: the bounds on time, messages and calls keep them finite.

`JoinsAtAdvancedTime` is checked for fixed, equal step sizes and participants that do
not stop. It does not hold in general: see the observations below. `TimeoutIsFinal` is
checked for synchronized participants only, for the same reason.

### Where the code differs from what it or its documentation says

Two runs are expected to end in a violation. Each checks one sentence of the
documentation or of a comment; the quotes are in `PROJECT.json`.

* `StoreMissed`: two services with an optional label of key A are there, a handler with an
  optional label of the unused key B registers. All match, as each lacks the other's key.
  But the clusters of B are empty, as the parties that lack a key are collected only once
  somebody has used it. B counts 0 candidates, fewer than the two services there are,
  becomes the greedy label, and the handler is called for nobody
  (`SpecificDiscoveryStore.cpp:270`, then lines 115-125). The same happens to a service
  that comes to two handlers (`GetLabelWithMinimalHandlerSet`).
* `JoinNames`: a participant is rejected, as its name is in use. When its connection ends,
  `OnPeerShutdown` erases the registry's entry of that name, which belongs to the one
  that was admitted, and the next of the same name is admitted, too.

### Further observations

Met while modelling, reproducible with the modules, not kept as runs.

Virtual time:
* The announcement repeated for a late joiner goes to everybody, also in the middle of
  an asynchronous step, and lets others pass it (`TimeSyncService.cpp:362`;
  `docs/simulation/simulation.rst:345` says that virtual time does not advance before
  all have completed their step).
* `HandleHopOn` ignores those whose next step is exactly at their step size, so that a
  joiner can start later than a step still to come (`TimeConfiguration.cpp:188`). A
  participant that enlarges its step size after its first step is not seen as advanced
  by a joiner; one that reduces it is seen as advanced by a coordinated one that has not
  executed its first step, which aborts the simulation.
* A joiner can start before a step that was already executed, even with equal, fixed step
  sizes: a and b run, c joins. a answers the call of c, stops and leaves, announced for
  time 2. b handles the end of a's connection before it discovers c, and advances to 3.
  c, which has not handled it yet, hops on at the time of a, 2. So `JoinsAtAdvancedTime`
  needs participants that do not leave of their own (`TimeConfiguration.cpp:188` takes the
  smallest time announced, be its sender gone or not).
* A lost participant is removed from the time configuration before the monitor learns of
  it; the step that waited for it is executed (`VAsioConnection.cpp:1288`).
* `Continue` requests the next step even if the asynchronous one during which the
  participant was paused is still open (`LifecycleService.cpp:237`).
* After `AbortHopOnForCoordinatedParticipants` the step may be triggered before the
  abort is handled (`TimeSyncService.cpp:262`).
* The wall clock thread sets `_wallClockReachedBeforeCompletion` after it has read that a
  step is executing; if the step completes in between, nobody requests the next one
  before the following tick (`TimeSyncService.cpp:711`).

Orchestration:
* An abort during the first barrier: its completion takes the participant out of
  `Shutdown` again, and the final barrier has been dropped, so that the lifecycle does
  not end (`LifecycleStates.cpp:184`, `ParticipantReplies.cpp:47`). The same happens if an
  error is reported before the abort, still during the first barrier. `StopCompletes`
  therefore speaks of aborts after the first barrier.
* Statuses that arrive in one burst before the own `Running` make the system state go
  straight to `Stopped`, to which a coordinated participant does not react: it keeps
  running (`SystemStateTracker.cpp:373`; `docs/simulation/simulation.rst:210`).
* A status `Paused` that arrives before another's `Running` does not make the system
  state `Paused` (`SystemStateTracker.cpp:368`).
* Acknowledges owed by a lost peer stay pending, and a lifecycle that waits for them stays
  in `CommunicationInitializing` (`VAsioConnection.cpp:1344`; `docs/simulation/simulation.rst:266`).
* Between the IO thread's read of `_isLifecycleStarted` and its setting of
  `_abortedBeforeLifecycleStart`, `StartLifecycle` may read the latter: the abort is lost
  (`LifecycleService.cpp:321`).

Joining:
* `REMOTE_IS_CONNECTING` has no timer, and `ConnectToKnownParticipants` waits without a
  timeout: if the target crashes after it has said that it is connecting, the join
  hangs. `JoinReturns` excepts participants that end meanwhile.
* If the timer of a request expires and the connection asked for is opened all the same,
  the handshake is done twice, by proxy and on that connection (`VAsioConnection.cpp`, at
  the comment "XXX check if already connected to origin").
* Two threads in `UpdateStage` can take `_connectStage` back from `ALL_REPLIES_RECEIVED` to
  `WAITING_FOR_ALL_REPLIES`; the promises are set once, so it does no harm.

Transport:
* A flush timer that expires with nothing aggregated is not started again, and
  `_initialTimerStarted` stays set: what is aggregated afterwards waits for a flush or the
  threshold (`VAsioPeer.cpp:337`). `FlushedArrives` speaks of flushed messages only.

Service discovery:
* With optional labels a handler may be called twice for one service; `RpcServer` does not
  check for that.
* Choosing the greedy label reads `notLabelMap[key]` with `operator[]`, which creates the
  entry (`SpecificDiscoveryStore.cpp:268`). `UpdateDiscoveryClusters` (line 302) then takes
  the key for one seen before and does not copy the parties without it into its cluster, so
  that those who come later with an optional label of that key miss them, too. This is
  independent of the trace of `StoreMissed`, in which the lookup itself misses.

Remote procedure calls:
* Without synchronized time, `TimeHandler` may report the timeout between the lookup of a
  late return and its delivery: a result follows the timeout, and the iterator dangles
  (`RpcClient.cpp:232`). `TimeHandler` dereferences the result of the lookup before it compares
  it with `end()`.
* A call without a timeout to a server that leaves never ends; its entry stays. The number
  of returns awaited is the counter as the client read it (`RpcClient.cpp:178`): a server
  that arrives or leaves before the call reaches it makes it too small or too large.

LIN:
* A slave with a fresh response answers a header before the master knows of it, so that
  a collision is not noticed. A master that is created late gets the configurations of
  slaves but not the responses and statuses they have set since, as only the
  configuration is kept for late receivers.
* The nodes of controllers that have left stay, so that the master counts on them.
* `SendFrame` with `SlaveResponse` for an identifier that the master transmits itself is
  ignored without an event.

### Fairness

Weak fairness of each IO thread: as long as a job or a message is there, the
thread takes one. Nothing is assumed of the order in which the IO context serves
its queue and its sockets. Weak fairness of the user where the protocol
relies on it: a lifecycle is started, a handler returns, an asynchronous step or
ready handler is completed, in `TimeSync` a paused participant is continued and a
stopped one destroyed. Nothing is assumed of pausing, stopping, aborting, changing
the period, creating controllers or crashing.

`Joining`: threads that can go on do, and the registry reads what it is sent. Every
such step uses up a message, an attempt, a timer or a line of the program, so that
one fairness condition for all of them says the same as one for each. That a
connection attempt ends is the job of `ConnectPeer` with its timeout. `Rpc`: a call
that was begun is sent, the IO thread goes on, time ticks; a server need never
answer, and a user need never call. `Transport`: the operating system completes
writes and reads, timers that run expire, the receiver's IO thread goes on. `Lin`:
messages that were sent arrive.

## 4. Proofs

Each theorem holds for every value of the constants that the named assumptions of its
model admit; TLC evaluates these in every run. Where a theorem has a further hypothesis it
is stated here with the reason. Each proof has the same form: an inductive invariant, one
lemma per action that it is preserved, and the properties as consequences.

### Virtual time: `TimeSyncProofs`, `TimeGroupProofs`

* `TypeCorrect`: `Spec => []TypeOK`;
* `ChronologyHolds`: `Spec => []Chronology`, the announcements on every connection
  never go back, so that the "Chonology error" of `OnReceiveNextSimStep` is
  never logged;
* `TimeIncreases`: `Spec => TimeOnlyIncreases`;
* `StepsWait`: `Spec => StepWaitsForOthers`;
* `RunningStaysKnown`: `Spec => []RunningIsKnown`;
* `GroupKeepsConservativeTime`: `Spec => ImplementsConservativeTime`, under `Together`;
* `JoinsAdvanced`: `Spec => JoinsAtAdvancedTime`, under `OneJoins`.

Assumed: `ParticipantsAssumption` (coordinated and blocking participants are
participants, step sizes are positive) and `BoundsAssumption`.

The inductive invariant `Inv` has six parts. Four are types, split by the
variables that change together. `OwnTime` relates a participant's own times:
its next step lies after its current one, and until it has executed a step or
hopped on its next step is at 0. `ChronologyOf(ch, view, nx)` is the property
itself with the queues, the stored times and the next times as parameters, so
that it can be carried through the stages of a handler. It is not inductive
alone: that a step moves `next` forward needs the first half of `OwnTime`, that
hopping on does not move it back needs the second.
The messages of a connection are handled by lemmas on queues (what appending an
announcement, taking the first message and cutting the rest off do to
`Chronological`), and one lemma per shared operator (`RequestNextStep`,
`AdvanceTimeStep`, `ProcessSimulationTimeUpdate`, ...) serves all actions that use it.
`StepsWait` follows from the chronology: the stored time of another is never beyond its
real next time, so that waiting for the stored ones is waiting for the real ones.

`RunningStaysKnown` is what the barrier of `ServicesCreated` is for. Its invariant
`Introduced` says it the other way round: a participant that some q does not know yet is
a `Stranger` to q. It has not run; and either it has not asked for the barrier, or the
reply of q is still outstanding and the announcement of the service is ahead of the call
that asks for it. As connections keep the order, q knows the service before it replies.

The refinement needs three hypotheses, together called `Together`, and each excludes
behaviour of the code that is listed under the observations. All participants are
coordinated: a joiner may enter behind a step still to come. Step sizes are fixed: a
changed one makes others look advanced, and they hop on. Who pauses executes its steps
on the IO thread: `Continue` otherwise requests a step in the middle of an open one.
`GroupInv` adds to the above that a service is announced once (`Hails`); that from
the first start on everybody knows everybody (`Assembled`); that nobody steps
before it has started, hops on or announces while a step is open (`Calm`); and that what
others have stored or will receive of a participant is not beyond its *floor*, the
earliest time at which it may still act (`Announced`, the chronology with floors in
place of next steps). Each action then is a step of `ConservativeTime` or changes
nothing of it (`Sim`).

`JoinsAdvanced` holds for any number of coordinated participants, any fixed step sizes,
which may differ, and at most one autonomous participant, which starts whenever it likes;
nobody pauses, stops or crashes (`OneJoins`, which the run `TimeSyncJoin` satisfies). The
hypotheses exclude what the observations describe: a changed step size makes others look
advanced or not, and the stale time of a participant that leaves attracts a joiner. Leaving
is not excluded altogether: a coordinated participant that would have to hop on aborts the
simulation, and the others leave. Of the invariant `JoinInv`, `Tells` is the heart. Let q
have advanced and p not have executed a step. If q knows p, then q's next time is
stored at p or under way to p, ahead of any reply of q; once p has its reply, it is
stored. This stays true because p, at time 0, holds q up as soon as q knows it, and
because q repeats its announcement when it meets p. So p, when it runs, sees who has
advanced, and does not start at 0. It hops on at the smallest of these times, and that
nobody has passed that time is `Peace`: before the latecomer's first step nobody leaves or
hops on and no coordinated participant is ahead of another's next step. `Waits`, `Hopped`
and `Hovers` are the same for a coordinated participant that meets an autonomous one
which has advanced alone. The proof first reduces every action to one relation (`Frame`)
that says what may happen to a queue, a stored time, a barrier and the own time of a
participant, and then derives each part of the invariant from it.

### Orchestration: `OrchestrationProofs`

* `TypeCorrect`: `Spec => []TypeOK`;
* `FinalKnown`: `Spec => []FinalIsKnown`;
* `NobodyIsMissed`: `Spec => NoFalseAlarm`;
* `StartInvHolds`, `StartsTogether`: `Spec => []StartTogether`, if all are required;
* `StopInvHolds`, `StopArrives`: `Spec => StoppingHasArrived`, if all are required.

`FinalIsKnown` rests on the last barrier, whose calls carry no identifier: a reply must
not be taken for that to another barrier. `Tokens` excludes this. The barrier of p is at q
in exactly one place, as a job of p, a message to q, a job of q or a message to p, and
only while p expects q to reply. `LastBarrier` adds what this token passes: the status
`Shutdown` is announced before the final barrier is asked for, is ahead of its call on
every connection, and is known to q as soon as the reply is under way. `Finished` is the
property for as long as the connection is open. Events of the lifecycle
return sets of records; lemmas about each (`Follows`: no part of a barrier is added, the
order of jobs is kept) carry the invariant through the chains of jobs they append.

`StartTogether` is about the first barrier and the system state computed from statuses,
which are always late. In `StartInv`, `OneStart` says of one IO thread that its first
barrier is asked for once and completed before anything that follows it: whoever is
`ReadyToRun` or beyond, or has a status saying so among its jobs, has no first
barrier left. `Announces` says of two participants that the status `ServicesCreated` of
the one arrives at the other before all its further statuses of a start, and that a
status from `ReadyToRun` on is announced only by one that is past its start. `NotAgain` is why
no second first barrier is asked for: all `ServicesCreated` have arrived, so that no
later status makes the system state `ServicesCreated` anew. `RunsLast` is then the
property: who is coordinated and runs has seen `ReadyToRun` or more of everybody. Aborts and
errors are what makes this hard: a participant that is aborted during its first barrier
is taken from `Shutdown` back to `CommunicationInitializing` when that completes, so that
"past its start" (`Past`) is a matter of the barriers left, not of the state alone.

`AllRequired`, `Required = Participants`, is needed. With a third participant u that is not
required, TLC finds: b reports an error during its first barrier, the system state of a
becomes `Error`; the barrier of b completes and takes it back to its starting states; u
crashes, a's monitor recomputes the system state, finds `ServicesCreated`, and a, already on
its way to `Running`, asks for a first barrier again. When that is complete a falls back
from `Running` to `CommunicationInitializing` while b runs.

`StoppingHasArrived` rests on the order of jobs and messages. `UpToDate`: the last status of p
on its way to q, first among its jobs, then on the connection, is the state of p; if
there is none, q has stored it, or `Shutdown`, which a monitor never forgets.
`StopsBehind`: among the jobs of a stopped p no status is behind the barrier of
`StoppedState`; and once that is asked for no status is behind its call, which is
among the jobs, on the connection, or has arrived with all statuses before it. The proof uses
`Tokens` (the call is in one place) and `OneStart` (the barrier a stopped participant
completes is its own, not the first).

### Joining: `JoiningProofs`

* `TypeCorrect`: `Spec => []TypeOK`;
* `StagesAdvance`: `Spec => StagesOnlyAdvance`;
* `JoinedHasReplies`: `Spec => []JoinedMeansAllReplied`, if names differ;
* `AllAreConnected`: `Spec => []EverybodyConnected`, if names differ.

`Inv` follows a process from its announcement to the registry: it is told once who is
there, before the reply that lets it go on (`Registration`); peers have stages
only after that (`Peers`); and once some thread in `UpdateStage` has seen that all have
replied this remains so (`Completion`), which is why the missing lock does no harm. The
last two theorems add that a reply under way, on a connection or by proxy, comes from
one that has heard the receiver (`Replies`) and that of two processes the registry has
filed one is told of the other, or is about to be (`Filed`). They assume
`NamesDiffer`: the registry relays replies by name, and by the second finding two
processes of one name may both be admitted; a proxy's reply then reaches the wrong one.

### Transport: `TransportProofs`

* `TypeCorrect`: `Spec => []TypeOK`;
* `RingStaysSound`: `Spec => []RingIsSound`;
* `DeliversWhole`: `Spec => []DeliveredWhole`;
* `RefinesChannel`: `Spec => ImplementsChannel`.

Three lemmas say what the operations of the ring buffer do to the bytes it holds, read
from the read position on, wherever they wrap around: `AdvanceRead` drops the first,
`AdvanceWrite` appends those that arrive in the two pieces of free memory, `ReserveBytes`
changes nothing. They rest on one fact about `%`: a position is never more than one round
ahead (`Modulo`). The invariant is `Straight`: what is in the ring buffer, then in the
socket, then in the rest of the buffer being written is one stream in which each byte is
followed by the next of its message or, at its end, by the first of another; and the
stream ends with a message unless the sender has shut down. Everything else the sender
holds is whole messages (`Outgoing`), so that the next buffer may follow where the last
one ended. The receiver therefore always stands at the start of a message
(`Incoming`), reads its size from a whole size field, and has room for the rest.

For the refinement the messages under way are read off the stream by `Completed`, a
recursive function. `Done` describes the same without recursion, as the concatenation of
what each byte completes. That the two agree, and that `Done` takes concatenations to
concatenations, is proved by induction over the length with a set of numbers in place of
a predicate. Moving bytes along the stream then leaves the mapped state alone, a whole
message sent or dispatched is one step of `Channel`, and what is aggregated is what
`Channel` holds back. That nothing overtakes it needs one more invariant: before
aggregation is enabled nothing is held back (`EnabledHolds`), so that user data and flush
messages sent directly have nothing to overtake. Only the shutdown of the sender cuts the
stream; it is the one step mapped to `Close`.

### Service discovery: `DiscoveryProofs`

* `TypeCorrect`: `Spec => []TypeOK`;
* `ClustersStayExact`: `Spec => []ClustersExact`;
* `MandatoryMeets`: `Spec => MandatoryMeetsAll`;
* `NoticesComeInPairs`: `Spec => []NoticesPair`.

`TypeOK` and `ClustersExact` are inductive together. The proof says for a single cluster
what adding and removing a party does (`FiledFor`), with the loop of `Erase` by
induction over its prefix, and lifts that to the entry. `MandatoryMeets` then is an
argument about `Candidates`: the greedy label, if there is one, is a mandatory one;
whoever matches carries it and is in its cluster, which is exact and lists everybody once.
With an optional label also those that lack its key have to be visited, whose cluster is
not exact (first finding). `NoticesComeInPairs` uses the same from both sides: the calls of
a creation or a removal reach each matching handler exactly once, and the calls of a
registration each matching service that is there once and none that is not
(`AbsentIsNotMet`); the invariant adds that no service is both present and gone.

### Remote procedure calls: `RpcProofs`

* `TimedOutCallsAreOver`: `Spec => []TimeoutIsFinal`, if time is synchronized;
* `ForgottenCallsAreComplete`: `Spec => []ForgottenIsComplete`, if time is synchronized;
* `CounterStaysExact`: `Spec => []CounterIsExact`;
* `TypeCorrect`: `Spec => []TypeOK`.

Assumed: `CallsAssumption`, `TimeAssumption` and, to count them, that the servers are
finitely many (`ServersAssumption`). The hypothesis `Synchronized` of the first two is
needed: without a synchronized time `TimeHandler` has its own thread and
may report a timeout between the lookup of a call in `ReceiveMessage` and the delivery of
its return. `Exclusive` is where the proof uses it: while the IO thread handles a return
no timeout is being handled and the call stays filed. The other parts of the
inductive invariant `CallInv` are `Fresh` (no results before a call is filed), `Late` (a
call with a timeout among its results is not filed, so that nothing is appended after
it), `Counted` (results and returns still awaited add up to what the call was filed with,
plus one between delivery and count) and `Forgotten` (`ForgottenIsComplete` for calls
whose `TriggerCall` is still sending too, which a timeout may overtake). For the counter
the invariant is on the streams (`Announces`: subscription, announcement and shutdown of a
server are read in this order, each once); the counter is then the number of servers whose
announcement has been read and whose shutdown has not, and never negative, which
`TypeOK` needs.

### LIN: `LinProofs`

* `TypeCorrect`: `Spec => []TypeOK`;
* `CopiesCatchUp`: `Spec => []ViewsCatchUp`;
* `RespondedStaysExact`: `Spec => []RespondedIsExact`.

`ViewsCatchUp` folds the messages under way into the copy of a node. The proof first
shows that the fold follows the *path* of nodes that arises when the messages are handled
one by one, by induction with a set of numbers in place of a predicate, and then only
speaks of paths. The invariant `FromSlaves` is that some path leads from each copy to what
the slave actually is and that every message on it fits (`Fits`): a configuration
comes first and no response takes an unconditional one back. That is also why the set
`_linIdsRespondedBySlaves`, from which nothing is ever removed, stays exact.

### Only model-checked

* Liveness, which is out of the prover's reach: `Progress`, `EverybodyRuns`,
  `StopCompletes`, `TimedCallEnds`, `FlushedArrives`, `JoinReturns`, `OutcomeIsReported`.
* `StartTogether` and `StoppingHasArrived` where some participants are not required.

## 5. Not modelled

* A workflow configuration that arrives after statuses; a participant without
  lifecycle or without time synchronization.
* Wall clock coupling and its thread, which reads a real clock; the watchdog, which
  only reports.
* The announcement of services by the service discovery, except for the time
  synchronization service and for RPC servers: messages on ordered links, with the
  store, which is modelled, behind them.
* Publish/subscribe beyond matching: data, histories. CAN, Ethernet and FlexRay: in
  trivial simulation they pass frames on, otherwise the protocol is in an external
  network simulator; so is the detailed behaviour of LIN. LIN payloads, transmit buffer
  updates and replay.
* Several simulations in one registry, incompatible protocol versions, acceptors and
  URIs, socket options.
* Data races within a process, such as the unlocked read of `_otherNextTasks` in
  `GetSynchronizedParticipantNames`, the unlocked `_activeCalls` of `RpcServerInternal`,
  and the instant between the two flags in `StartLifecycle`.
* Tracing, dashboard, configuration, logging, serialization, C API: input and
  output or conversions without a protocol.

By lines, most of the repository is of the last kind: tests (unit and integration
tests, mocks), the C API and its C++ wrapper headers, configuration and its
conversions, serialization of every message type, the dashboard's generated transfer
objects, utilities and demos. What has state of its own that outlives a call, and
is changed by more than one thread or process, is a few thousand lines, of which
the modules cover the larger part.

## 6. Plan

1. (done) `TimeSync`, its abstract specification and first theorems;
   `SystemState` and `Orchestration` with their runs.
2. (done) `Joining`, `Transport` with `Channel`, `DiscoveryStore`, `Rpc`, `Lin`.
3. (done) Proofs: all safety properties, up to the hypotheses named in section 4, and
   the refinements of `ConservativeTime` and of `Channel`.
4. The wall clock thread against the IO thread; publish/subscribe histories.
