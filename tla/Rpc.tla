--------------------------------- MODULE Rpc ---------------------------------
(***************************************************************************)
(* Remote procedure calls: one RpcClient and the RpcServerInternal that    *)
(* every matching RpcServer creates for it on another participant.         *)
(*                                                                         *)
(* The client keeps the number of servers it has discovered.  A call notes *)
(* that number, is sent to every subscribed server and is forgotten after  *)
(* as many returns, or when its timeout expires.  Three threads meet in    *)
(* the client: the user's (TriggerCall), the IO thread (discovery events,  *)
(* returns, sending) and the one on which the time provider ticks, which   *)
(* is the IO thread when the participant has a synchronized virtual time   *)
(* and a timer thread when it has none.                                    *)
(*                                                                         *)
(* The call handlers of client and server are the user's; the result a     *)
(* handler is called with is appended to results.  Call identifiers are    *)
(* random UUIDs, taken to be distinct.                                     *)
(***************************************************************************)
EXTENDS Integers, Sequences, FiniteSets

CONSTANTS
  Servers,       \* the participants with a matching RpcServer
  Calls,         \* the calls the client's user makes, at most once each
  Timed,         \* those made with CallWithTimeout
  Synchronized,  \* TRUE: virtual time, ticks on the IO thread
  Leavers,       \* the servers that may leave
  MaxTimeout     \* bound: the longest timeout, in ticks

ASSUME CallsAssumption == Timed \subseteq Calls /\ Leavers \subseteq Servers
ASSUME ServersAssumption == IsFiniteSet(Servers)
ASSUME TimeAssumption == Synchronized \in BOOLEAN /\ MaxTimeout \in Nat \ {0}

VARIABLES
  counterparts,  \* _numCounterparts of the client
  receivers,     \* the servers the client's transmitter sends to
  user,          \* the user thread inside TriggerCall: <<>> or <<where, call>>
  called,        \* the calls made
  active,        \* the keys of _activeCalls
  remaining,     \* RpcCallInfo::_remainingReturnCount
  pending,       \* the calls in _timeoutEntries
  timeLeft,      \* TimeoutEntry::timeLeft
  jobs,          \* FunctionCalls posted to the IO thread
  io,            \* the IO thread inside ReceiveMessage: <<>> or <<where, call, status>>
  expired,       \* timeoutedEntries, while TimeHandler runs
  results,       \* results[c]: what the result handler was called with for c
  expected,      \* expected[c]: the returns call c was filed with
  server,        \* "absent", "up" or "left"
  hasHandler,    \* the servers that have a call handler
  open,          \* open[s]: _activeCalls of the RpcServerInternal of s
  down,          \* down[s]: calls on their way to s
  up             \* up[s]: messages of s on their way to the client

clientVars == <<user, called, active, remaining, pending, timeLeft, expected>>
serverVars == <<server, hasHandler, open>>
vars == <<counterparts, receivers, clientVars, jobs, io, expired, results, serverVars, down, up>>

ReturnStatus == {"Success", "InternalError"}
Status == ReturnStatus \cup {"ServerNotReachable", "Timeout"}

Return(c, status) == [kind |-> "return", call |-> c, status |-> status]
Subscribe == [kind |-> "subscribe"]
Created == [kind |-> "created"]
Shutdown == [kind |-> "shutdown"]

-----------------------------------------------------------------------------
Init ==
  /\ counterparts = 0 /\ receivers = {}
  /\ user = <<>> /\ called = {}
  /\ active = {} /\ remaining = [c \in Calls |-> 0] /\ expected = [c \in Calls |-> 0]
  /\ pending = {} /\ timeLeft = [c \in Calls |-> 0]
  /\ jobs = <<>> /\ io = <<>> /\ expired = {}
  /\ results = [c \in Calls |-> <<>>]
  /\ server = [s \in Servers |-> "absent"]
  /\ hasHandler = {}
  /\ open = [s \in Servers |-> {}]
  /\ down = [s \in Servers |-> <<>>]
  /\ up = [s \in Servers |-> <<>>]

(* The IO thread runs one handler at a time; TimeHandler is one of them if *)
(* the time is synchronized.                                               *)
IoThreadIsFree == io = <<>> /\ (Synchronized => expired = {})

CallHandler(c, status) == results' = [results EXCEPT ![c] = Append(@, status)]

-----------------------------------------------------------------------------
(* The user thread of the client. *)

(* TriggerCall, first test of _numCounterparts. *)
TriggerCall(c) ==
  /\ user = <<>>
  /\ c \notin called
  /\ called' = called \cup {c}
  /\ IF counterparts = 0
       THEN CallHandler(c, "ServerNotReachable") /\ UNCHANGED user
       ELSE user' = <<"file", c>> /\ UNCHANGED results
  /\ UNCHANGED <<counterparts, receivers, active, remaining, pending, timeLeft, expected,
                 jobs, io, expired, serverVars, down, up>>

(* _numCounterparts is read a second time for the entry in _activeCalls.   *)
FileCall ==
  /\ user # <<>> /\ user[1] = "file"
  /\ LET c == user[2]
     IN  /\ active' = active \cup {c}
         /\ remaining' = [remaining EXCEPT ![c] = counterparts]
         /\ expected' = [expected EXCEPT ![c] = counterparts]
         /\ user' = <<IF c \in Timed THEN "arm" ELSE "send", c>>
  /\ UNCHANGED <<counterparts, receivers, called, pending, timeLeft, jobs, io, expired,
                 results, serverVars, down, up>>

ArmTimeout ==
  /\ user # <<>> /\ user[1] = "arm"
  /\ \E t \in 1..MaxTimeout :
       /\ pending' = pending \cup {user[2]}
       /\ timeLeft' = [timeLeft EXCEPT ![user[2]] = t]
  /\ user' = <<"send", user[2]>>
  /\ UNCHANGED <<counterparts, receivers, called, active, remaining, expected, jobs, io,
                 expired, results, serverVars, down, up>>

SendMsg ==
  /\ user # <<>> /\ user[1] = "send"
  /\ jobs' = Append(jobs, user[2])
  /\ user' = <<>>
  /\ UNCHANGED <<counterparts, receivers, called, active, remaining, pending, timeLeft,
                 expected, io, expired, results, serverVars, down, up>>

-----------------------------------------------------------------------------
(* The IO thread of the client.  What is sent to a server that left is     *)
(* lost.                                                                   *)

SendJob ==
  /\ IoThreadIsFree
  /\ jobs # <<>>
  /\ jobs' = Tail(jobs)
  /\ down' = [s \in Servers |-> IF s \in receivers /\ server[s] = "up"
                                  THEN Append(down[s], Head(jobs)) ELSE down[s]]
  /\ UNCHANGED <<counterparts, receivers, clientVars, io, expired, results, serverVars, up>>

Receives(s, kind) ==
  /\ IoThreadIsFree
  /\ up[s] # <<>> /\ Head(up[s]).kind = kind
  /\ up' = [up EXCEPT ![s] = Tail(@)]

ReceiveSubscription(s) ==
  /\ Receives(s, "subscribe")
  /\ receivers' = receivers \cup {s}
  /\ UNCHANGED <<counterparts, clientVars, jobs, io, expired, results, serverVars, down>>

ServerCreated(s) ==
  /\ Receives(s, "created")
  /\ counterparts' = counterparts + 1
  /\ UNCHANGED <<receivers, clientVars, jobs, io, expired, results, serverVars, down>>

(* The removal is counted for the participant and for its service. *)
PeerShutdownCountsTwice(s) ==
  /\ Receives(s, "shutdown")
  /\ counterparts' = counterparts - 2
  /\ receivers' = receivers \ {s}
  /\ UNCHANGED <<clientVars, jobs, io, expired, results, serverVars, down>>

(* The handler for discovery events ignores removals. *)
PeerShutdownKeepsCount(s) ==
  /\ Receives(s, "shutdown")
  /\ receivers' = receivers \ {s}
  /\ UNCHANGED <<counterparts, clientVars, jobs, io, expired, results, serverVars, down>>

(* The connection to s is lost: the service discovery reports the removal  *)
(* of its services, if it knew them, and the transmitter drops it.         *)
PeerShutdown(s) ==
  /\ Receives(s, "shutdown")
  /\ counterparts' = counterparts - 1
  /\ receivers' = receivers \ {s}
  /\ UNCHANGED <<clientVars, jobs, io, expired, results, serverVars, down>>

(* A return is delivered without looking its call up. *)
ReceiveReturnUnchecked(s) ==
  /\ Receives(s, "return")
  /\ io' = <<"deliver", Head(up[s]).call, Head(up[s]).status>>
  /\ UNCHANGED <<counterparts, receivers, clientVars, jobs, expired, results, serverVars, down>>

(* ReceiveMessage looks the call up under the lock; it is released before  *)
(* the handler is called and the count decremented.                        *)
ReceiveReturn(s) ==
  /\ Receives(s, "return")
  /\ LET m == Head(up[s])
     IN  io' = IF m.call \in active THEN <<"deliver", m.call, m.status>> ELSE <<>>
  /\ UNCHANGED <<counterparts, receivers, clientVars, jobs, expired, results, serverVars, down>>

DeliverReturn ==
  /\ io # <<>> /\ io[1] = "deliver"
  /\ CallHandler(io[2], io[3])
  /\ io' = <<"count", io[2], io[3]>>
  /\ UNCHANGED <<counterparts, receivers, clientVars, jobs, expired, serverVars, down, up>>

(* The call is forgotten one return too early. *)
CountReturnEarly ==
  /\ io # <<>> /\ io[1] = "count"
  /\ io' = <<>>
  /\ remaining' = [remaining EXCEPT ![io[2]] = @ - 1]
  /\ active' = IF remaining[io[2]] - 1 <= 1 THEN active \ {io[2]} ELSE active
  /\ UNCHANGED <<counterparts, receivers, user, called, pending, timeLeft, expected, jobs,
                 expired, results, serverVars, down, up>>

(* If the entry was erased meanwhile the iterator dangles; the decrement   *)
(* of the freed memory has no defined effect, and is taken to have none.   *)
CountReturn ==
  /\ io # <<>> /\ io[1] = "count"
  /\ io' = <<>>
  /\ LET c == io[2]
     IN  IF c \in active
           THEN /\ remaining' = [remaining EXCEPT ![c] = @ - 1]
                /\ active' = IF remaining[c] - 1 <= 0 THEN active \ {c} ELSE active
           ELSE UNCHANGED <<remaining, active>>
  /\ UNCHANGED <<counterparts, receivers, user, called, pending, timeLeft, expected, jobs,
                 expired, results, serverVars, down, up>>

-----------------------------------------------------------------------------
(* The time provider. *)

(* TimeHandler, first loop: one tick off every entry. *)
Tick ==
  /\ IF Synchronized THEN IoThreadIsFree ELSE expired = {}
  /\ pending # {}
  /\ LET due == {c \in pending : timeLeft[c] <= 1}
     IN  /\ timeLeft' = [c \in Calls |-> IF c \in pending THEN timeLeft[c] - 1 ELSE timeLeft[c]]
         /\ pending' = pending \ due
         /\ expired' = due
  /\ UNCHANGED <<counterparts, receivers, user, called, active, remaining, expected, jobs, io,
                 results, serverVars, down, up>>

(* The entry is erased and nobody told. *)
ExpireSilently(c) ==
  /\ c \in expired
  /\ expired' = expired \ {c}
  /\ active' = active \ {c}
  /\ UNCHANGED <<counterparts, receivers, user, called, remaining, pending, timeLeft, expected,
                 jobs, io, results, serverVars, down, up>>

(* TimeHandler, second loop; the order of the entries makes no difference  *)
(* to a single call.  For a call that has got its returns the lookup       *)
(* yields end(), which is dereferenced before it is compared; the value    *)
(* read is not used.                                                       *)
Expire(c) ==
  /\ c \in expired
  /\ expired' = expired \ {c}
  /\ active' = active \ {c}
  /\ IF c \in active THEN CallHandler(c, "Timeout") ELSE UNCHANGED results
  /\ UNCHANGED <<counterparts, receivers, user, called, remaining, pending, timeLeft, expected,
                 jobs, io, serverVars, down, up>>

-----------------------------------------------------------------------------
(* The servers. *)

(* An RpcServer that discovers the client creates its RpcServerInternal,   *)
(* which subscribes to the calls and is then announced.                    *)
AddInternalRpcServer(s) ==
  /\ server[s] = "absent"
  /\ server' = [server EXCEPT ![s] = "up"]
  /\ up' = [up EXCEPT ![s] = @ \o <<Subscribe, Created>>]
  /\ UNCHANGED <<counterparts, receivers, clientVars, jobs, io, expired, results, hasHandler,
                 open, down>>

SetCallHandler(s) ==
  /\ server[s] # "left"
  /\ s \notin hasHandler
  /\ hasHandler' = hasHandler \cup {s}
  /\ UNCHANGED <<counterparts, receivers, clientVars, jobs, io, expired, results, server, open,
                 down, up>>

(* RpcServerInternal::ReceiveMessage. *)
ReceiveCall(s) ==
  /\ server[s] = "up"
  /\ down[s] # <<>>
  /\ down' = [down EXCEPT ![s] = Tail(@)]
  /\ LET c == Head(down[s])
     IN  IF s \notin hasHandler \/ c \in open[s]
           THEN up' = [up EXCEPT ![s] = Append(@, Return(c, "InternalError"))] /\ UNCHANGED open
           ELSE open' = [open EXCEPT ![s] = @ \cup {c}] /\ UNCHANGED up
  /\ UNCHANGED <<counterparts, receivers, clientVars, jobs, io, expired, results, server,
                 hasHandler>>

(* The user of s answers, now or later. *)
SubmitResult(s, c) ==
  /\ server[s] = "up"
  /\ c \in open[s]
  /\ open' = [open EXCEPT ![s] = @ \ {c}]
  /\ up' = [up EXCEPT ![s] = Append(@, Return(c, "Success"))]
  /\ UNCHANGED <<counterparts, receivers, clientVars, jobs, io, expired, results, server,
                 hasHandler, down>>

Leave(s) ==
  /\ s \in Leavers
  /\ server[s] = "up"
  /\ server' = [server EXCEPT ![s] = "left"]
  /\ up' = [up EXCEPT ![s] = Append(@, Shutdown)]
  /\ down' = [down EXCEPT ![s] = <<>>]
  /\ UNCHANGED <<counterparts, receivers, clientVars, jobs, io, expired, results, hasHandler,
                 open>>

-----------------------------------------------------------------------------
UserThread == (\E c \in Calls : TriggerCall(c)) \/ FileCall \/ ArmTimeout \/ SendMsg

Receive(s) ==
  ReceiveSubscription(s) \/ ServerCreated(s) \/ PeerShutdown(s) \/ ReceiveReturn(s)

IoThread == SendJob \/ (\E s \in Servers : Receive(s)) \/ DeliverReturn \/ CountReturn

Server(s) ==
  \/ AddInternalRpcServer(s) \/ SetCallHandler(s) \/ ReceiveCall(s) \/ Leave(s)
  \/ \E c \in Calls : SubmitResult(s, c)

Next == UserThread \/ IoThread \/ Tick \/ (\E c \in Calls : Expire(c)) \/ \E s \in Servers : Server(s)

Spec == Init /\ [][Next]_vars

(* TriggerCall returns once entered, the IO thread and time go on.  A      *)
(* server's user need never answer.                                        *)
Fairness ==
  /\ WF_vars(FileCall \/ ArmTimeout \/ SendMsg)
  /\ WF_vars(IoThread)
  /\ WF_vars(Tick)
  /\ WF_vars(\E c \in Calls : Expire(c))

FairSpec == Spec /\ Fairness

-----------------------------------------------------------------------------
Message ==
  {Subscribe, Created, Shutdown} \cup [kind : {"return"}, call : Calls, status : ReturnStatus]

(* Every variable keeps its type; the counter of servers is never negative. *)
TypeOK ==
  /\ counterparts \in Nat
  /\ receivers \subseteq Servers
  /\ user \in {<<>>} \cup ({"file", "arm", "send"} \X Calls)
  /\ called \subseteq Calls /\ active \subseteq Calls /\ pending \subseteq Calls
  /\ expired \subseteq Calls
  /\ remaining \in [Calls -> Int] /\ timeLeft \in [Calls -> Int] /\ expected \in [Calls -> Int]
  /\ jobs \in Seq(Calls)
  /\ io \in {<<>>} \cup ({"deliver", "count"} \X Calls \X ReturnStatus)
  /\ results \in [Calls -> Seq(Status)]
  /\ server \in [Servers -> {"absent", "up", "left"}]
  /\ hasHandler \subseteq Servers
  /\ open \in [Servers -> SUBSET Calls]
  /\ down \in [Servers -> Seq(Calls)]
  /\ up \in [Servers -> Seq(Message)]

(* The counter of servers never wraps below zero, although servers appear  *)
(* and disappear while calls read it: it is the number of servers whose    *)
(* announcement was handled and whose loss was not.                        *)
CounterIsExact ==
  counterparts = Cardinality({s \in receivers : \A i \in DOMAIN up[s] : up[s][i] # Created})

(* After a timeout was reported no further result is reported for a call,  *)
(* however late its returns arrive.                                        *)
TimeoutIsFinal ==
  \A c \in Calls : \A i \in DOMAIN results[c] : results[c][i] = "Timeout" => i = Len(results[c])

(* A call is forgotten only when it has as many results as servers were    *)
(* known when it was made, or has timed out, or found no server.           *)
ForgottenIsComplete ==
  \A c \in called \ active :
    \/ user # <<>> /\ user[2] = c
    \/ Len(results[c]) >= expected[c] /\ results[c] # <<>>
    \/ results[c] # <<>> /\ results[c][Len(results[c])] \in {"Timeout", "ServerNotReachable"}

(* A call with a timeout ends, whatever its servers do: its user gets a    *)
(* result and the client keeps no entry of it.                             *)
TimedCallEnds ==
  \A c \in Timed : c \in called ~> results[c] # <<>> /\ c \notin active \cup pending

=============================================================================
