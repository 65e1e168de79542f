----------------------------- MODULE RpcProofs -----------------------------
(***************************************************************************)
(* Theorems about Rpc, for any servers, calls and timeouts, where the time *)
(* provider ticks on the IO thread.                                        *)
(***************************************************************************)
EXTENDS Rpc, FiniteSetTheorems, TLAPS

(* The type invariant without the sign of the counter of servers. *)
Types ==
  /\ counterparts \in Int
  /\ receivers \subseteq Servers
  /\ user \in {<<>>} \cup ({"file", "arm", "send"} \X Calls)
  /\ called \subseteq Calls /\ active \subseteq Calls /\ pending \subseteq Calls
  /\ expired \subseteq Calls
  /\ remaining \in [Calls -> Int] /\ timeLeft \in [Calls -> Int] /\ expected \in [Calls -> Int]
  /\ jobs \in Seq(Calls)
  /\ io \in {<<>>} \cup ({"deliver", "count"} \X Calls \X ReturnStatus)
  /\ results \in [Calls -> Seq(Status)]
  /\ server \in [Servers -> {"absent", "up", "left"}]
  /\ hasHandler \subseteq Servers
  /\ open \in [Servers -> SUBSET Calls]
  /\ down \in [Servers -> Seq(Calls)]
  /\ up \in [Servers -> Seq(Message)]

(* TriggerCall of c is before the entry in _activeCalls. *)
NotFiled(c) == user # <<>> /\ user[1] = "file" /\ user[2] = c

(* The result handler was called for c and the return is not counted yet. *)
NotCounted(c) == io # <<>> /\ io[1] = "count" /\ io[2] = c

(* A call that was not made, or is not filed yet, has no results. *)
Fresh ==
  /\ \A c \in Calls : c \notin called \/ NotFiled(c) => results[c] = <<>> /\ c \notin active
  /\ user # <<>> => user[2] \in called

(* While the IO thread handles a return its call stays filed, because no   *)
(* timeout is being handled.                                               *)
Exclusive == io # <<>> => io[2] \in active /\ expired = {}

(* A timeout is the last result of a call that is forgotten. *)
Late ==
  \A c \in Calls : \A i \in 1..Len(results[c]) :
    results[c][i] = "Timeout" => i = Len(results[c]) /\ c \notin active

(* Of a call that is filed, the results and the returns still awaited are  *)
(* together as many as it was filed with.                                  *)
Counted ==
  \A c \in active :
    IF NotCounted(c) THEN Len(results[c]) + remaining[c] = expected[c] + 1 /\ results[c] # <<>>
                     ELSE Len(results[c]) + remaining[c] = expected[c]

(* The call has the results for which it may be forgotten. *)
Complete(c) ==
  /\ results[c] # <<>>
  /\ \/ Len(results[c]) >= expected[c]
     \/ results[c][Len(results[c])] \in {"Timeout", "ServerNotReachable"}

(* ForgottenIsComplete, for a call whose TriggerCall is still sending too. *)
Forgotten == \A c \in called \ active : NotFiled(c) \/ Complete(c)

CallInv == Fresh /\ Exclusive /\ Late /\ Counted /\ Forgotten

Inv == Types /\ CallInv

(* What CallInv speaks of. *)
callVars == <<user, called, active, remaining, expected, io, expired, results>>

-----------------------------------------------------------------------------
(* A return in a queue of messages names a call and a status. *)
LEMMA MessageKinds ==
  ASSUME NEW m \in Message, m.kind = "return"
  PROVE  m.call \in Calls /\ m.status \in ReturnStatus
BY DEF Message, Subscribe, Created, Shutdown

(* Appending to one of a family of sequences keeps the type of the family. *)
LEMMA AppendAt ==
  ASSUME NEW S, NEW T, NEW f \in [S -> Seq(T)], NEW x \in S, NEW e \in T
  PROVE  [f EXCEPT ![x] = Append(@, e)] \in [S -> Seq(T)]
OBVIOUS

(* The elements of a sequence after an append. *)
LEMMA AppendElements ==
  ASSUME NEW T, NEW q \in Seq(T), NEW e \in T, NEW r, r = Append(q, e)
  PROVE  /\ Len(q) \in Nat /\ Len(r) = Len(q) + 1 /\ r # <<>> /\ r[Len(r)] = e
         /\ \A i \in 1..Len(r) : i # Len(r) => i \in 1..Len(q) /\ r[i] = q[i]
OBVIOUS

(* What the result handler leaves behind: one more result of one call. *)
LEMMA CallHandlerEffect ==
  ASSUME results \in [Calls -> Seq(Status)], NEW c \in Calls, NEW st \in Status,
         CallHandler(c, st)
  PROVE  /\ results' \in [Calls -> Seq(Status)]
         /\ \A d \in Calls \ {c} : results'[d] = results[d]
         /\ Len(results[c]) \in Nat /\ Len(results'[c]) = Len(results[c]) + 1
         /\ results'[c] # <<>> /\ results'[c][Len(results'[c])] = st
         /\ \A i \in 1..Len(results'[c]) :
              i # Len(results'[c]) => i \in 1..Len(results[c]) /\ results'[c][i] = results[c][i]
<1>1. results' = [results EXCEPT ![c] = Append(@, st)]
  BY DEF CallHandler
<1>2. results'[c] = Append(results[c], st) /\ results[c] \in Seq(Status)
  BY <1>1
<1>3. results' \in [Calls -> Seq(Status)] /\ \A d \in Calls \ {c} : results'[d] = results[d]
  BY <1>1, AppendAt
<1>4. QED
  BY <1>2, <1>3, AppendElements

(* The type invariant holds initially and is kept by every step. *)
LEMMA InitTypes == Init => Types
BY DEF Init, Types

LEMMA NextTypes ==
  ASSUME Types, [Next]_vars
  PROVE  Types'
<1> USE CallsAssumption, TimeAssumption
<1> USE DEF Types
<1>1. ASSUME NEW c \in Calls, TriggerCall(c)
      PROVE  Types'
  <2>1. user' \in {<<>>} \cup ({"file", "arm", "send"} \X Calls)
    BY <1>1 DEF TriggerCall
  <2>2. results' \in [Calls -> Seq(Status)]
    <3>1. CASE counterparts = 0
      <4>1. "ServerNotReachable" \in Status /\ CallHandler(c, "ServerNotReachable")
        BY <1>1, <3>1 DEF TriggerCall, Status
      <4>2. QED
        BY <4>1, CallHandlerEffect
    <3>2. CASE counterparts # 0
      BY <1>1, <3>2 DEF TriggerCall
    <3>3. QED
      BY <3>1, <3>2
  <2>3. called' \subseteq Calls
    BY <1>1 DEF TriggerCall
  <2>4. QED
    BY <1>1, <2>1, <2>2, <2>3 DEF TriggerCall, serverVars
<1>2. CASE FileCall
  BY <1>2 DEF FileCall, serverVars
<1>3. CASE ArmTimeout
  <2>1. user[2] \in Calls
    BY <1>3 DEF ArmTimeout
  <2>2. user' \in {<<>>} \cup ({"file", "arm", "send"} \X Calls) /\ pending' \subseteq Calls
    BY <1>3, <2>1 DEF ArmTimeout
  <2>3. timeLeft' \in [Calls -> Int]
    BY <1>3, <2>1 DEF ArmTimeout
  <2>4. QED
    BY <1>3, <2>2, <2>3 DEF ArmTimeout, serverVars
<1>4. CASE SendMsg
  <2>1. user[2] \in Calls
    BY <1>4 DEF SendMsg
  <2>2. QED
    BY <1>4, <2>1 DEF SendMsg, serverVars
<1>5. CASE SendJob
  BY <1>5 DEF SendJob, serverVars, clientVars
<1>6. ASSUME NEW s \in Servers, ReceiveSubscription(s)
      PROVE  Types'
  BY <1>6 DEF ReceiveSubscription, Receives, serverVars, clientVars
<1>7. ASSUME NEW s \in Servers, ServerCreated(s)
      PROVE  Types'
  BY <1>7 DEF ServerCreated, Receives, serverVars, clientVars
<1>8. ASSUME NEW s \in Servers, PeerShutdown(s)
      PROVE  Types'
  BY <1>8 DEF PeerShutdown, Receives, serverVars, clientVars
<1>9. ASSUME NEW s \in Servers, ReceiveReturn(s)
      PROVE  Types'
  <2>1. Head(up[s]) \in Message /\ Head(up[s]).kind = "return"
    BY <1>9 DEF ReceiveReturn, Receives
  <2>2. io' \in {<<>>} \cup ({"deliver", "count"} \X Calls \X ReturnStatus)
    BY <1>9, <2>1, MessageKinds DEF ReceiveReturn
  <2>3. up' \in [Servers -> Seq(Message)]
    BY <1>9 DEF ReceiveReturn, Receives
  <2>4. QED
    BY <1>9, <2>2, <2>3 DEF ReceiveReturn, serverVars, clientVars
<1>10. CASE DeliverReturn
  BY <1>10 DEF DeliverReturn, CallHandler, Status, serverVars, clientVars
<1>11. CASE CountReturn
  BY <1>11 DEF CountReturn, serverVars
<1>12. CASE Tick
  BY <1>12 DEF Tick, serverVars
<1>13. ASSUME NEW c \in Calls, Expire(c)
       PROVE  Types'
  <2>1. results' \in [Calls -> Seq(Status)]
    <3>1. CASE c \in active
      <4>1. "Timeout" \in Status /\ CallHandler(c, "Timeout")
        BY <1>13, <3>1 DEF Expire, Status
      <4>2. QED
        BY <4>1, CallHandlerEffect
    <3>2. CASE c \notin active
      BY <1>13, <3>2 DEF Expire
    <3>3. QED
      BY <3>1, <3>2
  <2>2. expired' \subseteq Calls /\ active' \subseteq Calls
    BY <1>13 DEF Expire
  <2>3. QED
    BY <1>13, <2>1, <2>2 DEF Expire, serverVars
<1>14. ASSUME NEW s \in Servers, AddInternalRpcServer(s)
       PROVE  Types'
  <2>1. Subscribe \in Message /\ Created \in Message
    BY DEF Message
  <2>2. QED
    BY <1>14, <2>1 DEF AddInternalRpcServer, clientVars
<1>15. ASSUME NEW s \in Servers, SetCallHandler(s)
       PROVE  Types'
  BY <1>15 DEF SetCallHandler, clientVars
<1>16. ASSUME NEW s \in Servers, ReceiveCall(s)
       PROVE  Types'
  <2>1. down[s] \in Seq(Calls) /\ down[s] # <<>> /\ Head(down[s]) \in Calls
    BY <1>16 DEF ReceiveCall
  <2>2. Return(Head(down[s]), "InternalError") \in Message
    BY <2>1 DEF Return, Message, ReturnStatus
  <2>3. down' \in [Servers -> Seq(Calls)]
    BY <1>16, <2>1 DEF ReceiveCall
  <2>4. up' \in [Servers -> Seq(Message)] /\ open' \in [Servers -> SUBSET Calls]
    <3>1. CASE s \notin hasHandler \/ Head(down[s]) \in open[s]
      <4>1. /\ up' = [up EXCEPT ![s] = Append(@, Return(Head(down[s]), "InternalError"))]
            /\ open' = open
        BY <1>16, <3>1 DEF ReceiveCall
      <4>2. QED
        BY <2>2, <4>1, AppendAt
    <3>2. CASE ~(s \notin hasHandler \/ Head(down[s]) \in open[s])
      <4>1. /\ open' = [open EXCEPT ![s] = @ \cup {Head(down[s])}]
            /\ up' = up
        BY <1>16, <3>2 DEF ReceiveCall
      <4>2. QED
        BY <2>1, <4>1
    <3>3. QED
      BY <3>1, <3>2
  <2>5. QED
    BY <1>16, <2>3, <2>4 DEF ReceiveCall, clientVars
<1>17. ASSUME NEW s \in Servers, NEW c \in Calls, SubmitResult(s, c)
       PROVE  Types'
  <2>1. Return(c, "Success") \in Message
    BY DEF Return, Message, ReturnStatus
  <2>2. QED
    BY <1>17, <2>1 DEF SubmitResult, clientVars
<1>18. ASSUME NEW s \in Servers, Leave(s)
       PROVE  Types'
  <2>1. Shutdown \in Message
    BY DEF Message
  <2>2. QED
    BY <1>18, <2>1 DEF Leave, clientVars
<1>19. CASE UNCHANGED vars
  BY <1>19 DEF vars, clientVars, serverVars
<1>20. QED
  BY <1>1, <1>2, <1>3, <1>4, <1>5, <1>6, <1>7, <1>8, <1>9, <1>10, <1>11, <1>12, <1>13,
     <1>14, <1>15, <1>16, <1>17, <1>18, <1>19
     DEF Next, UserThread, IoThread, Receive, Server

-----------------------------------------------------------------------------
(* A step that touches none of callVars keeps CallInv. *)
LEMMA CallVarsUnchanged ==
  ASSUME CallInv, UNCHANGED callVars
  PROVE  CallInv'
BY DEF CallInv, callVars, Fresh, Exclusive, Late, Counted, Forgotten, NotFiled, NotCounted,
       Complete

LEMMA InitCallInv == Init => CallInv
BY DEF Init, CallInv, Fresh, Exclusive, Late, Counted, Forgotten, NotFiled, NotCounted, Complete

(* The user thread. *)
LEMMA TriggerCallInv ==
  ASSUME Inv, NEW c \in Calls, TriggerCall(c)
  PROVE  CallInv'
<1> USE DEF Inv, Types, CallInv
<1>1. /\ user = <<>> /\ c \notin called /\ called' = called \cup {c}
      /\ UNCHANGED <<active, remaining, expected, io, expired>>
  BY DEF TriggerCall
<1>2. results[c] = <<>> /\ c \notin active
  BY <1>1 DEF Fresh
<1>3. CASE counterparts = 0
  <2>1. CallHandler(c, "ServerNotReachable") /\ user' = user
    BY <1>3 DEF TriggerCall
  <2>2. "ServerNotReachable" \in Status
    BY DEF Status
  <2>3. /\ \A d \in Calls \ {c} : results'[d] = results[d]
        /\ Len(results'[c]) = Len(results[c]) + 1 /\ results'[c] # <<>>
        /\ results'[c][Len(results'[c])] = "ServerNotReachable"
    BY <2>1, <2>2, CallHandlerEffect
  <2>4. Len(results'[c]) = 1
    BY <1>2, <2>3
  <2> HIDE DEF Inv, Types
  <2>5. Fresh'
    BY <1>1, <2>1, <2>3 DEF Inv, Fresh, NotFiled
  <2>6. Exclusive'
    BY <1>1 DEF Inv, Exclusive
  <2>7. Late'
    BY <1>1, <1>2, <2>3, <2>4, Inv DEF Inv, Late
  <2>8. Counted'
    <3>1. \A d \in active : d \in Calls /\ d # c
      BY <1>2 DEF Inv, Types
    <3>2. QED
      BY <1>1, <2>3, <3>1 DEF Inv, Counted, NotCounted
  <2>9. Forgotten'
    <3>1. \A d \in called : d \in Calls /\ d # c
      BY <1>1 DEF Inv, Types
    <3>2. QED
      BY <1>1, <2>1, <2>3, <3>1 DEF Inv, Forgotten, NotFiled, Complete
  <2>10. QED
    BY <2>5, <2>6, <2>7, <2>8, <2>9
<1>4. CASE counterparts # 0
  <2>1. user' = <<"file", c>> /\ results' = results
    BY <1>4 DEF TriggerCall
  <2>2. user' # <<>> /\ user'[1] = "file" /\ user'[2] = c
    BY <2>1
  <2>3. Fresh'
    BY <1>1, <1>2, <2>1, <2>2 DEF Fresh, NotFiled
  <2>4. Exclusive' /\ Late' /\ Counted'
    BY <1>1, <2>1 DEF Exclusive, Late, Counted, NotCounted
  <2>5. Forgotten'
    BY <1>1, <2>1, <2>2 DEF Forgotten, NotFiled, Complete
  <2>6. QED
    BY <2>3, <2>4, <2>5
<1>5. QED
  BY <1>3, <1>4

LEMMA FileCallInv ==
  ASSUME Inv, FileCall
  PROVE  CallInv'
<1> USE DEF Inv, Types, CallInv
<1> DEFINE c == user[2]
<1>1. /\ c \in Calls /\ c \in called /\ NotFiled(c)
      /\ results[c] = <<>> /\ c \notin active
  BY DEF FileCall, Fresh, NotFiled
<1>2. /\ active' = active \cup {c}
      /\ remaining' = [remaining EXCEPT ![c] = counterparts]
      /\ expected' = [expected EXCEPT ![c] = counterparts]
      /\ UNCHANGED <<called, io, expired, results>>
  BY DEF FileCall
<1>3. user' # <<>> /\ user'[1] # "file" /\ user'[2] = c
  BY DEF FileCall
<1>4. ~NotCounted(c)
  BY <1>1 DEF Exclusive, NotCounted
<1> HIDE DEF c
<1>5. Fresh'
  BY <1>1, <1>2, <1>3 DEF Fresh, NotFiled
<1>6. Exclusive' /\ Late'
  BY <1>1, <1>2 DEF Exclusive, Late
<1>7. Counted'
  <2>1. remaining'[c] = counterparts /\ expected'[c] = counterparts /\ Len(results[c]) = 0
    BY <1>1, <1>2
  <2>2. ASSUME NEW d \in active
        PROVE  remaining'[d] = remaining[d] /\ expected'[d] = expected[d]
    BY <1>1, <1>2, <2>2
  <2>3. QED
    BY <1>1, <1>2, <1>4, <2>1, <2>2, SMTT(30) DEF Counted, NotCounted
<1>8. Forgotten'
  <2>1. ASSUME NEW d \in called' \ active'
        PROVE  Complete(d)'
    <3>1. d \in called \ active /\ d # c /\ ~NotFiled(d)
      BY <1>1, <1>2, <2>1 DEF NotFiled
    <3>2. Complete(d) /\ expected'[d] = expected[d]
      BY <1>1, <1>2, <3>1 DEF Forgotten
    <3>3. QED
      BY <1>2, <3>2 DEF Complete
  <2>2. QED
    BY <2>1 DEF Forgotten
<1>9. QED
  BY <1>5, <1>6, <1>7, <1>8

(* Arming the timeout and posting the call leave the entry as it is. *)
LEMMA FiledCallInv ==
  ASSUME Inv, ArmTimeout \/ SendMsg
  PROVE  CallInv'
<1>1. /\ user # <<>> /\ user[1] # "file"
      /\ user' = <<>> \/ user' = <<"send", user[2]>>
      /\ UNCHANGED <<called, active, remaining, expected, io, expired, results>>
  BY DEF ArmTimeout, SendMsg
<1>2. user' # <<>> => user'[1] # "file" /\ user'[2] = user[2]
  BY <1>1
<1>3. \A c : ~NotFiled(c) /\ ~NotFiled(c)'
  BY <1>1, <1>2 DEF NotFiled
<1>4. Fresh'
  BY <1>1, <1>2, <1>3 DEF Inv, CallInv, Fresh
<1>5. Exclusive' /\ Late' /\ Counted'
  BY <1>1 DEF Inv, CallInv, Exclusive, Late, Counted, NotCounted
<1>6. Forgotten'
  BY <1>1, <1>3 DEF Inv, CallInv, Forgotten, Complete
<1>7. QED
  BY <1>4, <1>5, <1>6 DEF CallInv

(* The IO thread. *)
LEMMA ReceiveReturnInv ==
  ASSUME Synchronized, Inv, NEW s \in Servers, ReceiveReturn(s)
  PROVE  CallInv'
<1> USE DEF Inv, CallInv
<1>1. /\ io = <<>> /\ expired = {}
      /\ UNCHANGED <<user, called, active, remaining, expected, expired, results>>
  BY DEF ReceiveReturn, Receives, IoThreadIsFree, clientVars
<1>2. io' # <<>> => io'[1] = "deliver" /\ io'[2] \in active
  BY DEF ReceiveReturn
<1>3. Exclusive'
  BY <1>1, <1>2 DEF Exclusive
<1>4. Fresh' /\ Late' /\ Forgotten'
  BY <1>1 DEF Fresh, NotFiled, Late, Forgotten, Complete
<1>5. \A c : ~NotCounted(c) /\ ~NotCounted(c)'
  BY <1>1, <1>2 DEF NotCounted
<1>6. Counted'
  BY <1>1, <1>5 DEF Counted
<1>7. QED
  BY <1>3, <1>4, <1>6

LEMMA DeliverReturnInv ==
  ASSUME Inv, DeliverReturn
  PROVE  CallInv'
<1> USE DEF Inv, Types, CallInv
<1>1. PICK c \in Calls, st \in ReturnStatus : c = io[2] /\ st = io[3]
  BY DEF DeliverReturn
<1>2. /\ c \in active /\ expired = {} /\ ~NotFiled(c)
      /\ io # <<>> /\ io[1] # "count" /\ io' # <<>> /\ io'[1] = "count" /\ io'[2] = c
  BY <1>1 DEF DeliverReturn, Exclusive, Fresh
<1>3. UNCHANGED <<user, called, active, remaining, expected, expired>>
  BY DEF DeliverReturn, clientVars
<1>4. st \in Status /\ st # "Timeout"
  BY DEF Status, ReturnStatus
<1>5. /\ \A d \in Calls \ {c} : results'[d] = results[d]
      /\ Len(results[c]) \in Nat /\ Len(results'[c]) = Len(results[c]) + 1
      /\ results'[c] # <<>> /\ results'[c][Len(results'[c])] = st
      /\ \A i \in 1..Len(results'[c]) :
           i # Len(results'[c]) => i \in 1..Len(results[c]) /\ results'[c][i] = results[c][i]
  BY <1>1, <1>4, CallHandlerEffect DEF DeliverReturn
<1>6. Fresh'
  BY <1>2, <1>3, <1>5 DEF Fresh, NotFiled
<1>7. Exclusive'
  BY <1>2, <1>3 DEF Exclusive
<1>8. Late'
  <2>1. \A i \in 1..Len(results[c]) : results[c][i] # "Timeout"
    BY <1>2 DEF Late
  <2> HIDE DEF Types
  <2>2. SUFFICES ASSUME NEW d \in Calls, NEW i \in 1..Len(results'[d]),
                        results'[d][i] = "Timeout"
                 PROVE  i = Len(results'[d]) /\ d \notin active'
    BY DEF Late
  <2>3. d # c
    BY <1>4, <1>5, <2>1, <2>2
  <2>4. QED
    BY <1>3, <1>5, <2>2, <2>3 DEF Late
<1>9. Counted'
  <2>1. Len(results'[c]) + remaining[c] = expected[c] + 1
    BY <1>2, <1>5 DEF Counted, NotCounted
  <2>2. \A d \in active \ {c} : ~NotCounted(d) /\ ~NotCounted(d)' /\ results'[d] = results[d]
    BY <1>2, <1>5 DEF NotCounted
  <2>3. NotCounted(c)'
    BY <1>2 DEF NotCounted
  <2>4. QED
    BY <1>3, <1>5, <2>1, <2>2, <2>3 DEF Counted
<1>10. Forgotten'
  <2>1. \A d \in called \ active : d \in Calls /\ d # c
    BY <1>2
  <2> HIDE DEF Types
  <2>2. QED
    BY <1>3, <1>5, <2>1 DEF Forgotten, NotFiled, Complete
<1>11. QED
  BY <1>6, <1>7, <1>8, <1>9, <1>10

LEMMA CountReturnInv ==
  ASSUME Inv, CountReturn
  PROVE  CallInv'
<1> USE DEF Inv, Types, CallInv
<1>0. PICK c \in Calls : c = io[2]
  BY DEF CountReturn
<1>1. /\ c \in active /\ c \in called /\ ~NotFiled(c) /\ NotCounted(c)
      /\ io' = <<>>
  BY <1>0 DEF CountReturn, Exclusive, Fresh, NotCounted
<1>2. /\ remaining' = [remaining EXCEPT ![c] = @ - 1]
      /\ active' = IF remaining[c] - 1 <= 0 THEN active \ {c} ELSE active
  BY <1>0, <1>1 DEF CountReturn
<1>3. UNCHANGED <<user, called, expected, expired, results>>
  BY DEF CountReturn
<1>4. \A d : d # c => ~NotCounted(d)
  BY <1>0 DEF NotCounted
<1>5. Len(results[c]) + remaining[c] = expected[c] + 1 /\ results[c] # <<>>
  BY <1>1 DEF Counted
<1>6. Len(results[c]) \in Nat /\ remaining[c] \in Int /\ expected[c] \in Int
  BY <1>1
<1>7. active' \subseteq active /\ active \subseteq Calls
  BY <1>2
<1>8. Fresh'
  BY <1>1, <1>3, <1>7 DEF Fresh, NotFiled
<1>9. Exclusive'
  BY <1>1 DEF Exclusive
<1>10. Late'
  BY <1>3, <1>7 DEF Late
<1>11. Counted'
  <2>1. \A d : ~NotCounted(d)'
    BY <1>1 DEF NotCounted
  <2>2. remaining'[c] = remaining[c] - 1 /\ \A d \in Calls \ {c} : remaining'[d] = remaining[d]
    BY <1>1, <1>2
  <2>3. SUFFICES ASSUME NEW d \in active'
                 PROVE  Len(results[d]) + remaining'[d] = expected[d]
    BY <1>3, <2>1 DEF Counted
  <2> HIDE DEF Types
  <2>4. CASE d = c
    <3>1. Len(results[c]) + (remaining[c] - 1) = expected[c]
      BY <1>5, <1>6
    <3>2. QED
      BY <2>2, <2>4, <3>1
  <2>5. CASE d # c
    BY <1>4, <1>7, <2>2, <2>3, <2>5 DEF Counted
  <2>6. QED
    BY <2>4, <2>5
<1>12. Forgotten'
  <2>1. c \notin active' => Complete(c)'
    BY <1>1, <1>2, <1>3, <1>5, <1>6 DEF Complete
  <2>2. \A d \in called \ active : NotFiled(d)' \/ Complete(d)'
    BY <1>3 DEF Forgotten, NotFiled, Complete
  <2>3. called' \ active' \subseteq (called \ active) \cup {c}
    BY <1>2, <1>3
  <2>4. QED
    BY <1>1, <2>1, <2>2, <2>3 DEF Forgotten
<1>13. QED
  BY <1>8, <1>9, <1>10, <1>11, <1>12

(* The time provider. *)
LEMMA TickInv ==
  ASSUME Synchronized, Inv, Tick
  PROVE  CallInv'
<1>1. io = <<>> /\ UNCHANGED <<user, called, active, remaining, expected, io, results>>
  BY DEF Tick, IoThreadIsFree
<1>2. QED
  BY <1>1 DEF Inv, CallInv, Fresh, Exclusive, Late, Counted, Forgotten, NotFiled, NotCounted,
              Complete

LEMMA ExpireInv ==
  ASSUME Inv, NEW c \in Calls, Expire(c)
  PROVE  CallInv'
<1> USE DEF Inv, Types, CallInv
<1>1. /\ io = <<>> /\ active' = active \ {c}
      /\ UNCHANGED <<user, called, remaining, expected, io>>
  BY DEF Expire, Exclusive
<1>2. CASE c \notin active
  <2>1. active' = active /\ results' = results
    BY <1>1, <1>2 DEF Expire
  <2>2. QED
    BY <1>1, <2>1 DEF Fresh, Exclusive, Late, Counted, Forgotten, NotFiled, NotCounted, Complete
<1>3. CASE c \in active
  <2>1. ~NotFiled(c) /\ c \in called /\ results[c] \in Seq(Status)
    BY <1>3 DEF Fresh
  <2>2. "Timeout" \in Status /\ CallHandler(c, "Timeout")
    BY <1>3 DEF Expire, Status
  <2>3. /\ \A d \in Calls \ {c} : results'[d] = results[d]
        /\ Len(results[c]) \in Nat /\ Len(results'[c]) = Len(results[c]) + 1
        /\ results'[c] # <<>>
        /\ \A i \in 1..Len(results'[c]) :
             i # Len(results'[c]) => i \in 1..Len(results[c]) /\ results'[c][i] = results[c][i]
        /\ results'[c][Len(results'[c])] = "Timeout"
    BY <2>2, CallHandlerEffect
  <2>4. \A d \in active \cup called : d \in Calls
    OBVIOUS
  <2> HIDE DEF Types
  <2>5. Fresh'
    BY <1>1, <2>1, <2>3 DEF Fresh, NotFiled
  <2>6. Exclusive'
    BY <1>1 DEF Exclusive
  <2>7. Late'
    <3>1. \A i \in 1..Len(results[c]) : results[c][i] # "Timeout"
      BY <1>3 DEF Late
    <3>2. SUFFICES ASSUME NEW d \in Calls, NEW i \in 1..Len(results'[d]),
                          results'[d][i] = "Timeout"
                   PROVE  i = Len(results'[d]) /\ d \notin active'
      BY DEF Late
    <3>3. CASE d = c
      BY <1>1, <2>3, <3>1, <3>2, <3>3
    <3>4. CASE d # c
      BY <1>1, <2>3, <3>2, <3>4 DEF Late
    <3>5. QED
      BY <3>3, <3>4
  <2>8. Counted'
    BY <1>1, <2>3, <2>4 DEF Counted, NotCounted
  <2>9. Forgotten'
    <3>1. Complete(c)'
      BY <2>3 DEF Complete
    <3>2. \A d \in (called \ active) : NotFiled(d)' \/ Complete(d)'
      BY <1>1, <1>3, <2>3, <2>4 DEF Forgotten, NotFiled, Complete
    <3>3. QED
      BY <1>1, <3>1, <3>2 DEF Forgotten
  <2>10. QED
    BY <2>5, <2>6, <2>7, <2>8, <2>9
<1>4. QED
  BY <1>2, <1>3

(* Every step of the program. *)
LEMMA NextCallInv ==
  ASSUME Synchronized, Inv, [Next]_vars
  PROVE  CallInv'
<1>1. ASSUME NEW c \in Calls, TriggerCall(c) \/ Expire(c)
      PROVE  CallInv'
  BY <1>1, TriggerCallInv, ExpireInv
<1>2. CASE FileCall \/ ArmTimeout \/ SendMsg
  BY <1>2, FileCallInv, FiledCallInv
<1>3. CASE DeliverReturn \/ CountReturn \/ Tick
  BY <1>3, DeliverReturnInv, CountReturnInv, TickInv
<1>4. ASSUME NEW s \in Servers, ReceiveReturn(s)
      PROVE  CallInv'
  BY <1>4, ReceiveReturnInv
<1>5. ASSUME NEW s \in Servers,
             ReceiveSubscription(s) \/ ServerCreated(s) \/ PeerShutdown(s) \/ Server(s)
      PROVE  CallInv'
  <2>1. UNCHANGED callVars
    BY <1>5 DEF callVars, clientVars, ReceiveSubscription, ServerCreated, PeerShutdown, Server,
                AddInternalRpcServer, SetCallHandler, ReceiveCall, SubmitResult, Leave
  <2>2. QED
    BY <2>1, CallVarsUnchanged DEF Inv
<1>6. CASE SendJob \/ UNCHANGED vars
  <2>1. UNCHANGED callVars
    BY <1>6 DEF callVars, clientVars, vars, SendJob
  <2>2. QED
    BY <2>1, CallVarsUnchanged DEF Inv
<1>7. QED
  BY <1>1, <1>2, <1>3, <1>4, <1>5, <1>6 DEF Next, UserThread, IoThread, Receive

-----------------------------------------------------------------------------
(* Where time is synchronized, CallInv holds throughout. *)
THEOREM CallInvariant ==
  ASSUME Synchronized
  PROVE  Spec => []Inv
<1>1. Init => Inv
  BY InitTypes, InitCallInv DEF Inv
<1>2. Inv /\ [Next]_vars => Inv'
  BY NextTypes, NextCallInv DEF Inv
<1>3. QED
  BY <1>1, <1>2, PTL DEF Spec

(* RpcClient::TimeHandler: where its ticks come on the IO thread, a call   *)
(* reported as timed out never gets another result, whatever the number of *)
(* servers, calls and ticks and however late the returns arrive.           *)
THEOREM TimedOutCallsAreOver ==
  ASSUME Synchronized
  PROVE  Spec => []TimeoutIsFinal
<1>1. Inv => TimeoutIsFinal
  <2> SUFFICES ASSUME Inv, NEW c \in Calls, NEW i \in DOMAIN results[c],
                      results[c][i] = "Timeout"
               PROVE  i = Len(results[c])
    BY DEF TimeoutIsFinal
  <2>1. i \in 1..Len(results[c])
    BY DEF Inv, Types
  <2>2. QED
    BY <2>1 DEF Inv, CallInv, Late
<1>2. QED
  BY <1>1, CallInvariant, PTL

(* RpcClient::ReceiveMessage and TimeHandler: a call is erased from        *)
(* _activeCalls only once its user has all the returns it was filed for, a *)
(* timeout, or the answer that there is no server.                         *)
THEOREM ForgottenCallsAreComplete ==
  ASSUME Synchronized
  PROVE  Spec => []ForgottenIsComplete
<1>1. Inv => ForgottenIsComplete
  BY DEF Inv, CallInv, Forgotten, NotFiled, Complete, ForgottenIsComplete
<1>2. QED
  BY <1>1, CallInvariant, PTL

-----------------------------------------------------------------------------
(* The counter of servers. *)

(* What s has sent starts, until it is read, with its subscription and its *)
(* announcement, in this order, and ends with its shutdown, once it left.  *)
Announces(s) ==
  /\ server[s] = "absent" => up[s] = <<>> /\ s \notin receivers
  /\ \A i \in 1..Len(up[s]) :
       /\ up[s][i] = Subscribe =>
            i = 1 /\ s \notin receivers /\ 2 \in 1..Len(up[s]) /\ up[s][2] = Created
       /\ up[s][i] = Created =>
            \/ i = 1 /\ s \in receivers
            \/ i = 2 /\ up[s][1] = Subscribe
       /\ up[s][i] = Shutdown =>
            i = Len(up[s]) /\ server[s] = "left" /\ (s \in receivers \/ up[s][1] = Subscribe)
  /\ server[s] = "up" => s \in receivers \/ (up[s] # <<>> /\ up[s][1] = Subscribe)

(* The client has read the announcement of s, and not its shutdown. *)
IsCounted(s) == s \in receivers /\ \A i \in 1..Len(up[s]) : up[s][i] # Created

CountInv ==
  /\ \A s \in Servers : Announces(s)
  /\ counterparts = Cardinality({s \in Servers : IsCounted(s)})

(* The messages differ. *)
LEMMA KindsDiffer ==
  /\ Subscribe \in Message /\ Created \in Message /\ Shutdown \in Message
  /\ Subscribe # Created /\ Subscribe # Shutdown /\ Created # Shutdown
  /\ \A m \in Message : /\ m.kind = "subscribe" => m = Subscribe
                        /\ m.kind = "created" => m = Created
                        /\ m.kind = "shutdown" => m = Shutdown
                        /\ m.kind = "return" => m \notin {Subscribe, Created, Shutdown}
  /\ \A c, st : Return(c, st) \notin {Subscribe, Created, Shutdown}
<1>1. Subscribe.kind = "subscribe" /\ Created.kind = "created" /\ Shutdown.kind = "shutdown"
  BY DEF Subscribe, Created, Shutdown
<1>2. \A c, st : Return(c, st).kind = "return"
  BY DEF Return
<1>3. Subscribe \in Message /\ Created \in Message /\ Shutdown \in Message
  BY DEF Message
<1>4. \A m \in Message : m \notin {Subscribe, Created, Shutdown} => m.kind = "return"
  BY DEF Message
<1>5. QED
  BY <1>1, <1>2, <1>3, <1>4

LEMMA InitCount == Init => CountInv
<1> SUFFICES ASSUME Init PROVE CountInv
  OBVIOUS
<1>1. \A s \in Servers : Announces(s)
  BY DEF Init, Announces
<1>2. {s \in Servers : IsCounted(s)} = {}
  BY DEF Init, IsCounted
<1>3. QED
  BY <1>1, <1>2, FS_EmptySet DEF Init, CountInv

(* A step that leaves s and its messages alone. *)
LEMMA AnnouncesUnchanged ==
  ASSUME NEW s \in Servers, Announces(s), server'[s] = server[s], up'[s] = up[s],
         s \in receivers' <=> s \in receivers
  PROVE  Announces(s)' /\ (IsCounted(s)' <=> IsCounted(s))
BY DEF Announces, IsCounted

(* The counted servers are the same, so the counter must be. *)
LEMMA CountUnchanged ==
  ASSUME CountInv, counterparts' = counterparts,
         \A s \in Servers : Announces(s)' /\ (IsCounted(s)' <=> IsCounted(s))
  PROVE  CountInv'
<1>1. {s \in Servers : IsCounted(s)'} = {s \in Servers : IsCounted(s)}
  OBVIOUS
<1>2. QED
  BY <1>1 DEF CountInv

(* s sends a message that is neither subscription nor announcement; a      *)
(* shutdown only when it leaves.                                           *)
LEMMA SendCount ==
  ASSUME Types, CountInv, NEW s \in Servers, NEW m \in Message, m \notin {Subscribe, Created},
         server[s] = "up", server'[s] = IF m = Shutdown THEN "left" ELSE "up",
         \A t \in Servers \ {s} : server'[t] = server[t],
         up' = [up EXCEPT ![s] = Append(@, m)],
         UNCHANGED <<counterparts, receivers>>
  PROVE  CountInv'
<1>1. ASSUME NEW t \in Servers \ {s}
      PROVE  Announces(t)' /\ (IsCounted(t)' <=> IsCounted(t))
  <2>1. up'[t] = up[t]
    BY DEF Types
  <2>2. Announces(t)
    BY DEF CountInv
  <2>3. QED
    BY <2>1, <2>2, AnnouncesUnchanged
<1>2. up[s] \in Seq(Message) /\ up'[s] = Append(up[s], m)
  BY DEF Types
<1>3. /\ Len(up[s]) \in Nat /\ Len(up'[s]) = Len(up[s]) + 1 /\ up'[s] # <<>>
      /\ up'[s][Len(up'[s])] = m
      /\ \A i \in 1..Len(up'[s]) : i # Len(up'[s]) => i \in 1..Len(up[s]) /\ up'[s][i] = up[s][i]
  <2>1. PICK old \in Seq(Message) : old = up[s]
    BY <1>2
  <2>2. PICK new : new = Append(old, m)
    OBVIOUS
  <2>3. Len(old) \in Nat /\ Len(new) = Len(old) + 1 /\ new # <<>> /\ new[Len(new)] = m
    BY <2>2
  <2>4. \A i \in 1..Len(new) : i # Len(new) => i \in 1..Len(old) /\ new[i] = old[i]
    BY <2>2
  <2> QED BY <1>2, <2>1, <2>2, <2>3, <2>4
<1>4. Announces(s)
  BY DEF CountInv
<1>5. \A i \in 1..Len(up[s]) : i \in 1..Len(up'[s]) /\ up'[s][i] = up[s][i]
  BY <1>3
<1>6. up[s] # <<>> => 1 \in 1..Len(up[s])
  BY <1>2
<1>7. Announces(s)'
  <2>1. server'[s] # "absent"
    OBVIOUS
  <2>2. \A i \in 1..Len(up[s]) : up[s][i] # Shutdown
    BY <1>4 DEF Announces
  <2>3. s \in receivers \/ up'[s][1] = Subscribe
    BY <1>4, <1>5, <1>6 DEF Announces
  <2>4. ASSUME NEW i \in 1..Len(up'[s])
        PROVE  /\ up'[s][i] = Subscribe =>
                    /\ i = 1 /\ s \notin receivers /\ 2 \in 1..Len(up'[s])
                    /\ up'[s][2] = Created
               /\ up'[s][i] = Created =>
                    \/ i = 1 /\ s \in receivers
                    \/ i = 2 /\ up'[s][1] = Subscribe
               /\ up'[s][i] = Shutdown => i = Len(up'[s]) /\ server'[s] = "left"
    <3>1. CASE i = Len(up'[s])
      BY <1>3, <3>1, KindsDiffer
    <3>2. CASE i # Len(up'[s])
      <4>1. i \in 1..Len(up[s]) /\ up'[s][i] = up[s][i]
        BY <1>3, <3>2
      <4>2. up[s] # <<>>
        BY <1>2, <4>1
      <4>3. QED
        BY <1>4, <1>5, <1>6, <2>2, <4>1, <4>2 DEF Announces
    <3>3. QED
      BY <3>1, <3>2
  <2>5. QED
    BY <1>3, <2>1, <2>3, <2>4 DEF Announces
<1>8. IsCounted(s)' <=> IsCounted(s)
  BY <1>3, <1>5 DEF IsCounted
<1>9. QED
  BY <1>1, <1>7, <1>8, CountUnchanged

(* What is left of the queue of s after its first message. *)
LEMMA ReceivesEffect ==
  ASSUME Types, NEW s \in Servers, NEW kind, Receives(s, kind)
  PROVE  /\ up[s] \in Seq(Message) /\ up[s] # <<>> /\ 1 \in 1..Len(up[s])
         /\ up[s][1] \in Message /\ up[s][1].kind = kind
         /\ Len(up[s]) \in Nat /\ Len(up'[s]) = Len(up[s]) - 1
         /\ \A i \in 1..Len(up'[s]) : i + 1 \in 1..Len(up[s]) /\ up'[s][i] = up[s][i + 1]
         /\ \A t \in Servers \ {s} : up'[t] = up[t]
<1>1. up[s] \in Seq(Message) /\ up[s] # <<>> /\ up'[s] = Tail(up[s]) /\ Head(up[s]).kind = kind
  BY DEF Types, Receives
<1>2. \A t \in Servers \ {s} : up'[t] = up[t]
  BY DEF Types, Receives
<1>3. Head(up[s]) = up[s][1] /\ 1 \in 1..Len(up[s]) /\ up[s][1] \in Message
  BY <1>1
<1>4. /\ Len(up[s]) \in Nat /\ Len(up'[s]) = Len(up[s]) - 1
      /\ \A i \in 1..Len(up'[s]) : i + 1 \in 1..Len(up[s]) /\ up'[s][i] = up[s][i + 1]
  BY <1>1
<1>5. QED
  BY <1>1, <1>2, <1>3, <1>4

(* The client reads a message of s: s stays announced in order, and the    *)
(* others are not concerned.                                               *)
LEMMA ReceiveAnnounces ==
  ASSUME Types, CountInv, NEW s \in Servers, NEW kind, Receives(s, kind),
         server' = server,
         receivers' = CASE kind = "subscribe" -> receivers \cup {s}
                        [] kind = "shutdown" -> receivers \ {s}
                        [] OTHER -> receivers
  PROVE  /\ \A t \in Servers : Announces(t)'
         /\ \A t \in Servers \ {s} : IsCounted(t)' <=> IsCounted(t)
<1>1. ASSUME NEW t \in Servers \ {s}
      PROVE  Announces(t)' /\ (IsCounted(t)' <=> IsCounted(t))
  <2>1. up'[t] = up[t] /\ Announces(t)
    BY ReceivesEffect DEF CountInv
  <2>2. t \in receivers' <=> t \in receivers
    OBVIOUS
  <2>3. QED
    BY <2>1, <2>2, AnnouncesUnchanged
<1>2. /\ up[s] # <<>> /\ 1 \in 1..Len(up[s])
      /\ up[s][1] \in Message /\ up[s][1].kind = kind
      /\ Len(up[s]) \in Nat /\ Len(up'[s]) = Len(up[s]) - 1
      /\ \A i \in 1..Len(up'[s]) : i + 1 \in 1..Len(up[s]) /\ up'[s][i] = up[s][i + 1]
  BY ReceivesEffect
<1>3. Announces(s) /\ server[s] # "absent"
  BY <1>2 DEF CountInv, Announces
<1>4. \A i \in 2..Len(up[s]) : up[s][i] # Subscribe /\ (up[s][i] = Created => i = 2)
  BY <1>2, <1>3 DEF Announces
<1>5. kind = "subscribe" => /\ up[s][1] = Subscribe /\ 2 \in 1..Len(up[s])
                            /\ up[s][2] = Created /\ s \in receivers'
  BY <1>2, <1>3, KindsDiffer DEF Announces
<1>6. kind = "shutdown" => Len(up'[s]) = 0 /\ server[s] = "left"
  <2> SUFFICES ASSUME kind = "shutdown" PROVE Len(up'[s]) = 0 /\ server[s] = "left"
    OBVIOUS
  <2>1. up[s][1] = Shutdown
    BY <1>2, KindsDiffer
  <2>2. 1 = Len(up[s]) /\ server[s] = "left"
    BY <1>2, <1>3, <2>1 DEF Announces
  <2> QED BY <1>2, <2>2
<1>7. kind # "subscribe" => up[s][1] # Subscribe
  BY <1>2 DEF Subscribe
<1>8. kind \notin {"subscribe", "shutdown"} => receivers' = receivers
  OBVIOUS
<1>9. ASSUME NEW i \in 1..Len(up'[s])
      PROVE  /\ up'[s][i] # Subscribe
             /\ up'[s][i] = Created => i = 1 /\ s \in receivers'
             /\ up'[s][i] = Shutdown =>
                  i = Len(up'[s]) /\ server[s] = "left" /\ s \in receivers'
  <2>1. /\ i + 1 \in 2..Len(up[s]) /\ i + 1 \in 1..Len(up[s])
        /\ up'[s][i] = up[s][i + 1] /\ Len(up'[s]) \in Nat /\ i \in Nat
    BY <1>2, <1>9
  <2>2. CASE kind = "subscribe"
    BY <1>2, <1>3, <1>4, <1>5, <2>1, <2>2 DEF Announces
  <2>3. CASE kind = "shutdown"
    BY <1>6, <1>9, <2>1, <2>3
  <2>4. CASE kind \notin {"subscribe", "shutdown"}
    BY <1>2, <1>3, <1>4, <1>7, <1>8, <2>1, <2>4 DEF Announces
  <2>5. QED
    BY <2>2, <2>3, <2>4
<1>10. server[s] = "up" => s \in receivers'
  BY <1>3, <1>5, <1>6, <1>7, <1>8 DEF Announces
<1>11. Announces(s)'
  BY <1>3, <1>9, <1>10 DEF Announces
<1>12. QED
  BY <1>1, <1>11

LEMMA ReceiveCount ==
  ASSUME Types, CountInv, NEW s \in Servers, Receive(s)
  PROVE  CountInv'
<1> DEFINE C == {t \in Servers : IsCounted(t)}
<1>1. IsFiniteSet(C) /\ Cardinality(C) \in Nat
  BY ServersAssumption, FS_Subset, FS_CardinalityType
<1>2. Announces(s) /\ counterparts = Cardinality(C)
  BY DEF CountInv
<1>3. CASE ReceiveSubscription(s)
  <2>1. /\ Receives(s, "subscribe") /\ receivers' = receivers \cup {s} /\ server' = server
        /\ counterparts' = counterparts
    BY <1>3 DEF ReceiveSubscription, serverVars
  <2>2. /\ \A t \in Servers : Announces(t)'
        /\ \A t \in Servers \ {s} : IsCounted(t)' <=> IsCounted(t)
    BY <2>1, ReceiveAnnounces
  <2>3. /\ up[s][1] = Subscribe /\ s \notin receivers /\ 2 \in 1..Len(up[s]) /\ up[s][2] = Created
        /\ 1 \in 1..Len(up'[s]) /\ up'[s][1] = up[s][2]
    BY <1>2, <2>1, ReceivesEffect, KindsDiffer DEF Announces
  <2>4. ~IsCounted(s) /\ ~IsCounted(s)'
    BY <2>3 DEF IsCounted
  <2>5. QED
    BY <2>1, <2>2, <2>4, CountUnchanged
<1>4. CASE ServerCreated(s)
  <2>1. /\ Receives(s, "created") /\ receivers' = receivers /\ server' = server
        /\ counterparts' = counterparts + 1
    BY <1>4 DEF ServerCreated, serverVars
  <2>2. /\ \A t \in Servers : Announces(t)'
        /\ \A t \in Servers \ {s} : IsCounted(t)' <=> IsCounted(t)
    BY <2>1, ReceiveAnnounces
  <2>3. /\ 1 \in 1..Len(up[s]) /\ up[s][1] = Created
        /\ \A i \in 1..Len(up'[s]) : i + 1 \in 1..Len(up[s]) /\ up'[s][i] = up[s][i + 1]
    BY <2>1, ReceivesEffect, KindsDiffer
  <2>4. s \in receivers /\ \A i \in 1..Len(up'[s]) : up'[s][i] # Created
    BY <1>2, <2>3, KindsDiffer DEF Announces
  <2>5. ~IsCounted(s) /\ IsCounted(s)'
    BY <2>1, <2>3, <2>4 DEF IsCounted
  <2>6. {t \in Servers : IsCounted(t)'} = C \cup {s} /\ s \notin C
    BY <2>2, <2>5
  <2>7. Cardinality(C \cup {s}) = Cardinality(C) + 1
    BY <1>1, <2>6, FS_AddElement
  <2>8. QED
    BY <1>2, <2>1, <2>2, <2>6, <2>7 DEF CountInv
<1>5. CASE PeerShutdown(s)
  <2>1. /\ Receives(s, "shutdown") /\ receivers' = receivers \ {s} /\ server' = server
        /\ counterparts' = counterparts - 1
    BY <1>5 DEF PeerShutdown, serverVars
  <2>2. /\ \A t \in Servers : Announces(t)'
        /\ \A t \in Servers \ {s} : IsCounted(t)' <=> IsCounted(t)
    BY <2>1, ReceiveAnnounces
  <2>3. Len(up[s]) \in Nat /\ 1 \in 1..Len(up[s]) /\ up[s][1] = Shutdown
    BY <2>1, ReceivesEffect, KindsDiffer
  <2>4. Len(up[s]) = 1 /\ s \in receivers
    BY <1>2, <2>3, KindsDiffer DEF Announces
  <2>5. IsCounted(s) /\ ~IsCounted(s)'
    BY <2>1, <2>3, <2>4, KindsDiffer DEF IsCounted
  <2>6. {t \in Servers : IsCounted(t)'} = C \ {s} /\ s \in C
    BY <2>2, <2>5
  <2>7. Cardinality(C \ {s}) = Cardinality(C) - 1
    BY <1>1, <2>6, FS_RemoveElement
  <2>8. QED
    BY <1>2, <2>1, <2>2, <2>6, <2>7 DEF CountInv
<1>6. CASE ReceiveReturn(s)
  <2>1. /\ Receives(s, "return") /\ receivers' = receivers /\ server' = server
        /\ counterparts' = counterparts
    BY <1>6 DEF ReceiveReturn, serverVars
  <2>2. /\ \A t \in Servers : Announces(t)'
        /\ \A t \in Servers \ {s} : IsCounted(t)' <=> IsCounted(t)
    BY <2>1, ReceiveAnnounces
  <2>3. /\ up[s][1] # Created /\ Len(up[s]) \in Nat /\ Len(up'[s]) = Len(up[s]) - 1
        /\ \A i \in 1..Len(up'[s]) : i + 1 \in 1..Len(up[s]) /\ up'[s][i] = up[s][i + 1]
    BY <2>1, ReceivesEffect, KindsDiffer
  <2>4. \A i \in 1..Len(up[s]) : i = 1 \/ (i - 1 \in 1..Len(up'[s]) /\ up'[s][i - 1] = up[s][i])
    BY <2>3
  <2>5. IsCounted(s)' <=> IsCounted(s)
    <3>1. (\E i \in 1..Len(up[s]) : up[s][i] = Created)
            => \E i \in 1..Len(up'[s]) : up'[s][i] = Created
      BY <2>3, <2>4
    <3>2. (\E i \in 1..Len(up'[s]) : up'[s][i] = Created)
            => \E i \in 1..Len(up[s]) : up[s][i] = Created
      BY <2>3
    <3> QED BY <2>1, <3>1, <3>2 DEF IsCounted
  <2>6. QED
    BY <2>1, <2>2, <2>5, CountUnchanged
<1>7. QED
  BY <1>3, <1>4, <1>5, <1>6 DEF Receive

LEMMA ServerCount ==
  ASSUME Types, CountInv, NEW s \in Servers, Server(s)
  PROVE  CountInv'
<1>1. Announces(s) /\ UNCHANGED <<counterparts, receivers>>
  BY DEF CountInv, Server, AddInternalRpcServer, SetCallHandler, ReceiveCall, SubmitResult, Leave
<1>2. CASE AddInternalRpcServer(s)
  <2>1. /\ server[s] = "absent" /\ server'[s] = "up" /\ up'[s] = up[s] \o <<Subscribe, Created>>
        /\ \A t \in Servers \ {s} : server'[t] = server[t] /\ up'[t] = up[t]
    BY <1>2 DEF AddInternalRpcServer, Types
  <2>2. up[s] = <<>> /\ s \notin receivers
    BY <1>1, <2>1 DEF Announces
  <2>3. up'[s] = <<Subscribe, Created>>
    BY <2>1, <2>2
  <2>4. Announces(s)' /\ ~IsCounted(s) /\ ~IsCounted(s)'
    BY <1>1, <2>1, <2>2, <2>3, KindsDiffer DEF Announces, IsCounted
  <2>5. \A t \in Servers \ {s} : Announces(t)' /\ (IsCounted(t)' <=> IsCounted(t))
    BY <1>1, <2>1, AnnouncesUnchanged DEF CountInv
  <2>6. QED
    BY <1>1, <2>4, <2>5, CountUnchanged
<1>3. CASE UNCHANGED <<server, up>>
  BY <1>1, <1>3, AnnouncesUnchanged, CountUnchanged DEF CountInv
<1>4. ASSUME NEW m \in Message, m \notin {Subscribe, Created}, server[s] = "up",
             server'[s] = IF m = Shutdown THEN "left" ELSE "up",
             \A t \in Servers \ {s} : server'[t] = server[t],
             up' = [up EXCEPT ![s] = Append(@, m)]
      PROVE  CountInv'
  BY <1>1, <1>4, SendCount
<1>5. CASE ReceiveCall(s)
  <2>1. down[s] \in Seq(Calls) /\ down[s] # <<>> /\ Head(down[s]) \in Calls
    BY <1>5 DEF ReceiveCall, Types
  <2>2. Return(Head(down[s]), "InternalError") \in Message
    BY <2>1 DEF Return, Message, ReturnStatus
  <2>3. \/ UNCHANGED <<server, up>>
        \/ /\ up' = [up EXCEPT ![s] = Append(@, Return(Head(down[s]), "InternalError"))]
           /\ UNCHANGED server /\ server[s] = "up"
    BY <1>5 DEF ReceiveCall
  <2>4. QED
    BY <1>3, <1>4, <2>2, <2>3, KindsDiffer
<1>6. ASSUME NEW c \in Calls, SubmitResult(s, c)
      PROVE  CountInv'
  <2>1. Return(c, "Success") \in Message
    BY DEF Return, Message, ReturnStatus
  <2>2. /\ up' = [up EXCEPT ![s] = Append(@, Return(c, "Success"))]
        /\ UNCHANGED server /\ server[s] = "up"
    BY <1>6 DEF SubmitResult
  <2>3. QED
    BY <1>4, <2>1, <2>2, KindsDiffer
<1>7. CASE Leave(s)
  <2>1. /\ up' = [up EXCEPT ![s] = Append(@, Shutdown)]
        /\ server[s] = "up" /\ server'[s] = "left"
        /\ \A t \in Servers \ {s} : server'[t] = server[t]
    BY <1>7 DEF Leave, Types
  <2>2. QED
    BY <1>4, <2>1, KindsDiffer
<1>8. CASE SetCallHandler(s)
  BY <1>3, <1>8 DEF SetCallHandler
<1>9. QED
  BY <1>2, <1>5, <1>6, <1>7, <1>8 DEF Server

LEMMA NextCount ==
  ASSUME Types, CountInv, [Next]_vars
  PROVE  CountInv'
<1>1. ASSUME NEW s \in Servers, Receive(s) \/ Server(s)
      PROVE  CountInv'
  BY <1>1, ReceiveCount, ServerCount
<1>2. ASSUME UNCHANGED <<counterparts, receivers, server, up>>
      PROVE  CountInv'
  BY <1>2, AnnouncesUnchanged, CountUnchanged DEF CountInv
<1>3. ASSUME NEW c \in Calls, TriggerCall(c) \/ Expire(c)
      PROVE  CountInv'
  BY <1>2, <1>3 DEF TriggerCall, Expire, serverVars
<1>4. CASE FileCall \/ ArmTimeout \/ SendMsg \/ SendJob
  BY <1>2, <1>4 DEF FileCall, ArmTimeout, SendMsg, SendJob, serverVars
<1>5. CASE DeliverReturn \/ CountReturn \/ Tick \/ UNCHANGED vars
  BY <1>2, <1>5 DEF DeliverReturn, CountReturn, Tick, vars, serverVars
<1>6. QED
  BY <1>1, <1>3, <1>4, <1>5 DEF Next, UserThread, IoThread

(* Whatever the clock and whoever leaves, types and counter stay right.    *)
THEOREM CountInvariant == Spec => [](Types /\ CountInv)
<1>1. Init => Types /\ CountInv
  BY InitTypes, InitCount
<1>2. Types /\ CountInv /\ [Next]_vars => (Types /\ CountInv)'
  BY NextTypes, NextCount
<1>3. QED
  BY <1>1, <1>2, PTL DEF Spec

(* RpcClient::_numCounterparts is, at any time and for any number of       *)
(* servers that come and go, the number of servers whose announcement was  *)
(* handled and whose loss was not.                                         *)
THEOREM CounterStaysExact == Spec => []CounterIsExact
<1>1. Types /\ CountInv => CounterIsExact
  <2> SUFFICES ASSUME Types, CountInv
               PROVE  counterparts =
                        Cardinality({s \in receivers : \A i \in DOMAIN up[s] : up[s][i] # Created})
    BY DEF CounterIsExact
  <2>1. \A s \in Servers : DOMAIN up[s] = 1..Len(up[s])
    BY DEF Types
  <2>2. {s \in receivers : \A i \in DOMAIN up[s] : up[s][i] # Created}
          = {s \in Servers : IsCounted(s)}
    BY <2>1 DEF Types, IsCounted
  <2>3. QED
    BY <2>2 DEF CountInv
<1>2. QED
  BY <1>1, CountInvariant, PTL

(* Every variable of the client and of the servers keeps its type; the     *)
(* unsigned counter of servers never wraps below zero.                     *)
THEOREM TypeCorrect == Spec => []TypeOK
<1>1. Types /\ CountInv => TypeOK
  <2> SUFFICES ASSUME Types, CountInv
               PROVE  TypeOK
    OBVIOUS
  <2>1. Cardinality({s \in Servers : IsCounted(s)}) \in Nat
    BY ServersAssumption, FS_Subset, FS_CardinalityType
  <2>2. counterparts \in Nat
    BY <2>1 DEF CountInv
  <2>3. QED
    BY <2>2 DEF Types, TypeOK
<1>2. QED
  BY <1>1, CountInvariant, PTL

=============================================================================
