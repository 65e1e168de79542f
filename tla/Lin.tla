-------------------------------- MODULE Lin --------------------------------
(***************************************************************************)
(* The LIN controllers of one network, without a network simulator         *)
(* (LinController with SimBehaviorTrivial).  There is no bus: the master   *)
(* decides from its own copy of the slaves' configuration and status       *)
(* whether a header has one responder, none or several, and the responder  *)
(* it counts on answers from its own configuration.                        *)
(*                                                                         *)
(* The payload of a frame is left out; length and checksum model are one   *)
(* value, the form, with a wildcard for receivers.                         *)
(***************************************************************************)
EXTENDS Integers, Sequences, FiniteSets, SequencesExt

CONSTANTS
  Controllers,
  Master,        \* the controller that is initialised as the master
  Dynamic,       \* the slaves that may use InitDynamic; the master uses Init
  Ids,           \* LIN identifiers
  Forms,         \* data length and checksum model of a frame
  AnyForm,       \* LinDataLengthUnknown and LinChecksumModel::Unknown
  Configs,       \* Configs[c]: the frame responses Init may configure
  Settings,      \* the responses SetFrameResponse is called with
  MaxSends,      \* calls that send a header
  MaxChanges     \* calls of SetFrameResponse, GoToSleep, GoToSleepInternal, Wakeup

Slaves == Controllers \ {Master}
Response == [mode : {"Unused", "Rx", "TxUnconditional"}, form : Forms \cup {AnyForm}]
NoResponses == [id \in Ids |-> [mode |-> "Unused", form |-> AnyForm]]

ASSUME LinAssumption ==
  /\ Master \in Controllers /\ Dynamic \subseteq Slaves /\ AnyForm \notin Forms
  /\ Configs \in [Controllers -> SUBSET [Ids -> Response]]
  /\ Settings \subseteq [Ids -> Response]
  /\ MaxSends \in Nat /\ MaxChanges \in Nat

VARIABLES
  mode,       \* _controllerMode
  status,     \* _controllerStatus
  nodes,      \* nodes[c][d]: what _linNodes of c says of d
  responded,  \* _linIdsRespondedBySlaves
  chan,       \* chan[c][d]: messages of c that d has not received
  sends,      \* calls that sent a header so far
  awaited,    \* those of them whose outcome the master is owed
  told,       \* those of them whose outcome the master's handler was told
  changes     \* calls that change a configuration or a status so far

busVars == <<sends, awaited, told>>
vars == <<mode, status, nodes, responded, chan, busVars, changes>>

(* LinNode, before anything is known. *)
NoNode == [mode |-> "Inactive", status |-> "Unknown", dynamic |-> FALSE, responses |-> NoResponses]

Init ==
  /\ mode = [c \in Controllers |-> "Inactive"]
  /\ status = [c \in Controllers |-> "Unknown"]
  /\ nodes = [c \in Controllers |-> [d \in Controllers |-> NoNode]]
  /\ responded = [c \in Controllers |-> {}]
  /\ chan = [c \in Controllers |-> [d \in Controllers |-> <<>>]]
  /\ sends = 0 /\ awaited = {} /\ told = {} /\ changes = 0

-----------------------------------------------------------------------------
(* Messages. *)

ConfigMsg(dynamic, responses) == [kind |-> "config", dynamic |-> dynamic, responses |-> responses]
ResponseMsg(id, response) == [kind |-> "response", id |-> id, response |-> response]
StatusMsg(s) == [kind |-> "status", status |-> s]
HeaderMsg(id, n) == [kind |-> "header", id |-> id, call |-> n]
Transmission(id, form, s, n) ==
  [kind |-> "transmission", id |-> id, form |-> form, status |-> s, call |-> n]
Signal(kind) == [kind |-> kind]

(* SendMsg: ms go to all the others, in this order. *)
SendMsg(c, ms) ==
  chan' = [chan EXCEPT ![c] = [d \in Controllers |-> IF d = c THEN @[d] ELSE @[d] \o ms]]

(* Only slaves distribute configurations. *)
Distribution(c, ms) == IF mode[c] = "Slave" THEN ms ELSE <<>>

-----------------------------------------------------------------------------
(* Initialisation and configuration. *)

InitWith(c, dynamic, r) ==
  /\ status[c] = "Unknown"
  /\ mode' = [mode EXCEPT ![c] = IF c = Master THEN "Master" ELSE "Slave"]
  /\ status' = [status EXCEPT ![c] = "Operational"]
  /\ nodes' = [nodes EXCEPT ![c][c] = [mode |-> mode'[c], status |-> "Operational",
                                      dynamic |-> dynamic, responses |-> r]]
  /\ SendMsg(c, IF c = Master THEN <<>> ELSE <<ConfigMsg(dynamic, r)>>)
  /\ UNCHANGED <<responded, busVars, changes>>

InitStatic(c) == \E r \in Configs[c] : InitWith(c, FALSE, r)
InitDynamic(c) == c \in Dynamic /\ InitWith(c, TRUE, NoResponses)

(* A response that is configured already is not changed. *)
SetFrameResponse(c, id, r) ==
  /\ status[c] # "Unknown" /\ ~nodes[c][c].dynamic /\ changes < MaxChanges
  /\ r.mode # "Unused" /\ nodes[c][c].responses[id].mode = "Unused"
  /\ nodes' = [nodes EXCEPT ![c][c].responses[id] = r]
  /\ SendMsg(c, Distribution(c, <<ResponseMsg(id, r)>>))
  /\ changes' = changes + 1
  /\ UNCHANGED <<mode, status, responded, busVars>>

-----------------------------------------------------------------------------
(* Headers. *)

HasRespondingSlave(c, id) == id \in responded[c]
HasDynamicNode(c) == \E d \in Controllers : nodes[c][d].dynamic

(* GetResponse: those that the controller with the view v counts on. *)
Responders(v, id) ==
  {d \in Controllers : /\ v[d].mode # "Inactive" /\ v[d].status = "Operational"
                       /\ v[d].responses[id].mode = "TxUnconditional"}

(* ProcessFrameHeaderRequest: the transmission with which c answers.  A    *)
(* response of unknown length raises an exception instead.                 *)
Answers(r) == r.mode = "TxUnconditional" /\ r.form # AnyForm
Answer(r, id, n) == IF Answers(r) THEN <<Transmission(id, r.form, "RX_OK", n)>> ELSE <<>>

(* SendFrameHeader by the master, whose own responses are own by now.  The *)
(* header reaches the master itself, too; an error is sent by the master   *)
(* and reported to its own handler.                                        *)
SendHeader(id, own, reported) ==
  LET m == Master
      n == sends + 1
      v == [nodes[m] EXCEPT ![m].responses = own]
      num == Cardinality(Responders(v, id))
      header == num = 1 \/ (num = 0 /\ HasDynamicNode(m))
  IN  /\ nodes' = [nodes EXCEPT ![m] = v]
      /\ SendMsg(m, IF header THEN <<HeaderMsg(id, n)>> \o Answer(own[id], id, n)
                    ELSE LET d == CHOOSE d \in Responders(v, id) \cup {m} : TRUE
                         IN  <<Transmission(id, IF num = 0 THEN AnyForm ELSE v[d].responses[id].form,
                                            IF num = 0 THEN "RX_NO_RESPONSE" ELSE "RX_ERROR", n)>>)
      /\ told' = IF reported \/ ~header \/ Answers(own[id]) THEN told \cup {n} ELSE told
      /\ awaited' = IF own[id].mode # "Unused" /\ ~HasDynamicNode(m)
                      THEN awaited \cup {n} ELSE awaited
      /\ sends' = n

MayCall(c) == status[c] # "Unknown" /\ mode[c] = "Master" /\ sends < MaxSends

SendFrameHeader(id) ==
  /\ MayCall(Master)
  /\ SendHeader(id, nodes[Master][Master].responses, FALSE)
  /\ UNCHANGED <<mode, status, responded, changes>>

(* SendFrame with MasterResponse: the master configures the response. *)
SendMasterResponse(id, form) ==
  /\ MayCall(Master)
  /\ SendHeader(id, [nodes[Master][Master].responses EXCEPT ![id] =
                       [mode |-> "TxUnconditional", form |-> form]], FALSE)
  /\ UNCHANGED <<mode, status, responded, changes>>

(* SendFrame with SlaveResponse or SlaveToSlave, of an identifier no slave *)
(* is known to respond to: only the master's handler hears of it.          *)
SendWithoutSlave ==
  /\ MayCall(Master)
  /\ \E id \in Ids : ~HasRespondingSlave(Master, id) /\ ~HasDynamicNode(Master)
  /\ sends' = sends + 1
  /\ awaited' = awaited \cup {sends'} /\ told' = told \cup {sends'}
  /\ UNCHANGED <<mode, status, nodes, responded, chan, changes>>

(* SendFrame with SlaveResponse: the master configures itself to receive.  *)
SendSlaveResponse(id, form) ==
  /\ MayCall(Master)
  /\ HasRespondingSlave(Master, id) \/ HasDynamicNode(Master)
  /\ LET own == nodes[Master][Master].responses
     IN  /\ own[id].mode # "TxUnconditional"
         /\ SendHeader(id, IF own[id].mode = "Unused"
                             THEN [own EXCEPT ![id] = [mode |-> "Rx", form |-> form]] ELSE own,
                       FALSE)
  /\ UNCHANGED <<mode, status, responded, changes>>

(* SendFrame with SlaveToSlave: the master's handler is told at once.      *)
SendSlaveToSlave(id) ==
  /\ MayCall(Master)
  /\ HasRespondingSlave(Master, id) \/ HasDynamicNode(Master)
  /\ SendHeader(id, nodes[Master][Master].responses, TRUE)
  /\ UNCHANGED <<mode, status, responded, changes>>

-----------------------------------------------------------------------------
(* Sleeping. *)

(* The status is changed, but the others are not told. *)
SetControllerStatusSilently(c, s, before) ==
  /\ status' = [status EXCEPT ![c] = s]
  /\ SendMsg(c, before)

SetControllerStatusInternal(c, s, before) ==
  /\ status' = [status EXCEPT ![c] = s]
  /\ SendMsg(c, before \o <<StatusMsg(s)>>)

(* The master waits for a confirmation, as with a network simulator. *)
GoToSleepPending ==
  /\ status[Master] # "Unknown" /\ mode[Master] = "Master" /\ changes < MaxChanges
  /\ SetControllerStatusInternal(Master, "SleepPending", <<Signal("sleep")>>)
  /\ changes' = changes + 1
  /\ UNCHANGED <<mode, nodes, responded, busVars>>

GoToSleep ==
  /\ status[Master] # "Unknown" /\ mode[Master] = "Master" /\ changes < MaxChanges
  /\ SetControllerStatusInternal(Master, "Sleep", <<Signal("sleep")>>)
  /\ changes' = changes + 1
  /\ UNCHANGED <<mode, nodes, responded, busVars>>

GoToSleepInternal(c) ==
  /\ status[c] # "Unknown" /\ changes < MaxChanges
  /\ SetControllerStatusInternal(c, "Sleep", <<>>)
  /\ changes' = changes + 1
  /\ UNCHANGED <<mode, nodes, responded, busVars>>

Wakeup(c) ==
  /\ status[c] # "Unknown" /\ changes < MaxChanges
  /\ SetControllerStatusInternal(c, "Operational", <<Signal("wakeup")>>)
  /\ changes' = changes + 1
  /\ UNCHANGED <<mode, nodes, responded, busVars>>

-----------------------------------------------------------------------------
(* ReceiveMsg. *)

(* What the node of a sender becomes by its message. *)
NodeAfter(node, m) ==
  CASE m.kind = "config" -> [mode |-> "Slave", status |-> "Operational", dynamic |-> m.dynamic,
                             responses |-> m.responses]
    [] m.kind = "response" -> [node EXCEPT !.responses[m.id] = m.response]
    [] m.kind = "status" -> [node EXCEPT !.status = m.status]
    [] OTHER -> node

(* Responses configured after Init are left out. *)
RespondedByConfig(m) ==
  IF m.kind = "config" THEN {id \in Ids : m.responses[id].mode = "TxUnconditional"} ELSE {}

(* UpdateLinIdsRespondedBySlaves *)
RespondedBy(m) ==
  CASE m.kind = "config" -> {id \in Ids : m.responses[id].mode = "TxUnconditional"}
    [] m.kind = "response" -> IF m.response.mode = "TxUnconditional" THEN {m.id} ELSE {}
    [] OTHER -> {}

Incoming(c, d, kinds) == chan[d][c] # <<>> /\ Head(chan[d][c]).kind \in kinds

(* chan after c has received from d, sending ms to all the others. *)
ReceiveAndSend(c, d, ms) ==
  chan' = [x \in Controllers |-> [y \in Controllers |->
             IF x = d /\ y = c THEN Tail(chan[d][c])
             ELSE IF x = c /\ y # c THEN chan[c][y] \o ms ELSE chan[x][y]]]

ReceiveNodeUpdate(c, d) ==
  /\ Incoming(c, d, {"config", "response", "status"})
  /\ LET m == Head(chan[d][c])
     IN  /\ nodes' = [nodes EXCEPT ![c][d] = NodeAfter(@, m)]
         /\ responded' = [responded EXCEPT ![c] =
                            IF nodes'[c][d].mode = "Slave" THEN @ \cup RespondedBy(m) ELSE @]
  /\ ReceiveAndSend(c, d, <<>>)
  /\ UNCHANGED <<mode, status, busVars, changes>>

(* A sleeping controller does not answer. *)
ReceiveHeaderAwake(c, d) ==
  /\ Incoming(c, d, {"header"}) /\ ~nodes[c][c].dynamic
  /\ LET m == Head(chan[d][c])
     IN  ReceiveAndSend(c, d, IF status[c] = "Operational"
                                THEN Answer(nodes[c][c].responses[m.id], m.id, m.call) ELSE <<>>)
  /\ UNCHANGED <<mode, status, nodes, responded, busVars, changes>>

ReceiveHeader(c, d) ==
  /\ Incoming(c, d, {"header"}) /\ ~nodes[c][c].dynamic
  /\ LET m == Head(chan[d][c])
     IN  ReceiveAndSend(c, d, Answer(nodes[c][c].responses[m.id], m.id, m.call))
  /\ UNCHANGED <<mode, status, nodes, responded, busVars, changes>>

(* The user's header handler answers with SendDynamicResponse, or does not.*)
ReceiveHeaderDynamic(c, d) ==
  /\ Incoming(c, d, {"header"}) /\ nodes[c][c].dynamic
  /\ LET m == Head(chan[d][c])
     IN  \/ /\ ReceiveAndSend(c, d, <<>>)
            /\ UNCHANGED nodes
         \/ \E form \in Forms :
              LET r == [mode |-> "TxUnconditional", form |-> form]
              IN  /\ nodes' = [nodes EXCEPT ![c][c].responses[m.id] = r]
                  /\ ReceiveAndSend(c, d, Distribution(c, <<ResponseMsg(m.id, r)>>)
                                            \o Answer(r, m.id, m.call))
  /\ UNCHANGED <<mode, status, responded, busVars, changes>>

(* CalcFrameStatus *)
FrameStatus(c, m) ==
  LET r == nodes[c][c].responses[m.id]
  IN  CASE nodes[c][c].dynamic -> m.status
        [] r.mode = "Unused" -> "NOT_OK"
        [] r.mode = "Rx" /\ r.form \notin {AnyForm, m.form} -> "RX_ERROR"
        [] r.mode = "TxUnconditional" /\ m.status = "RX_OK" -> "TX_OK"
        [] r.mode = "TxUnconditional" /\ m.status = "RX_ERROR" -> "TX_ERROR"
        [] OTHER -> m.status

ReceiveTransmission(c, d) ==
  /\ Incoming(c, d, {"transmission"})
  /\ LET m == Head(chan[d][c])
     IN  told' = IF c = Master /\ mode[c] # "Inactive" /\ FrameStatus(c, m) # "NOT_OK"
                   THEN told \cup {m.call} ELSE told
  /\ ReceiveAndSend(c, d, <<>>)
  /\ UNCHANGED <<mode, status, nodes, responded, sends, awaited, changes>>

(* The user's handler for the event may change the status itself. *)
ReceiveSignal(c, d) ==
  /\ Incoming(c, d, {"sleep", "wakeup"})
  /\ LET s == IF Head(chan[d][c]).kind = "sleep" THEN "Sleep" ELSE "Operational"
     IN  \/ /\ ReceiveAndSend(c, d, <<>>)
            /\ UNCHANGED status
         \/ /\ status[c] # "Unknown" /\ (s = "Sleep" => mode[c] = "Slave")
            /\ status' = [status EXCEPT ![c] = s]
            /\ ReceiveAndSend(c, d, <<StatusMsg(s)>>)
  /\ UNCHANGED <<mode, nodes, responded, busVars, changes>>

-----------------------------------------------------------------------------
User(c) ==
  \/ InitStatic(c) \/ InitDynamic(c) \/ GoToSleepInternal(c) \/ Wakeup(c)
  \/ \E id \in Ids : \E s \in Settings : SetFrameResponse(c, id, s[id])

MasterUser ==
  \/ GoToSleep \/ SendWithoutSlave
  \/ \E id \in Ids : SendFrameHeader(id) \/ SendSlaveToSlave(id)
  \/ \E id \in Ids, form \in Forms : SendMasterResponse(id, form) \/ SendSlaveResponse(id, form)

ReceiveMsg(c, d) ==
  \/ ReceiveNodeUpdate(c, d) \/ ReceiveHeader(c, d) \/ ReceiveHeaderDynamic(c, d)
  \/ ReceiveTransmission(c, d) \/ ReceiveSignal(c, d)

Next ==
  \/ \E c \in Controllers : User(c)
  \/ MasterUser
  \/ \E c, d \in Controllers : ReceiveMsg(c, d)

Spec == Init /\ [][Next]_vars

(* Messages that were sent arrive; nothing is assumed of the users. *)
FairSpec == Spec /\ WF_vars(\E c, d \in Controllers : ReceiveMsg(c, d))

-----------------------------------------------------------------------------
Node == [mode : {"Inactive", "Master", "Slave"}, status : {"Unknown", "Operational", "Sleep"},
         dynamic : BOOLEAN, responses : [Ids -> Response]]

Messages ==
  [kind : {"config"}, dynamic : BOOLEAN, responses : [Ids -> Response]]
    \cup [kind : {"response"}, id : Ids, response : Response]
    \cup [kind : {"status"}, status : {"Operational", "Sleep"}]
    \cup [kind : {"header"}, id : Ids, call : 1..MaxSends]
    \cup [kind : {"transmission"}, id : Ids, form : Forms \cup {AnyForm},
          status : {"RX_OK", "RX_ERROR", "RX_NO_RESPONSE"}, call : 1..MaxSends]
    \cup [kind : {"sleep", "wakeup"}]

(* Every variable has its type. *)
TypeOK ==
  /\ mode \in [Controllers -> {"Inactive", "Master", "Slave"}]
  /\ status \in [Controllers -> {"Unknown", "Operational", "Sleep"}]
  /\ nodes \in [Controllers -> [Controllers -> Node]]
  /\ responded \in [Controllers -> SUBSET Ids]
  /\ chan \in [Controllers -> [Controllers -> Seq(Messages)]]
  /\ sends \in 0..MaxSends /\ awaited \subseteq 1..sends /\ told \subseteq 1..sends
  /\ changes \in 0..MaxChanges

(* What a slave is, as others should see it. *)
Actual(d) ==
  IF status[d] = "Unknown" THEN NoNode ELSE [nodes[d][d] EXCEPT !.status = status[d]]

(* The copies that controllers keep of a slave catch up: the messages on   *)
(* their way bring each copy to the slave's actual configuration and       *)
(* status, although they are changed by three kinds of messages.           *)
ViewsCatchUp ==
  \A c \in Controllers, d \in Slaves :
    c # d => FoldLeft(NodeAfter, nodes[c][d], chan[d][c]) = Actual(d)

(* _linIdsRespondedBySlaves, on which SendFrame and GetSlaveConfiguration  *)
(* rely, is kept apart from _linNodes and says the same.                   *)
RespondedIsExact ==
  \A c \in Controllers :
    responded[c] = {id \in Ids : \E d \in Controllers \ {c} :
                      nodes[c][d].mode = "Slave"
                        /\ nodes[c][d].responses[id].mode = "TxUnconditional"}

(* The master decides on a copy that may be out of date, yet the outcome   *)
(* of every frame it has to do with is reported to it: by the responder it *)
(* counted on, even if that has gone to sleep, or by itself (provided that *)
(* responders know the length of what they send, and stay).                *)
OutcomeIsReported == \A n \in 1..MaxSends : n \in awaited ~> n \in told

=============================================================================
