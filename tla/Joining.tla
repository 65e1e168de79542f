------------------------------ MODULE Joining ------------------------------
(***************************************************************************)
(* How a participant joins a simulation: VAsioConnection::JoinSimulation,  *)
(* the handshake with the registry, and ConnectKnownParticipants with its  *)
(* ways to reach a participant that is already there: a direct connection, *)
(* a connection that the other side is asked (through the registry) to     *)
(* open, and the registry as a proxy.                                      *)
(*                                                                         *)
(* Each process has a user thread inside JoinSimulation and an IO thread   *)
(* that handles messages, finished connection attempts and timers.  Both   *)
(* run UpdateStage, without a lock around it.                              *)
(*                                                                         *)
(* All processes speak the same protocol version and join the same         *)
(* simulation.  Whether a connection attempt succeeds is up to the         *)
(* network, unless the other process is gone.                              *)
(***************************************************************************)
EXTENDS Integers, Sequences, FiniteSets

CONSTANTS
  Procs,        \* the processes with a participant
  Scenarios,    \* who has joined before, who will join, and their capabilities
  Names,        \* participant names
  NameOf,       \* NameOf[p]: the name process p announces
  Impatient,    \* those whose waits in JoinSimulation may time out
  Leavers       \* those that may end once they have joined

Capabilities == {"RequestParticipantConnection", "ProxyMessage"}
Nobody == "nobody"

ASSUME ProcsAssumption ==
  /\ Impatient \cup Leavers \subseteq Procs
  /\ NameOf \in [Procs -> Names] /\ Nobody \notin Procs
  /\ \A s \in Scenarios :
       /\ s.present \cup s.joining \subseteq Procs /\ s.present \cap s.joining = {}
       /\ s.caps \in [Procs -> SUBSET Capabilities]
       /\ \A p, q \in s.present : NameOf[p] = NameOf[q] => p = q

VARIABLES
  caps,        \* caps[p]: the capabilities of p
  alive,       \* the processes that have not ended
  user,        \* user[p]: the user thread's place in JoinSimulation
  regReply,    \* _registryHandshakeComplete: "none", "value" or "error"
  known,       \* the KnownParticipants message, a set with one set in it
  stage,       \* _connectStage
  peer,        \* peer[p][q]: _peerStage
  attempts,    \* attempts[p]: the peers of running direct connection attempts
  timers,      \* timers[p]: the peers whose remote request timer runs
  remotes,     \* remotes[p]: the origins p tries to connect to on request
  proxying,    \* the peer the IO thread is about to reach by proxy, or Nobody
  update,      \* update[p][t]: the place of thread t in UpdateStage
  waitable,    \* _startWaitingForParticipantHandshakes
  complete,    \* _allKnownParticipantHandshakesComplete
  heard,       \* heard[p]: those whose announcement or reply p has handled
  wire,        \* wire[i][a][x]: messages to x on the connection i opened to a
  toReg,       \* toReg[p]: messages of p to the registry
  fromReg,     \* fromReg[p]: messages of the registry to p
  announced,   \* the processes whose announcement the registry has read
  connected,   \* the registry's _connectedParticipants
  byName       \* the registry's _participantNameToPeer

joinVars == <<user, regReply, known>>
connectVars == <<stage, peer, attempts, timers, proxying, update, waitable, complete>>
registryVars == <<announced, connected, byName>>
netVars == <<wire, toReg, fromReg>>
vars == <<caps, alive, joinVars, connectVars, remotes, heard, netVars, registryVars>>

(* The stages of a peer, in the order of the enumeration _peerStage. *)
PeerStage == [INVALID |-> 0, FAILURE |-> 1, DIRECT |-> 2, REMOTE_CONNECT_REQUESTED |-> 3,
              REMOTE_IS_CONNECTING |-> 4, WAITING_FOR_REPLY |-> 5, REPLY_RECEIVED |-> 6]
AtLeast(s, t) == PeerStage[s] >= PeerStage[t]

(* The two ends of a connection between p and q of which p has role x. *)
Roles == {"opener", "acceptor"}
Opener(p, q, x) == IF x = "opener" THEN p ELSE q
Acceptor(p, q, x) == IF x = "opener" THEN q ELSE p

Msg(kind, origin, target) == [kind |-> kind, origin |-> origin, target |-> target]

-----------------------------------------------------------------------------
InitWith(present, joining) ==
  /\ alive = present \cup joining
  /\ user = [p \in Procs |-> IF p \in present THEN "joined" ELSE "idle"]
  /\ heard = [p \in Procs |-> IF p \in present THEN present \ {p} ELSE {}]
  /\ announced = present
  /\ connected = [n \in Names |-> IF \E p \in present : NameOf[p] = n
                                    THEN CHOOSE p \in present : NameOf[p] = n ELSE Nobody]

Init ==
  /\ \E s \in Scenarios : InitWith(s.present, s.joining) /\ caps = s.caps
  /\ byName = connected
  /\ regReply = [p \in Procs |-> "none"]
  /\ known = [p \in Procs |-> {}]
  /\ stage = [p \in Procs |-> "INVALID"]
  /\ peer = [p \in Procs |-> [q \in Procs |-> "INVALID"]]
  /\ attempts = [p \in Procs |-> {}] /\ timers = [p \in Procs |-> {}]
  /\ remotes = [p \in Procs |-> {}]
  /\ proxying = [p \in Procs |-> Nobody]
  /\ update = [p \in Procs |-> [user |-> "out", io |-> "out"]]
  /\ waitable = [p \in Procs |-> "none"] /\ complete = [p \in Procs |-> "none"]
  /\ wire = [i \in Procs |-> [a \in Procs |-> [x \in Roles |-> <<>>]]]
  /\ toReg = [p \in Procs |-> <<>>] /\ fromReg = [p \in Procs |-> <<>>]

-----------------------------------------------------------------------------
(* Sending and receiving. *)

IoThreadIsFree(p) == p \in alive /\ update[p].io = "out" /\ proxying[p] = Nobody

Tell(p, m) == toReg' = [toReg EXCEPT ![p] = Append(@, m)]

(* What the registry sends to a process that has ended is lost. *)
RegistrySends(p, ms) ==
  fromReg' = IF p \in alive THEN [fromReg EXCEPT ![p] = @ \o ms] ELSE fromReg

(* p handles the next message of the given kind from the registry. *)
FromRegistry(p, kind) ==
  /\ IoThreadIsFree(p)
  /\ fromReg[p] # <<>> /\ Head(fromReg[p]).kind = kind
  /\ fromReg' = [fromReg EXCEPT ![p] = Tail(@)]

(* The handler ends with a call of UpdateStage on the IO thread. *)
IoUpdates(p) == update' = [update EXCEPT ![p].io = "enter"]

-----------------------------------------------------------------------------
(* The user thread: JoinSimulation. *)

JoinSimulation(p) ==
  /\ p \in alive /\ user[p] = "idle"
  /\ user' = [user EXCEPT ![p] = "registry"]
  /\ Tell(p, Msg("announce", p, p))
  /\ UNCHANGED <<caps, alive, regReply, known, connectVars, remotes, heard, wire, fromReg,
                 registryVars>>

(* The wait for the registry times out, or ends with its reply. *)
WaitForRegistryHandshakeToComplete(p) ==
  /\ p \in alive /\ user[p] = "registry"
  /\ p \in Impatient \/ regReply[p] # "none"
  /\ user' = [user EXCEPT ![p] = IF regReply[p] = "value" THEN "start" ELSE "failed"]
  /\ stage' = IF regReply[p] = "value" THEN [stage EXCEPT ![p] = "CONNECTING"] ELSE stage
  /\ UNCHANGED <<caps, alive, regReply, known, peer, attempts, timers, proxying, update,
                 waitable, complete, remotes, heard, netVars, registryVars>>

(* StartConnecting, one round of the loop over the known participants.     *)
StartPeer(p, q) ==
  /\ p \in alive /\ user[p] = "start"
  /\ known[p] # {} /\ q \in UNION known[p] /\ peer[p][q] = "INVALID"
  /\ peer' = [peer EXCEPT ![p][q] = "DIRECT"]
  /\ attempts' = [attempts EXCEPT ![p] = @ \cup {q}]
  /\ UNCHANGED <<caps, alive, joinVars, stage, timers, proxying, update, waitable, complete,
                 remotes, heard, netVars, registryVars>>

StartConnectingDone(p) ==
  /\ p \in alive /\ user[p] = "start"
  /\ known[p] # {} /\ \A q \in UNION known[p] : peer[p][q] # "INVALID"
  /\ user' = [user EXCEPT ![p] = "handshakes"]
  /\ update' = [update EXCEPT ![p].user = "enter"]
  /\ UNCHANGED <<caps, alive, regReply, known, stage, peer, attempts, timers, proxying,
                 waitable, complete, remotes, heard, netVars, registryVars>>

(* ConnectToKnownParticipants waits without a timeout. *)
ConnectToKnownParticipants(p) ==
  /\ p \in alive /\ user[p] = "handshakes" /\ update[p].user = "out"
  /\ waitable[p] # "none"
  /\ user' = [user EXCEPT ![p] = IF waitable[p] = "value" THEN "replies" ELSE "failed"]
  /\ UNCHANGED <<caps, alive, regReply, known, connectVars, remotes, heard, netVars,
                 registryVars>>

(* WaitForAllReplies times out, or ends with the promise. *)
WaitForAllReplies(p) ==
  /\ p \in alive /\ user[p] = "replies"
  /\ p \in Impatient \/ complete[p] # "none"
  /\ user' = [user EXCEPT ![p] = IF complete[p] = "value" THEN "joined" ELSE "failed"]
  /\ UNCHANGED <<caps, alive, regReply, known, connectVars, remotes, heard, netVars,
                 registryVars>>

(* A participant that failed to join is destroyed; one that joined may end.*)
Leave(p) ==
  /\ p \in alive
  /\ user[p] = "failed" \/ (user[p] = "joined" /\ p \in Leavers)
  /\ alive' = alive \ {p}
  /\ fromReg' = [fromReg EXCEPT ![p] = <<>>]
  /\ UNCHANGED <<caps, joinVars, connectVars, remotes, heard, wire, toReg, registryVars>>

-----------------------------------------------------------------------------
(* UpdateStage, by thread t of p: the checks and the writes that follow    *)
(* them are separate steps.  A promise that was set keeps its value.       *)

AllPeers(p, s) == \A q \in UNION known[p] : AtLeast(peer[p][q], s)

SetPromise(promise, p, v) == IF promise[p] = "none" THEN [promise EXCEPT ![p] = v] ELSE promise

UpdateEnter(p, t) ==
  /\ update[p][t] = "enter"
  /\ update' = [update EXCEPT ![p][t] =
       IF stage[p] \in {"INVALID", "ALL_REPLIES_RECEIVED", "FAILURE"} THEN "out"
         ELSE IF \E q \in UNION known[p] : peer[p][q] = "FAILURE" THEN "fail" ELSE "connecting"]
  /\ UNCHANGED <<stage, waitable, complete>>

UpdateFail(p, t) ==
  /\ update[p][t] = "fail"
  /\ stage' = [stage EXCEPT ![p] = "FAILURE"]
  /\ waitable' = SetPromise(waitable, p, "error")
  /\ complete' = SetPromise(complete, p, "error")
  /\ update' = [update EXCEPT ![p][t] = "out"]

UpdateConnecting(p, t) ==
  /\ update[p][t] = "connecting"
  /\ update' = [update EXCEPT ![p][t] =
       IF stage[p] # "CONNECTING" THEN "waiting"
         ELSE IF AllPeers(p, "WAITING_FOR_REPLY") THEN "wait" ELSE "out"]
  /\ UNCHANGED <<stage, waitable, complete>>

UpdateWait(p, t) ==
  /\ update[p][t] = "wait"
  /\ stage' = [stage EXCEPT ![p] = "WAITING_FOR_ALL_REPLIES"]
  /\ waitable' = SetPromise(waitable, p, "value")
  /\ update' = [update EXCEPT ![p][t] = "waiting"]
  /\ UNCHANGED complete

(* Does not look at the replies. *)
UpdateWaitingTooEarly(p, t) ==
  /\ update[p][t] = "waiting"
  /\ update' = [update EXCEPT ![p][t] =
       IF stage[p] = "WAITING_FOR_ALL_REPLIES" THEN "done" ELSE "out"]
  /\ UNCHANGED <<stage, waitable, complete>>

UpdateWaiting(p, t) ==
  /\ update[p][t] = "waiting"
  /\ update' = [update EXCEPT ![p][t] =
       IF stage[p] = "WAITING_FOR_ALL_REPLIES" /\ AllPeers(p, "REPLY_RECEIVED")
         THEN "done" ELSE "out"]
  /\ UNCHANGED <<stage, waitable, complete>>

UpdateDone(p, t) ==
  /\ update[p][t] = "done"
  /\ stage' = [stage EXCEPT ![p] = "ALL_REPLIES_RECEIVED"]
  /\ complete' = SetPromise(complete, p, "value")
  /\ update' = [update EXCEPT ![p][t] = "out"]
  /\ UNCHANGED waitable

UpdateStage(p, t) ==
  /\ p \in alive
  /\ \/ UpdateEnter(p, t) \/ UpdateFail(p, t) \/ UpdateConnecting(p, t)
     \/ UpdateWait(p, t) \/ UpdateWaiting(p, t) \/ UpdateDone(p, t)
  /\ UNCHANGED <<caps, alive, joinVars, peer, attempts, timers, proxying, remotes, heard,
                 netVars, registryVars>>

-----------------------------------------------------------------------------
(* The IO thread of the joining side. *)

OnConnectPeerSuccess(p, q) ==
  /\ IoThreadIsFree(p) /\ q \in attempts[p]
  /\ q \in alive
  /\ attempts' = [attempts EXCEPT ![p] = @ \ {q}]
  /\ peer' = [peer EXCEPT ![p][q] = "WAITING_FOR_REPLY"]
  /\ wire' = [wire EXCEPT ![p][q].acceptor = Append(@, "announcement")]
  /\ IoUpdates(p)
  /\ UNCHANGED <<caps, alive, joinVars, stage, timers, proxying, waitable, complete, remotes,
                 heard, toReg, fromReg, registryVars>>

(* Ask q, through the registry, to connect; else go by proxy.              *)
OnConnectPeerFailure(p, q) ==
  /\ IoThreadIsFree(p) /\ q \in attempts[p]
  /\ attempts' = [attempts EXCEPT ![p] = @ \ {q}]
  /\ IF "RequestParticipantConnection" \in caps[p] \cap caps[q]
       THEN /\ peer' = [peer EXCEPT ![p][q] = "REMOTE_CONNECT_REQUESTED"]
            /\ Tell(p, Msg("request", p, q))
            /\ timers' = [timers EXCEPT ![p] = @ \cup {q}]
            /\ IoUpdates(p)
            /\ UNCHANGED proxying
       ELSE /\ peer' = [peer EXCEPT ![p][q] = "WAITING_FOR_REPLY"]
            /\ proxying' = [proxying EXCEPT ![p] = q]
            /\ UNCHANGED <<timers, toReg, update>>
  /\ UNCHANGED <<caps, alive, joinVars, stage, waitable, complete, remotes, heard, wire,
                 fromReg, registryVars>>

(* TryProxyConnect; the peer's stage was set before.                       *)
TryProxyConnect(p) ==
  /\ p \in alive /\ proxying[p] # Nobody
  /\ LET q == proxying[p]
     IN  IF "ProxyMessage" \in caps[p] \cap caps[q]
           THEN Tell(p, Msg("proxy-announcement", p, q)) /\ UNCHANGED peer
           ELSE peer' = [peer EXCEPT ![p][q] = "FAILURE"] /\ UNCHANGED toReg
  /\ proxying' = [proxying EXCEPT ![p] = Nobody]
  /\ IoUpdates(p)
  /\ UNCHANGED <<caps, alive, joinVars, stage, attempts, timers, waitable, complete, remotes,
                 heard, wire, fromReg, registryVars>>

(* Whatever the stage is by now. *)
OnTimerExpiredUnchecked(p, q) ==
  /\ IoThreadIsFree(p) /\ q \in timers[p]
  /\ timers' = [timers EXCEPT ![p] = @ \ {q}]
  /\ peer' = [peer EXCEPT ![p][q] = "WAITING_FOR_REPLY"]
  /\ proxying' = [proxying EXCEPT ![p] = q]
  /\ UNCHANGED <<caps, alive, joinVars, stage, attempts, update, waitable, complete, remotes,
                 heard, netVars, registryVars>>

OnTimerExpired(p, q) ==
  /\ IoThreadIsFree(p) /\ q \in timers[p]
  /\ timers' = [timers EXCEPT ![p] = @ \ {q}]
  /\ IF peer[p][q] = "REMOTE_CONNECT_REQUESTED"
       THEN /\ peer' = [peer EXCEPT ![p][q] = "WAITING_FOR_REPLY"]
            /\ proxying' = [proxying EXCEPT ![p] = q]
       ELSE UNCHANGED <<peer, proxying>>
  /\ UNCHANGED <<caps, alive, joinVars, stage, attempts, update, waitable, complete, remotes,
                 heard, netVars, registryVars>>

(* HandleEvent: q is connecting, or has failed to.                         *)
RemoteIsConnecting(p) ==
  /\ FromRegistry(p, "connecting")
  /\ LET q == Head(fromReg[p]).target
     IN  IF peer[p][q] = "REMOTE_CONNECT_REQUESTED"
           THEN peer' = [peer EXCEPT ![p][q] = "REMOTE_IS_CONNECTING"] /\ IoUpdates(p)
           ELSE UNCHANGED <<peer, update>>
  /\ UNCHANGED <<caps, alive, joinVars, stage, attempts, timers, proxying, waitable, complete,
                 remotes, heard, wire, toReg, registryVars>>

AwaitingRemote == {"REMOTE_CONNECT_REQUESTED", "REMOTE_IS_CONNECTING"}

(* Forgets that the remote may have said that it is connecting. *)
RemoteFailedOnlyIfRequested(p) ==
  /\ FromRegistry(p, "failed")
  /\ LET q == Head(fromReg[p]).target
     IN  IF peer[p][q] = "REMOTE_CONNECT_REQUESTED"
           THEN /\ peer' = [peer EXCEPT ![p][q] = "WAITING_FOR_REPLY"]
                /\ proxying' = [proxying EXCEPT ![p] = q]
           ELSE UNCHANGED <<peer, proxying>>
  /\ UNCHANGED <<caps, alive, joinVars, stage, attempts, timers, update, waitable, complete,
                 remotes, heard, wire, toReg, registryVars>>

RemoteFailedToConnect(p) ==
  /\ FromRegistry(p, "failed")
  /\ LET q == Head(fromReg[p]).target
     IN  IF peer[p][q] \in AwaitingRemote
           THEN /\ peer' = [peer EXCEPT ![p][q] = "WAITING_FOR_REPLY"]
                /\ proxying' = [proxying EXCEPT ![p] = q]
           ELSE UNCHANGED <<peer, proxying>>
  /\ UNCHANGED <<caps, alive, joinVars, stage, attempts, timers, update, waitable, complete,
                 remotes, heard, wire, toReg, registryVars>>

(* q has opened a connection on request.  The handshake is started even if *)
(* the event comes too late to be expected.  The announcement is sent once *)
(* UpdateStage has returned; on the wire it may be read at any later time, *)
(* so it is put there at once.                                             *)
RemoteParticipantAnnouncement(p, q) ==
  /\ IoThreadIsFree(p)
  /\ wire[q][p].acceptor # <<>> /\ Head(wire[q][p].acceptor) = "remote"
  /\ wire' = [wire EXCEPT ![q][p] =
                [acceptor |-> Tail(@.acceptor), opener |-> Append(@.opener, "announcement")]]
  /\ IF peer[p][q] \in AwaitingRemote
       THEN peer' = [peer EXCEPT ![p][q] = "WAITING_FOR_REPLY"] /\ IoUpdates(p)
       ELSE UNCHANGED <<peer, update>>
  /\ UNCHANGED <<caps, alive, joinVars, stage, attempts, timers, proxying, waitable, complete,
                 remotes, heard, toReg, fromReg, registryVars>>

(* A ParticipantAnnouncementReply of q, on whatever way.                   *)
HandleReply(p, q) ==
  /\ heard' = [heard EXCEPT ![p] = @ \cup {q}]
  /\ IF peer[p][q] = "WAITING_FOR_REPLY"
       THEN peer' = [peer EXCEPT ![p][q] = "REPLY_RECEIVED"] /\ IoUpdates(p)
       ELSE UNCHANGED <<peer, update>>

ReplyOnWire(p, q, x) ==
  /\ IoThreadIsFree(p)
  /\ LET i == Opener(p, q, x)
         a == Acceptor(p, q, x)
     IN  /\ wire[i][a][x] # <<>> /\ Head(wire[i][a][x]) = "reply"
         /\ wire' = [wire EXCEPT ![i][a][x] = Tail(@)]
  /\ HandleReply(p, q)
  /\ UNCHANGED <<caps, alive, joinVars, stage, attempts, timers, proxying, waitable, complete,
                 remotes, toReg, fromReg, registryVars>>

ReplyByProxy(p) ==
  /\ FromRegistry(p, "proxy-reply")
  /\ HandleReply(p, Head(fromReg[p]).origin)
  /\ UNCHANGED <<caps, alive, joinVars, stage, attempts, timers, proxying, waitable, complete,
                 remotes, wire, toReg, registryVars>>

(* The registry's messages of the handshake with it. *)
ReceiveKnownParticipants(p) ==
  /\ FromRegistry(p, "known")
  /\ known' = [known EXCEPT ![p] = {Head(fromReg[p]).peers}]
  /\ UNCHANGED <<caps, alive, user, regReply, connectVars, remotes, heard, wire, toReg,
                 registryVars>>

ReceiveRegistryReply(p) ==
  /\ FromRegistry(p, "reply")
  /\ regReply' = [regReply EXCEPT ![p] = Head(fromReg[p]).status]
  /\ UNCHANGED <<caps, alive, user, known, connectVars, remotes, heard, wire, toReg,
                 registryVars>>

-----------------------------------------------------------------------------
(* The IO thread of the side that is joined. *)

(* An announcement is taken for the reply of its sender. *)
AnnouncementTakenForReply(q, p, x) ==
  /\ IoThreadIsFree(q)
  /\ LET i == Opener(q, p, x)
         a == Acceptor(q, p, x)
         y == IF x = "opener" THEN "acceptor" ELSE "opener"
     IN  /\ wire[i][a][x] # <<>> /\ Head(wire[i][a][x]) = "announcement"
         /\ wire' = [wire EXCEPT ![i][a][x] = Tail(@), ![i][a][y] = Append(@, "reply")]
  /\ heard' = [heard EXCEPT ![q] = @ \cup {p}]
  /\ peer' = [peer EXCEPT ![q][p] = "REPLY_RECEIVED"]
  /\ UNCHANGED <<caps, alive, joinVars, stage, attempts, timers, proxying, update, waitable,
                 complete, remotes, toReg, fromReg, registryVars>>

ReceiveParticipantAnnouncement(q, p, x) ==
  /\ IoThreadIsFree(q)
  /\ LET i == Opener(q, p, x)
         a == Acceptor(q, p, x)
         y == IF x = "opener" THEN "acceptor" ELSE "opener"
     IN  /\ wire[i][a][x] # <<>> /\ Head(wire[i][a][x]) = "announcement"
         /\ wire' = [wire EXCEPT ![i][a][x] = Tail(@), ![i][a][y] = Append(@, "reply")]
  /\ heard' = [heard EXCEPT ![q] = @ \cup {p}]
  /\ UNCHANGED <<caps, alive, joinVars, connectVars, remotes, toReg, fromReg, registryVars>>

AnnouncementByProxy(q) ==
  /\ FromRegistry(q, "proxy-announcement")
  /\ LET p == Head(fromReg[q]).origin
     IN  /\ heard' = [heard EXCEPT ![q] = @ \cup {p}]
         /\ Tell(q, Msg("proxy-reply", q, p))
  /\ UNCHANGED <<caps, alive, joinVars, connectVars, remotes, wire, registryVars>>

ReceiveRemoteParticipantConnectRequest(q) ==
  /\ FromRegistry(q, "request")
  /\ LET m == Head(fromReg[q])
     IN  /\ remotes' = [remotes EXCEPT ![q] = @ \cup {m.origin}]
         /\ Tell(q, Msg("connecting", m.origin, q))
  /\ UNCHANGED <<caps, alive, joinVars, connectVars, heard, wire, registryVars>>

OnRemoteConnectionSuccess(q, p) ==
  /\ IoThreadIsFree(q) /\ p \in remotes[q]
  /\ p \in alive
  /\ remotes' = [remotes EXCEPT ![q] = @ \ {p}]
  /\ wire' = [wire EXCEPT ![q][p].acceptor = Append(@, "remote")]
  /\ UNCHANGED <<caps, alive, joinVars, connectVars, heard, toReg, fromReg, registryVars>>

OnRemoteConnectionFailure(q, p) ==
  /\ IoThreadIsFree(q) /\ p \in remotes[q]
  /\ remotes' = [remotes EXCEPT ![q] = @ \ {p}]
  /\ Tell(q, Msg("failed", p, q))
  /\ UNCHANGED <<caps, alive, joinVars, connectVars, heard, wire, fromReg, registryVars>>

-----------------------------------------------------------------------------
(* The registry. *)

RegistryReads(p, kinds) ==
  /\ toReg[p] # <<>> /\ Head(toReg[p]).kind \in kinds
  /\ toReg' = [toReg EXCEPT ![p] = Tail(@)]

(* The newcomer is left out of _connectedParticipants. *)
AnnouncementNotFiled(p) ==
  /\ RegistryReads(p, {"announce"})
  /\ announced' = announced \cup {p}
  /\ RegistrySends(p, <<[kind |-> "known",
                         peers |-> {connected[k] : k \in Names} \ {Nobody, p}],
                        [kind |-> "reply", status |-> "value"]>>)
  /\ byName' = [byName EXCEPT ![NameOf[p]] = p]
  /\ UNCHANGED <<connected, caps, alive, joinVars, connectVars, remotes, heard, wire>>

(* Rejects a name in use; else tells the newcomer who is there beside      *)
(* itself, files it and replies.                                           *)
OnParticipantAnnouncement(p) ==
  /\ RegistryReads(p, {"announce"})
  /\ announced' = announced \cup {p}
  /\ LET n == NameOf[p]
         others == {connected[k] : k \in Names} \ {Nobody, p}
     IN  IF connected[n] # Nobody
           THEN /\ RegistrySends(p, <<[kind |-> "reply", status |-> "error"]>>)
                /\ UNCHANGED <<connected, byName>>
           ELSE /\ RegistrySends(p, <<[kind |-> "known", peers |-> others],
                                      [kind |-> "reply", status |-> "value"]>>)
                /\ connected' = [connected EXCEPT ![n] = p]
                /\ byName' = IF byName[n] = Nobody THEN [byName EXCEPT ![n] = p] ELSE byName
  /\ UNCHANGED <<caps, alive, joinVars, connectVars, remotes, heard, wire>>

(* Connect requests and proxy messages are passed on by name; CONNECTING   *)
(* and FAILED_TO_CONNECT go to the origin of the request.                  *)
Relay(p) ==
  /\ RegistryReads(p, {"request", "connecting", "failed", "proxy-announcement", "proxy-reply"})
  /\ LET m == Head(toReg[p])
         to == byName[NameOf[IF m.kind \in {"connecting", "failed"} THEN m.origin ELSE m.target]]
     IN  IF to = Nobody THEN UNCHANGED fromReg ELSE RegistrySends(to, <<m>>)
  /\ UNCHANGED <<caps, alive, joinVars, connectVars, remotes, heard, wire, registryVars>>

(* OnPeerShutdown, once everything p sent has been read: the entries under *)
(* the name that p announced are erased.                                   *)
OnPeerShutdown(p) ==
  /\ p \notin alive /\ toReg[p] = <<>>
  /\ p \in announced
  /\ announced' = announced \ {p}
  /\ connected' = [connected EXCEPT ![NameOf[p]] = Nobody]
  /\ byName' = [byName EXCEPT ![NameOf[p]] = Nobody]
  /\ UNCHANGED <<caps, alive, joinVars, connectVars, remotes, heard, netVars>>

-----------------------------------------------------------------------------
UserThread(p) ==
  \/ WaitForRegistryHandshakeToComplete(p) \/ StartConnectingDone(p)
  \/ \E q \in Procs : StartPeer(p, q)
  \/ ConnectToKnownParticipants(p) \/ WaitForAllReplies(p) \/ UpdateStage(p, "user")

IoThread(p) ==
  \/ UpdateStage(p, "io") \/ TryProxyConnect(p)
  \/ RemoteIsConnecting(p) \/ RemoteFailedToConnect(p) \/ ReplyByProxy(p)
  \/ ReceiveKnownParticipants(p) \/ ReceiveRegistryReply(p)
  \/ AnnouncementByProxy(p) \/ ReceiveRemoteParticipantConnectRequest(p)
  \/ \E q \in Procs :
       \/ OnConnectPeerSuccess(p, q) \/ OnConnectPeerFailure(p, q) \/ OnTimerExpired(p, q)
       \/ RemoteParticipantAnnouncement(p, q)
       \/ OnRemoteConnectionSuccess(p, q) \/ OnRemoteConnectionFailure(p, q)
       \/ \E x \in Roles : ReplyOnWire(p, q, x) \/ ReceiveParticipantAnnouncement(p, q, x)

Registry == \E p \in Procs : OnParticipantAnnouncement(p) \/ Relay(p) \/ OnPeerShutdown(p)

Next ==
  \/ \E p \in Procs : JoinSimulation(p) \/ UserThread(p) \/ IoThread(p) \/ Leave(p)
  \/ Registry

Spec == Init /\ [][Next]_vars

(* Threads that can go on do, and the registry reads what it is sent.  Each *)
(* step uses up a message, an attempt, a timer or a line of the program, so  *)
(* no thread can run for ever, and fairness to all of them together is       *)
(* fairness to each.                                                         *)
Fairness == WF_vars((\E p \in Procs : UserThread(p) \/ IoThread(p)) \/ Registry)

FairSpec == Spec /\ Fairness

-----------------------------------------------------------------------------
MessagesToRegistry ==
  [kind : {"announce", "request", "connecting", "failed", "proxy-announcement", "proxy-reply"},
   origin : Procs, target : Procs]
MessagesOfRegistry ==
  (MessagesToRegistry \ {m \in MessagesToRegistry : m.kind = "announce"})
    \cup [kind : {"known"}, peers : SUBSET Procs]
    \cup [kind : {"reply"}, status : {"value", "error"}]

(* Every variable has its type; in particular no process is reached by     *)
(* proxy or asked to connect that the registry has not named.              *)
TypeOK ==
  /\ caps \in [Procs -> SUBSET Capabilities] /\ alive \subseteq Procs
  /\ user \in [Procs -> {"idle", "registry", "start", "handshakes", "replies", "joined", "failed"}]
  /\ regReply \in [Procs -> {"none", "value", "error"}]
  /\ \A p \in Procs : Cardinality(known[p]) <= 1 /\ UNION known[p] \subseteq Procs \ {p}
  /\ stage \in [Procs -> {"INVALID", "CONNECTING", "WAITING_FOR_ALL_REPLIES",
                         "ALL_REPLIES_RECEIVED", "FAILURE"}]
  /\ peer \in [Procs -> [Procs -> DOMAIN PeerStage]]
  /\ \A p, q \in Procs : peer[p][q] # "INVALID" => q \in UNION known[p]
  /\ \A p \in Procs : attempts[p] \cup timers[p] \cup ({proxying[p]} \ {Nobody})
                         \subseteq UNION known[p]
  /\ remotes \in [Procs -> SUBSET Procs] /\ heard \in [Procs -> SUBSET Procs]
  /\ update \in [Procs -> [{"user", "io"} ->
                {"out", "enter", "fail", "connecting", "wait", "waiting", "done"}]]
  /\ waitable \in [Procs -> {"none", "value", "error"}]
  /\ complete \in [Procs -> {"none", "value", "error"}]
  /\ \A i, a \in Procs, x \in Roles :
       wire[i][a][x] \in Seq({"announcement", "reply", "remote"})
  /\ \A p \in Procs : toReg[p] \in Seq(MessagesToRegistry)
                      /\ fromReg[p] \in Seq(MessagesOfRegistry)
  /\ announced \subseteq Procs
  /\ connected \in [Names -> Procs \cup {Nobody}] /\ byName \in [Names -> Procs \cup {Nobody}]

(* JoinSimulation succeeds only when every participant that the registry   *)
(* named has replied, although the stage is updated by two threads that do *)
(* not exclude each other and stages are set before it is known whether    *)
(* the attempt is possible.                                                *)
JoinedMeansAllReplied ==
  \A p \in Procs :
    user[p] = "joined" => \A q \in UNION known[p] : q \in heard[p] /\ p \in heard[q]

(* Any two participants that have joined and are there have shaken hands,  *)
(* in whatever order they joined and on whatever way they reached each     *)
(* other.                                                                  *)
EverybodyConnected ==
  \A p, q \in Procs :
    p # q /\ {p, q} \subseteq alive /\ user[p] = "joined" /\ user[q] = "joined" => q \in heard[p]

(* No late timer, answer or connection takes a peer back to an earlier     *)
(* stage, once replied never to be asked again.                            *)
StagesOnlyAdvance ==
  [][\A p, q \in Procs :
       \/ AtLeast(peer'[p][q], peer[p][q])
       \/ peer'[p][q] = "FAILURE" /\ peer[p][q] = "WAITING_FOR_REPLY"]_vars

(* Nobody stays in JoinSimulation for ever: it returns or throws, unless a *)
(* participant to be connected to ended meanwhile.                         *)
JoinReturns ==
  <>[](\A p \in Procs :
         \/ p \notin alive \/ user[p] \in {"idle", "joined", "failed"}
         \/ \E q \in UNION known[p] : q \notin alive)

(* The registry admits no second participant under a name in use.          *)
UniqueNames ==
  \A p, q \in alive :
    user[p] = "joined" /\ user[q] = "joined" /\ NameOf[p] = NameOf[q] => p = q

=============================================================================
