--------------------------- MODULE JoiningProofs ---------------------------
(***************************************************************************)
(* Theorems about Joining, for any processes, names, capabilities,         *)
(* timeouts and departures.                                                *)
(***************************************************************************)
EXTENDS Joining, FiniteSetTheorems, TLAPS

Promise == {"none", "value", "error"}
UserPlaces == {"idle", "registry", "start", "handshakes", "replies", "joined", "failed"}
Stages == {"INVALID", "CONNECTING", "WAITING_FOR_ALL_REPLIES", "ALL_REPLIES_RECEIVED", "FAILURE"}
Places == {"out", "enter", "fail", "connecting", "wait", "waiting", "done"}
PeerStages == {"INVALID", "FAILURE", "DIRECT", "REMOTE_CONNECT_REQUESTED",
               "REMOTE_IS_CONNECTING", "WAITING_FOR_REPLY", "REPLY_RECEIVED"}
Handshake == {"announcement", "reply", "remote"}

(* The variables as functions. *)
Types ==
  /\ caps \in [Procs -> SUBSET Capabilities] /\ alive \subseteq Procs
  /\ user \in [Procs -> UserPlaces]
  /\ regReply \in [Procs -> Promise]
  /\ known \in [Procs -> SUBSET SUBSET Procs]
  /\ stage \in [Procs -> Stages]
  /\ peer \in [Procs -> [Procs -> PeerStages]]
  /\ attempts \in [Procs -> SUBSET Procs] /\ timers \in [Procs -> SUBSET Procs]
  /\ remotes \in [Procs -> SUBSET Procs] /\ heard \in [Procs -> SUBSET Procs]
  /\ proxying \in [Procs -> Procs \cup {Nobody}]
  /\ update \in [Procs -> [{"user", "io"} -> Places]]
  /\ waitable \in [Procs -> Promise] /\ complete \in [Procs -> Promise]
  /\ wire \in [Procs -> [Procs -> [Roles -> Seq(Handshake)]]]
  /\ toReg \in [Procs -> Seq(MessagesToRegistry)]
  /\ fromReg \in [Procs -> Seq(MessagesOfRegistry)]
  /\ announced \subseteq Procs
  /\ connected \in [Names -> Procs \cup {Nobody}] /\ byName \in [Names -> Procs \cup {Nobody}]

(* Where the announcement of p to the registry is, and the answers to it. *)
Announces(p) == {i \in 1..Len(toReg[p]) : toReg[p][i].kind = "announce"}
Answers(p) == {i \in 1..Len(fromReg[p]) : fromReg[p][i].kind \in {"known", "reply"}}

(* A process is told once who is there, before the reply that lets it go   *)
(* on, and is not in the registry before it is told.                       *)
Registration ==
  \A p \in Procs :
    /\ user[p] = "idle" => Announces(p) = {}
    /\ user[p] = "idle" \/ Announces(p) # {} =>
         /\ Answers(p) = {} /\ regReply[p] = "none" /\ known[p] = {}
         /\ \A n \in Names : connected[n] # p
    /\ Announces(p) # {} \/ Answers(p) # {} =>
         user[p] \in {"registry", "failed"} /\ regReply[p] = "none"
    /\ \A i, j \in Announces(p) : i = j
    /\ \A i, j \in Answers(p) : fromReg[p][i].kind = "reply" => j <= i
    /\ \A i \in Answers(p) : fromReg[p][i].kind = "known" =>
         known[p] = {} /\ p \notin fromReg[p][i].peers /\ \A j \in Answers(p) : i <= j

(* Nobody is connected to before the registry has named it. *)
PeersOf(p) ==
  /\ p \notin UNION known[p] /\ Cardinality(known[p]) <= 1
  /\ regReply[p] # "value" =>
       /\ stage[p] = "INVALID" /\ user[p] \notin {"start", "handshakes", "replies"}
       /\ \A t \in {"user", "io"} : update[p][t] \in {"out", "enter"}
  /\ \A q \in Procs :
       /\ peer[p][q] # "INVALID" => regReply[p] = "value" /\ q \in UNION known[p]
       /\ q \in attempts[p] => peer[p][q] = "DIRECT"
       /\ q \in timers[p] => peer[p][q] # "INVALID"
       /\ proxying[p] = q => peer[p][q] = "WAITING_FOR_REPLY"
Peers == \A p \in Procs : PeersOf(p)

(* A reply is sent by those that have heard the one it is sent to. *)
NamesFit == \A n \in Names : byName[n] # Nobody => NameOf[byName[n]] = n

WireReplies ==
  \A i, a \in Procs : \A x \in Roles : \A k \in 1..Len(wire[i][a][x]) :
    wire[i][a][x][k] = "reply" => (x = "opener" /\ i \in heard[a]) \/ (x = "acceptor" /\ a \in heard[i])

ProxyReplies ==
  /\ \A q \in Procs : \A k \in 1..Len(toReg[q]) : toReg[q][k].kind = "proxy-reply" =>
       toReg[q][k].origin = q /\ toReg[q][k].target \in heard[q]
  /\ \A p \in Procs : \A k \in 1..Len(fromReg[p]) : fromReg[p][k].kind = "proxy-reply" =>
       fromReg[p][k].target = p /\ p \in heard[fromReg[p][k].origin]

PeerReplies ==
  \A p, q \in Procs : peer[p][q] = "REPLY_RECEIVED" => q \in heard[p] /\ p \in heard[q]

Replies == NamesFit /\ WireReplies /\ ProxyReplies /\ PeerReplies

(* Once a thread has seen all replies they stay. *)
AllReplied(p) ==
  regReply[p] = "value" /\ \A q \in UNION known[p] : peer[p][q] = "REPLY_RECEIVED"
Completion ==
  \A p \in Procs :
    /\ complete[p] = "value" => AllReplied(p)
    /\ \A t \in {"user", "io"} : update[p][t] = "done" => AllReplied(p)
    /\ user[p] = "joined" => complete[p] = "value" \/ known[p] = {}

(* The registry has admitted p, or is about to. *)
Admitted(p) ==
  \/ regReply[p] = "value" \/ user[p] = "joined"
  \/ \E i \in Answers(p) : fromReg[p][i].kind = "reply" /\ fromReg[p][i].status = "value"

(* p is told that q is there. *)
Told(p, q) ==
  \/ q \in UNION known[p]
  \/ \E i \in Answers(p) : fromReg[p][i].kind = "known" /\ q \in fromReg[p][i].peers
  \/ q \in heard[p] /\ p \in heard[q]

(* Of two processes in the registry one is told of the other. *)
IsFiled(p) == connected[NameOf[p]] = p
Filed ==
  /\ \A n \in Names : connected[n] # Nobody => NameOf[connected[n]] = n
  /\ \A p \in alive : Admitted(p) => IsFiled(p)
  /\ \A p, q \in alive : p # q /\ IsFiled(p) /\ IsFiled(q) => Told(p, q) \/ Told(q, p)

-----------------------------------------------------------------------------
(* Queues.  A queue moves from old to new: it loses messages at the front  *)
(* and gets some of M at the end.                                          *)
Moves(old, new, M) ==
  \E d \in Nat : \A i \in 1..Len(new) :
    (i + d \in 1..Len(old) /\ new[i] = old[i + d]) \/ new[i] \in M

LEMMA MovesNot ==
  ASSUME NEW T, NEW s \in Seq(T), NEW M
  PROVE  Moves(s, s, M)
<1>1. \A i \in 1..Len(s) : i + 0 \in 1..Len(s) /\ s[i] = s[i + 0]
  OBVIOUS
<1>2. QED
  BY <1>1, 0 \in Nat DEF Moves

LEMMA MovesTail ==
  ASSUME NEW T, NEW s \in Seq(T), s # <<>>
  PROVE  Tail(s) \in Seq(T) /\ Moves(s, Tail(s), {})
<1>1. Tail(s) \in Seq(T) /\ \A i \in 1..Len(Tail(s)) : i + 1 \in 1..Len(s) /\ Tail(s)[i] = s[i + 1]
  OBVIOUS
<1>2. QED
  BY <1>1, 1 \in Nat DEF Moves

LEMMA MovesAppend ==
  ASSUME NEW T, NEW s \in Seq(T), NEW e \in T
  PROVE  Append(s, e) \in Seq(T) /\ Moves(s, Append(s, e), {e})
<1>1. /\ Append(s, e) \in Seq(T)
      /\ \A i \in 1..Len(Append(s, e)) :
           (i + 0 \in 1..Len(s) /\ Append(s, e)[i] = s[i + 0]) \/ Append(s, e)[i] = e
  OBVIOUS
<1>2. QED
  BY <1>1, 0 \in Nat DEF Moves

LEMMA MovesConcat ==
  ASSUME NEW T, NEW s \in Seq(T), NEW e \in T, NEW r, r = s \o <<e>>
  PROVE  r \in Seq(T) /\ Moves(s, r, {e})
<1>1. /\ r \in Seq(T)
      /\ \A i \in 1..Len(r) : (i + 0 \in 1..Len(s) /\ r[i] = s[i + 0]) \/ r[i] = e
  OBVIOUS
<1>2. QED
  BY <1>1, 0 \in Nat DEF Moves

LEMMA MovesEmpty ==
  ASSUME NEW s, NEW M
  PROVE  Moves(s, <<>>, M)
BY DEF Moves

(* A process or the registry writes, reads. *)
LEMMA TellMoves ==
  ASSUME Types, NEW p \in Procs, NEW m \in MessagesToRegistry, Tell(p, m)
  PROVE  /\ toReg' \in [Procs -> Seq(MessagesToRegistry)]
         /\ \A q \in Procs \ {p} : toReg'[q] = toReg[q]
         /\ toReg'[p] = Append(toReg[p], m)
         /\ Moves(toReg[p], toReg'[p], {m})
<1>1. toReg \in [Procs -> Seq(MessagesToRegistry)] /\ toReg[p] \in Seq(MessagesToRegistry)
  BY DEF Types
<1>2. toReg'[p] = Append(toReg[p], m)
  BY <1>1 DEF Tell
<1>3. QED
  BY <1>1, <1>2, MovesAppend DEF Tell

LEMMA ReadMoves ==
  ASSUME Types, NEW p \in Procs, NEW kinds, RegistryReads(p, kinds)
  PROVE  /\ toReg' \in [Procs -> Seq(MessagesToRegistry)]
         /\ \A q \in Procs \ {p} : toReg'[q] = toReg[q]
         /\ toReg'[p] = Tail(toReg[p]) /\ Moves(toReg[p], toReg'[p], {})
         /\ toReg[p] \in Seq(MessagesToRegistry) /\ Len(toReg[p]) > 0
         /\ Head(toReg[p]) = toReg[p][1] /\ Head(toReg[p]) \in MessagesToRegistry
<1>1. toReg \in [Procs -> Seq(MessagesToRegistry)] /\ toReg[p] \in Seq(MessagesToRegistry)
  BY DEF Types
<1>2. toReg'[p] = Tail(toReg[p]) /\ toReg[p] # <<>>
  BY <1>1 DEF RegistryReads
<1>3. Tail(toReg[p]) \in Seq(MessagesToRegistry) /\ Moves(toReg[p], Tail(toReg[p]), {})
  BY <1>1, <1>2, MovesTail
<1>4. Len(toReg[p]) > 0 /\ Head(toReg[p]) = toReg[p][1] /\ Head(toReg[p]) \in MessagesToRegistry
  BY <1>1, <1>2
<1>5. QED
  BY <1>1, <1>2, <1>3, <1>4 DEF RegistryReads

LEMMA FromRegistryMoves ==
  ASSUME Types, NEW p \in Procs, NEW kind, FromRegistry(p, kind)
  PROVE  /\ fromReg' \in [Procs -> Seq(MessagesOfRegistry)]
         /\ \A q \in Procs \ {p} : fromReg'[q] = fromReg[q]
         /\ fromReg'[p] = Tail(fromReg[p]) /\ Moves(fromReg[p], fromReg'[p], {})
         /\ fromReg[p] \in Seq(MessagesOfRegistry) /\ Len(fromReg[p]) > 0
         /\ Head(fromReg[p]) = fromReg[p][1] /\ Head(fromReg[p]) \in MessagesOfRegistry
         /\ Head(fromReg[p]).kind = kind
<1>1. fromReg \in [Procs -> Seq(MessagesOfRegistry)] /\ fromReg[p] \in Seq(MessagesOfRegistry)
  BY DEF Types
<1>2. fromReg'[p] = Tail(fromReg[p]) /\ fromReg[p] # <<>> /\ Head(fromReg[p]).kind = kind
  BY <1>1 DEF FromRegistry
<1>3. Tail(fromReg[p]) \in Seq(MessagesOfRegistry) /\ Moves(fromReg[p], Tail(fromReg[p]), {})
  BY <1>1, <1>2, MovesTail
<1>4. Len(fromReg[p]) > 0 /\ Head(fromReg[p]) = fromReg[p][1] /\ Head(fromReg[p]) \in MessagesOfRegistry
  BY <1>1, <1>2
<1>5. QED
  BY <1>1, <1>2, <1>3, <1>4 DEF FromRegistry

LEMMA SendMoves ==
  ASSUME Types, NEW p \in Procs, NEW m \in MessagesOfRegistry, RegistrySends(p, <<m>>)
  PROVE  /\ fromReg' \in [Procs -> Seq(MessagesOfRegistry)]
         /\ \A q \in Procs \ {p} : fromReg'[q] = fromReg[q]
         /\ Moves(fromReg[p], fromReg'[p], {m})
<1>1. fromReg \in [Procs -> Seq(MessagesOfRegistry)] /\ fromReg[p] \in Seq(MessagesOfRegistry)
  BY DEF Types
<1>2. CASE p \in alive
  <2>1. fromReg'[p] = fromReg[p] \o <<m>>
    BY <1>1, <1>2 DEF RegistrySends
  <2>2. fromReg[p] \o <<m>> \in Seq(MessagesOfRegistry) /\ Moves(fromReg[p], fromReg[p] \o <<m>>, {m})
    BY <1>1, MovesConcat
  <2>3. QED
    BY <1>1, <1>2, <2>1, <2>2 DEF RegistrySends
<1>3. CASE p \notin alive
  BY <1>1, <1>3, MovesNot DEF RegistrySends
<1>4. QED
  BY <1>2, <1>3

(* The messages of the registry. *)
LEMMA MessageFields ==
  /\ \A m \in MessagesToRegistry :
       m.origin \in Procs /\ m.target \in Procs /\ (m.kind # "announce" => m \in MessagesOfRegistry)
       /\ m.kind \notin {"known", "reply"}
  /\ \A m \in MessagesOfRegistry :
       /\ m.kind \notin {"known", "reply"} => m \in MessagesToRegistry
       /\ m.kind = "known" => m.peers \subseteq Procs
       /\ m.kind = "reply" => m.status \in {"value", "error"}
       /\ m.kind # "announce"
  /\ \A k \in {"announce", "request", "connecting", "failed", "proxy-announcement", "proxy-reply"} :
       \A p, q \in Procs : Msg(k, p, q) \in MessagesToRegistry
  /\ \A s \in SUBSET Procs : [kind |-> "known", peers |-> s] \in MessagesOfRegistry
  /\ \A v \in {"value", "error"} : [kind |-> "reply", status |-> v] \in MessagesOfRegistry
BY DEF MessagesToRegistry, MessagesOfRegistry, Msg

(* The registry's answer to an announcement. *)
LEMMA SendAnswer ==
  ASSUME Types, NEW p \in Procs, p \in alive, NEW a \in MessagesOfRegistry, NEW b \in MessagesOfRegistry,
         RegistrySends(p, <<a, b>>)
  PROVE  /\ fromReg' \in [Procs -> Seq(MessagesOfRegistry)]
         /\ \A q \in Procs \ {p} : fromReg'[q] = fromReg[q]
         /\ Len(fromReg[p]) \in Nat /\ Len(fromReg'[p]) = Len(fromReg[p]) + 2
         /\ \A i \in 1..Len(fromReg[p]) : fromReg'[p][i] = fromReg[p][i]
         /\ fromReg'[p][Len(fromReg[p]) + 1] = a /\ fromReg'[p][Len(fromReg[p]) + 2] = b
<1>1. fromReg \in [Procs -> Seq(MessagesOfRegistry)] /\ fromReg[p] \in Seq(MessagesOfRegistry)
  BY DEF Types
<1>2. fromReg'[p] = fromReg[p] \o <<a, b>>
  BY <1>1 DEF RegistrySends
<1>3. /\ fromReg[p] \o <<a, b>> \in Seq(MessagesOfRegistry)
      /\ Len(fromReg[p]) \in Nat /\ Len(fromReg[p] \o <<a, b>>) = Len(fromReg[p]) + 2
      /\ \A i \in 1..Len(fromReg[p]) : (fromReg[p] \o <<a, b>>)[i] = fromReg[p][i]
      /\ (fromReg[p] \o <<a, b>>)[Len(fromReg[p]) + 1] = a
      /\ (fromReg[p] \o <<a, b>>)[Len(fromReg[p]) + 2] = b
  BY <1>1
<1>4. QED
  BY <1>1, <1>2, <1>3 DEF RegistrySends

-----------------------------------------------------------------------------
(* Types. *)
LEMMA InitTypes == Init => Types
<1> SUFFICES ASSUME Init PROVE Types
  OBVIOUS
<1>1. PICK s \in Scenarios : InitWith(s.present, s.joining) /\ caps = s.caps
  BY DEF Init
<1>2. s.present \subseteq Procs /\ s.joining \subseteq Procs /\ caps \in [Procs -> SUBSET Capabilities]
  BY <1>1, ProcsAssumption
<1>3. connected \in [Names -> Procs \cup {Nobody}]
  <2>1. ASSUME NEW n \in Names, \E p \in s.present : NameOf[p] = n
        PROVE  (CHOOSE p \in s.present : NameOf[p] = n) \in Procs
    BY <2>1, <1>2
  <2>2. QED
    BY <1>1, <2>1 DEF InitWith
<1>4. wire \in [Procs -> [Procs -> [Roles -> Seq(Handshake)]]]
  BY DEF Init, Roles
<1>5. update \in [Procs -> [{"user", "io"} -> Places]]
  BY DEF Init, Places
<1>6. QED
  BY <1>1, <1>2, <1>3, <1>4, <1>5, ProcsAssumption DEF Init, InitWith, Types, UserPlaces, Promise, Stages, PeerStages

LEMMA WireTypes ==
  ASSUME Types, NEW i \in Procs, NEW a \in Procs
  PROVE  /\ wire[i][a].opener \in Seq(Handshake) /\ wire[i][a].acceptor \in Seq(Handshake)
         /\ \A f, g \in Seq(Handshake) :
              [acceptor |-> f, opener |-> g] \in [Roles -> Seq(Handshake)]
         /\ \A f \in [Roles -> Seq(Handshake)] :
              [wire EXCEPT ![i][a] = f] \in [Procs -> [Procs -> [Roles -> Seq(Handshake)]]]
         /\ \A x \in Roles : \A f \in Seq(Handshake) :
              [wire EXCEPT ![i][a][x] = f] \in [Procs -> [Procs -> [Roles -> Seq(Handshake)]]]
<1>1. wire \in [Procs -> [Procs -> [Roles -> Seq(Handshake)]]]
  BY DEF Types
<1>2. wire[i][a].opener \in Seq(Handshake) /\ wire[i][a].acceptor \in Seq(Handshake)
  BY <1>1 DEF Roles
<1>3. \A f, g \in Seq(Handshake) : [acceptor |-> f, opener |-> g] \in [Roles -> Seq(Handshake)]
  BY DEF Roles
<1>4. \A f \in [Roles -> Seq(Handshake)] :
        [wire EXCEPT ![i][a] = f] \in [Procs -> [Procs -> [Roles -> Seq(Handshake)]]]
  BY <1>1
<1>5. \A x \in Roles : \A f \in Seq(Handshake) :
        [wire EXCEPT ![i][a][x] = f] \in [Procs -> [Procs -> [Roles -> Seq(Handshake)]]]
  BY <1>1
<1>6. QED
  BY <1>2, <1>3, <1>4, <1>5

LEMMA PeerTypes ==
  ASSUME Types, NEW p \in Procs, NEW q \in Procs, NEW v \in PeerStages
  PROVE  [peer EXCEPT ![p][q] = v] \in [Procs -> [Procs -> PeerStages]]
<1>1. peer \in [Procs -> [Procs -> PeerStages]]
  BY DEF Types
<1>2. QED
  BY <1>1

LEMMA PeerStep ==
  ASSUME Types, NEW p \in Procs, NEW q \in Procs, NEW v \in PeerStages,
         peer' = peer \/ peer' = [peer EXCEPT ![p][q] = v]
  PROVE  peer' \in [Procs -> [Procs -> PeerStages]]
<1>1. peer \in [Procs -> [Procs -> PeerStages]]
  BY DEF Types
<1>2. QED
  BY <1>1, PeerTypes

LEMMA UpdateTypes ==
  ASSUME Types, NEW p \in Procs, NEW t \in {"user", "io"}, NEW v \in Places
  PROVE  [update EXCEPT ![p][t] = v] \in [Procs -> [{"user", "io"} -> Places]]
<1>1. update \in [Procs -> [{"user", "io"} -> Places]]
  BY DEF Types
<1>2. QED
  BY <1>1

LEMMA IoUpdatesTypes ==
  ASSUME Types, NEW p \in Procs, IoUpdates(p)
  PROVE  update' \in [Procs -> [{"user", "io"} -> Places]]
<1>1. update' = [update EXCEPT ![p]["io"] = "enter"] /\ "enter" \in Places
  BY DEF IoUpdates, Places
<1>2. QED
  BY <1>1, UpdateTypes

LEMMA PromiseTypes ==
  ASSUME NEW f \in [Procs -> Promise], NEW p \in Procs, NEW v \in Promise
  PROVE  SetPromise(f, p, v) \in [Procs -> Promise]
BY DEF SetPromise

LEMMA HandleReplyTypes ==
  ASSUME Types, NEW p \in Procs, NEW q \in Procs, HandleReply(p, q)
  PROVE  /\ heard' \in [Procs -> SUBSET Procs]
         /\ peer' \in [Procs -> [Procs -> PeerStages]]
         /\ update' \in [Procs -> [{"user", "io"} -> Places]]
<1>1. heard' \in [Procs -> SUBSET Procs]
  BY DEF HandleReply, Types
<1>2. "REPLY_RECEIVED" \in PeerStages
  BY DEF PeerStages
<1>3. CASE peer[p][q] = "WAITING_FOR_REPLY"
  <2>1. peer' = [peer EXCEPT ![p][q] = "REPLY_RECEIVED"] /\ IoUpdates(p)
    BY <1>3 DEF HandleReply
  <2>2. QED
    BY <1>1, <1>2, <2>1, PeerTypes, IoUpdatesTypes
<1>4. CASE peer[p][q] # "WAITING_FOR_REPLY"
  BY <1>1, <1>4 DEF HandleReply, Types
<1>5. QED
  BY <1>3, <1>4

(* A message that another process has sent through the registry. *)
LEMMA Relayed ==
  ASSUME Types, NEW p \in Procs, NEW kind, FromRegistry(p, kind), kind \notin {"known", "reply"}
  PROVE  /\ Head(fromReg[p]) \in MessagesToRegistry
         /\ Head(fromReg[p]).origin \in Procs /\ Head(fromReg[p]).target \in Procs
<1>1. Head(fromReg[p]) \in MessagesOfRegistry /\ Head(fromReg[p]).kind = kind
  BY FromRegistryMoves
<1>2. Head(fromReg[p]) \in MessagesToRegistry
  BY <1>1, MessageFields
<1>3. QED
  BY <1>2, MessageFields

LEMMA NextTypes ==
  ASSUME Types, [Next]_vars
  PROVE  Types'
<1> USE ProcsAssumption
<1>a. /\ peer \in [Procs -> [Procs -> PeerStages]] /\ proxying \in [Procs -> Procs \cup {Nobody}]
      /\ waitable \in [Procs -> Promise] /\ complete \in [Procs -> Promise]
      /\ heard \in [Procs -> SUBSET Procs]
      /\ connected \in [Names -> Procs \cup {Nobody}] /\ byName \in [Names -> Procs \cup {Nobody}]
  BY DEF Types
<1>b. {"FAILURE", "REMOTE_IS_CONNECTING", "WAITING_FOR_REPLY"} \subseteq PeerStages
  BY DEF PeerStages
<1> USE DEF joinVars, connectVars, registryVars, netVars
<1>1. CASE UNCHANGED vars
  BY <1>1 DEF vars, Types
<1>2. ASSUME NEW p \in Procs, JoinSimulation(p)
      PROVE  Types'
  <2>1. Msg("announce", p, p) \in MessagesToRegistry
    BY MessageFields
  <2>2. toReg' \in [Procs -> Seq(MessagesToRegistry)]
    BY <1>2, <2>1, TellMoves DEF JoinSimulation
  <2>3. QED
    BY <1>2, <2>2 DEF JoinSimulation, Types, UserPlaces
<1>3. ASSUME NEW p \in Procs, Leave(p)
      PROVE  Types'
  BY <1>3 DEF Leave, Types
<1>4. ASSUME NEW p \in Procs, UserThread(p) \/ UpdateStage(p, "io")
      PROVE  Types'
  <2>1. CASE WaitForRegistryHandshakeToComplete(p)
    BY <2>1 DEF WaitForRegistryHandshakeToComplete, Types, UserPlaces, Stages
  <2>2. CASE StartConnectingDone(p)
    BY <2>2 DEF StartConnectingDone, Types, UserPlaces, Places
  <2>3. ASSUME NEW q \in Procs, StartPeer(p, q)
        PROVE  Types'
    BY <2>3 DEF StartPeer, Types, PeerStages
  <2>4. CASE ConnectToKnownParticipants(p)
    BY <2>4 DEF ConnectToKnownParticipants, Types, UserPlaces
  <2>5. CASE WaitForAllReplies(p)
    BY <2>5 DEF WaitForAllReplies, Types, UserPlaces
  <2>6. ASSUME NEW t \in {"user", "io"}, UpdateStage(p, t)
        PROVE  Types'
    <3>1. update' \in [Procs -> [{"user", "io"} -> Places]]
      <4>1. \E v \in Places : update' = [update EXCEPT ![p][t] = v]
        BY <2>6 DEF UpdateStage, UpdateEnter, UpdateFail, UpdateConnecting, UpdateWait,
                    UpdateWaiting, UpdateDone, Places
      <4>2. QED
        BY <4>1, UpdateTypes
    <3>2. stage' \in [Procs -> Stages]
      BY <2>6, ZenonT(30) DEF UpdateStage, UpdateEnter, UpdateFail, UpdateConnecting, UpdateWait,
                  UpdateWaiting, UpdateDone, Types, Stages
    <3>3. waitable' \in [Procs -> Promise] /\ complete' \in [Procs -> Promise]
      <4>1. /\ \E v \in Promise : waitable' \in {waitable, SetPromise(waitable, p, v)}
            /\ \E v \in Promise : complete' \in {complete, SetPromise(complete, p, v)}
        BY <2>6 DEF UpdateStage, UpdateEnter, UpdateFail, UpdateConnecting, UpdateWait,
                    UpdateWaiting, UpdateDone, Promise
      <4>2. QED
        <5>1. \A v \in Promise : SetPromise(waitable, p, v) \in [Procs -> Promise]
          BY <1>a, PromiseTypes
        <5>2. \A v \in Promise : SetPromise(complete, p, v) \in [Procs -> Promise]
          BY <1>a, PromiseTypes
        <5>3. QED
          BY <4>1, <5>1, <5>2, <1>a, ZenonT(30)
    <3>4. QED
      BY <2>6, <3>1, <3>2, <3>3 DEF UpdateStage, Types
  <2>7. QED
    BY <1>4, <2>1, <2>2, <2>3, <2>4, <2>5, <2>6 DEF UserThread
<1>5. ASSUME NEW p \in Procs, IoThread(p)
      PROVE  Types'
  <2>1. CASE UpdateStage(p, "io")
    BY <2>1, <1>4
  <2>2. CASE TryProxyConnect(p)
    <3>1. PICK q \in Procs : q = proxying[p]
      BY <2>2 DEF TryProxyConnect, Types
    <3>2. Msg("proxy-announcement", p, q) \in MessagesToRegistry
      BY MessageFields
    <3>3. toReg' \in [Procs -> Seq(MessagesToRegistry)]
      BY <2>2, <3>1, <3>2, TellMoves DEF TryProxyConnect, Types
    <3>4. peer' \in [Procs -> [Procs -> PeerStages]]
      <4>1. peer' = peer \/ peer' = [peer EXCEPT ![p][q] = "FAILURE"]
        BY <2>2, <3>1 DEF TryProxyConnect
      <4>2. QED
        BY <4>1, <1>b, PeerStep
    <3>5. update' \in [Procs -> [{"user", "io"} -> Places]]
      BY <2>2, IoUpdatesTypes DEF TryProxyConnect
    <3>6. QED
      BY <2>2, <3>3, <3>4, <3>5 DEF TryProxyConnect, Types
  <2>3. CASE RemoteIsConnecting(p)
    <3>1. fromReg' \in [Procs -> Seq(MessagesOfRegistry)] /\ Head(fromReg[p]).target \in Procs
      BY <2>3, FromRegistryMoves, Relayed DEF RemoteIsConnecting
    <3>2. peer' \in [Procs -> [Procs -> PeerStages]]
      <4>1. \/ peer' = peer
            \/ peer' = [peer EXCEPT ![p][Head(fromReg[p]).target] = "REMOTE_IS_CONNECTING"]
        BY <2>3 DEF RemoteIsConnecting
      <4>2. QED
        BY <3>1, <4>1, <1>b, PeerStep
    <3>3. update' \in [Procs -> [{"user", "io"} -> Places]]
      BY <2>3, IoUpdatesTypes DEF RemoteIsConnecting, Types
    <3>4. QED
      BY <2>3, <3>1, <3>2, <3>3 DEF RemoteIsConnecting, Types
  <2>4. CASE RemoteFailedToConnect(p)
    <3>1. fromReg' \in [Procs -> Seq(MessagesOfRegistry)] /\ Head(fromReg[p]).target \in Procs
      BY <2>4, FromRegistryMoves, Relayed DEF RemoteFailedToConnect
    <3>2. peer' \in [Procs -> [Procs -> PeerStages]]
      <4>1. \/ peer' = peer
            \/ peer' = [peer EXCEPT ![p][Head(fromReg[p]).target] = "WAITING_FOR_REPLY"]
        BY <2>4 DEF RemoteFailedToConnect
      <4>2. QED
        BY <3>1, <4>1, <1>b, PeerStep
    <3>3. proxying' \in [Procs -> Procs \cup {Nobody}]
      BY <2>4, <3>1, <1>a DEF RemoteFailedToConnect
    <3>4. QED
      BY <2>4, <3>1, <3>2, <3>3 DEF RemoteFailedToConnect, Types
  <2>5. CASE ReplyByProxy(p)
    <3>1. fromReg' \in [Procs -> Seq(MessagesOfRegistry)] /\ Head(fromReg[p]).origin \in Procs
      BY <2>5, FromRegistryMoves, Relayed DEF ReplyByProxy
    <3>2. /\ heard' \in [Procs -> SUBSET Procs]
          /\ peer' \in [Procs -> [Procs -> PeerStages]]
          /\ update' \in [Procs -> [{"user", "io"} -> Places]]
      BY <2>5, <3>1, HandleReplyTypes DEF ReplyByProxy
    <3>3. QED
      BY <2>5, <3>1, <3>2 DEF ReplyByProxy, Types
  <2>6. CASE ReceiveKnownParticipants(p)
    <3>1. fromReg' \in [Procs -> Seq(MessagesOfRegistry)] /\ Head(fromReg[p]).peers \subseteq Procs
      BY <2>6, FromRegistryMoves, MessageFields DEF ReceiveKnownParticipants
    <3>2. known' \in [Procs -> SUBSET SUBSET Procs]
      BY <2>6, <3>1 DEF ReceiveKnownParticipants, Types
    <3>3. QED
      BY <2>6, <3>1, <3>2 DEF ReceiveKnownParticipants, Types
  <2>7. CASE ReceiveRegistryReply(p)
    <3>1. fromReg' \in [Procs -> Seq(MessagesOfRegistry)] /\ Head(fromReg[p]).status \in {"value", "error"}
      BY <2>7, FromRegistryMoves, MessageFields DEF ReceiveRegistryReply
    <3>2. QED
      BY <2>7, <3>1 DEF ReceiveRegistryReply, Types, Promise
  <2>8. CASE AnnouncementByProxy(p)
    <3>1. fromReg' \in [Procs -> Seq(MessagesOfRegistry)] /\ Head(fromReg[p]).origin \in Procs
      BY <2>8, FromRegistryMoves, Relayed DEF AnnouncementByProxy
    <3>2. toReg' \in [Procs -> Seq(MessagesToRegistry)]
      BY <2>8, <3>1, TellMoves, MessageFields DEF AnnouncementByProxy
    <3>3. heard' \in [Procs -> SUBSET Procs]
      BY <2>8, <3>1 DEF AnnouncementByProxy, Types
    <3>4. QED
      BY <2>8, <3>1, <3>2, <3>3 DEF AnnouncementByProxy, Types
  <2>9. CASE ReceiveRemoteParticipantConnectRequest(p)
    <3>1. fromReg' \in [Procs -> Seq(MessagesOfRegistry)] /\ Head(fromReg[p]).origin \in Procs
      BY <2>9, FromRegistryMoves, Relayed DEF ReceiveRemoteParticipantConnectRequest
    <3>2. toReg' \in [Procs -> Seq(MessagesToRegistry)]
      BY <2>9, <3>1, TellMoves, MessageFields DEF ReceiveRemoteParticipantConnectRequest
    <3>3. remotes' \in [Procs -> SUBSET Procs]
      BY <2>9, <3>1 DEF ReceiveRemoteParticipantConnectRequest, Types
    <3>4. QED
      BY <2>9, <3>1, <3>2, <3>3 DEF ReceiveRemoteParticipantConnectRequest, Types
  <2>10. ASSUME NEW q \in Procs, OnConnectPeerSuccess(p, q)
         PROVE  Types'
    <3>1. wire' = [wire EXCEPT ![p][q]["acceptor"] = Append(wire[p][q]["acceptor"], "announcement")]
      BY <2>10 DEF OnConnectPeerSuccess
    <3>2. wire' \in [Procs -> [Procs -> [Roles -> Seq(Handshake)]]]
      BY <3>1, WireTypes, MovesAppend DEF Roles, Handshake
    <3>3. QED
      BY <2>10, <3>2 DEF OnConnectPeerSuccess, Types, PeerStages, IoUpdates, Places
  <2>11. ASSUME NEW q \in Procs, OnConnectPeerFailure(p, q)
         PROVE  Types'
    <3>1. toReg' \in [Procs -> Seq(MessagesToRegistry)]
      BY <2>11, TellMoves, MessageFields DEF OnConnectPeerFailure, Types
    <3>2. peer' \in [Procs -> [Procs -> PeerStages]]
      <4>1. \E v \in PeerStages : peer' = [peer EXCEPT ![p][q] = v]
        BY <2>11 DEF OnConnectPeerFailure, PeerStages
      <4>2. QED
        BY <4>1, PeerTypes
    <3>3. update' \in [Procs -> [{"user", "io"} -> Places]]
      BY <2>11, IoUpdatesTypes DEF OnConnectPeerFailure, Types
    <3>4. proxying' \in [Procs -> Procs \cup {Nobody}]
      BY <2>11, <1>a DEF OnConnectPeerFailure
    <3>5. timers' \in [Procs -> SUBSET Procs] /\ attempts' \in [Procs -> SUBSET Procs]
      <4>1. timers \in [Procs -> SUBSET Procs] /\ attempts \in [Procs -> SUBSET Procs]
        BY DEF Types
      <4>2. QED
        BY <2>11, <4>1 DEF OnConnectPeerFailure
    <3>6. QED
      BY <2>11, <3>1, <3>2, <3>3, <3>4, <3>5 DEF OnConnectPeerFailure, Types
  <2>12. ASSUME NEW q \in Procs, OnTimerExpired(p, q)
         PROVE  Types'
    <3>1. peer' \in [Procs -> [Procs -> PeerStages]]
      <4>1. peer' = peer \/ peer' = [peer EXCEPT ![p][q] = "WAITING_FOR_REPLY"]
        BY <2>12 DEF OnTimerExpired
      <4>2. QED
        BY <4>1, <1>b, PeerStep
    <3>2. proxying' \in [Procs -> Procs \cup {Nobody}]
      BY <2>12, <1>a DEF OnTimerExpired
    <3>3. QED
      BY <2>12, <3>1, <3>2 DEF OnTimerExpired, Types
  <2>13. ASSUME NEW q \in Procs, RemoteParticipantAnnouncement(p, q)
         PROVE  Types'
    <3>1. wire' \in [Procs -> [Procs -> [Roles -> Seq(Handshake)]]]
      <4>1. /\ Tail(wire[q][p].acceptor) \in Seq(Handshake)
            /\ Append(wire[q][p].opener, "announcement") \in Seq(Handshake)
        BY <2>13, WireTypes, MovesTail, MovesAppend DEF RemoteParticipantAnnouncement, Handshake
      <4>2. wire' = [wire EXCEPT ![q][p] =
                       [acceptor |-> Tail(wire[q][p].acceptor),
                        opener |-> Append(wire[q][p].opener, "announcement")]]
        BY <2>13 DEF RemoteParticipantAnnouncement
      <4>3. QED
        BY <4>1, <4>2, WireTypes
    <3>2. peer' \in [Procs -> [Procs -> PeerStages]]
      <4>1. peer' = peer \/ peer' = [peer EXCEPT ![p][q] = "WAITING_FOR_REPLY"]
        BY <2>13 DEF RemoteParticipantAnnouncement
      <4>2. QED
        BY <4>1, <1>b, PeerStep
    <3>3. update' \in [Procs -> [{"user", "io"} -> Places]]
      BY <2>13, IoUpdatesTypes DEF RemoteParticipantAnnouncement, Types
    <3>4. QED
      BY <2>13, <3>1, <3>2, <3>3 DEF RemoteParticipantAnnouncement, Types
  <2>14. ASSUME NEW q \in Procs, OnRemoteConnectionSuccess(p, q)
         PROVE  Types'
    <3>1. wire' = [wire EXCEPT ![p][q]["acceptor"] = Append(wire[p][q]["acceptor"], "remote")]
      BY <2>14 DEF OnRemoteConnectionSuccess
    <3>2. wire' \in [Procs -> [Procs -> [Roles -> Seq(Handshake)]]]
      BY <3>1, WireTypes, MovesAppend DEF Roles, Handshake
    <3>3. QED
      BY <2>14, <3>2 DEF OnRemoteConnectionSuccess, Types
  <2>15. ASSUME NEW q \in Procs, OnRemoteConnectionFailure(p, q)
         PROVE  Types'
    <3>1. toReg' \in [Procs -> Seq(MessagesToRegistry)]
      BY <2>15, TellMoves, MessageFields DEF OnRemoteConnectionFailure
    <3>2. QED
      BY <2>15, <3>1 DEF OnRemoteConnectionFailure, Types
  <2>16. ASSUME NEW q \in Procs, NEW x \in Roles, ReplyOnWire(p, q, x)
         PROVE  Types'
    <3>1. PICK i \in Procs, a \in Procs : i = Opener(p, q, x) /\ a = Acceptor(p, q, x)
      BY DEF Opener, Acceptor
    <3>2. wire' = [wire EXCEPT ![i][a][x] = Tail(wire[i][a][x])] /\ wire[i][a][x] # <<>>
      BY <2>16, <3>1 DEF ReplyOnWire
    <3>3. wire' \in [Procs -> [Procs -> [Roles -> Seq(Handshake)]]]
      BY <3>2, WireTypes, MovesTail DEF Roles
    <3>4. /\ heard' \in [Procs -> SUBSET Procs]
          /\ peer' \in [Procs -> [Procs -> PeerStages]]
          /\ update' \in [Procs -> [{"user", "io"} -> Places]]
      BY <2>16, HandleReplyTypes DEF ReplyOnWire
    <3>5. QED
      BY <2>16, <3>3, <3>4 DEF ReplyOnWire, Types
  <2>17. ASSUME NEW q \in Procs, NEW x \in Roles, ReceiveParticipantAnnouncement(p, q, x)
         PROVE  Types'
    <3>1. PICK i \in Procs, a \in Procs : i = Opener(p, q, x) /\ a = Acceptor(p, q, x)
      BY DEF Opener, Acceptor
    <3>2. PICK y \in Roles : y = (IF x = "opener" THEN "acceptor" ELSE "opener")
      BY DEF Roles
    <3>3. /\ wire' = [wire EXCEPT ![i][a][x] = Tail(@), ![i][a][y] = Append(@, "reply")]
          /\ wire[i][a][x] # <<>> /\ x # y
      BY <2>17, <3>1, <3>2 DEF ReceiveParticipantAnnouncement, Roles
    <3>4. wire' \in [Procs -> [Procs -> [Roles -> Seq(Handshake)]]]
      <4>1. wire[i][a][x] \in Seq(Handshake) /\ wire[i][a][y] \in Seq(Handshake)
        BY WireTypes DEF Roles
      <4>2. Tail(wire[i][a][x]) \in Seq(Handshake) /\ Append(wire[i][a][y], "reply") \in Seq(Handshake)
        BY <3>3, <4>1, MovesTail, MovesAppend DEF Handshake
      <4>3. QED
        BY <3>3, <4>1, <4>2 DEF Types
    <3>5. heard' \in [Procs -> SUBSET Procs]
      <4>1. heard' = [heard EXCEPT ![p] = @ \cup {q}]
        BY <2>17 DEF ReceiveParticipantAnnouncement
      <4>2. QED
        BY <4>1, <1>a
    <3>6. QED
      BY <2>17, <3>4, <3>5 DEF ReceiveParticipantAnnouncement, Types
  <2>18. QED
    BY <1>5, <2>1, <2>2, <2>3, <2>4, <2>5, <2>6, <2>7, <2>8, <2>9, <2>10, <2>11, <2>12, <2>13,
       <2>14, <2>15, <2>16, <2>17 DEF IoThread
<1>6. ASSUME NEW p \in Procs, OnParticipantAnnouncement(p)
      PROVE  Types'
  <2>1. toReg' \in [Procs -> Seq(MessagesToRegistry)]
    BY <1>6, ReadMoves DEF OnParticipantAnnouncement
  <2>2. fromReg' \in [Procs -> Seq(MessagesOfRegistry)]
    <3>1. CASE p \notin alive
      BY <1>6, <3>1 DEF OnParticipantAnnouncement, RegistrySends, Types
    <3>2. CASE p \in alive /\ connected[NameOf[p]] # Nobody
      BY <1>6, <3>2, SendMoves, MessageFields DEF OnParticipantAnnouncement
    <3>3. CASE p \in alive /\ connected[NameOf[p]] = Nobody
      <4>1. {connected[k] : k \in Names} \ {Nobody, p} \in SUBSET Procs
        BY DEF Types
      <4> DEFINE s == {connected[k] : k \in Names} \ {Nobody, p}
      <4>2. RegistrySends(p, <<[kind |-> "known", peers |-> s], [kind |-> "reply", status |-> "value"]>>)
        BY <1>6, <3>3, <4>1 DEF OnParticipantAnnouncement
      <4>3. QED
        <5>1. [kind |-> "known", peers |-> s] \in MessagesOfRegistry
          BY <4>1, MessageFields
        <5>2. [kind |-> "reply", status |-> "value"] \in MessagesOfRegistry
          BY MessageFields
        <5>3. QED
          BY <3>3, <4>2, <5>1, <5>2, SendAnswer
    <3>4. QED
      BY <3>1, <3>2, <3>3
  <2>3. connected' \in [Names -> Procs \cup {Nobody}] /\ byName' \in [Names -> Procs \cup {Nobody}]
    <3>1. /\ connected' = connected \/ connected' = [connected EXCEPT ![NameOf[p]] = p]
          /\ byName' = byName \/ byName' = [byName EXCEPT ![NameOf[p]] = p]
      BY <1>6 DEF OnParticipantAnnouncement
    <3>2. QED
      BY <3>1, <1>a, SMTT(30)
  <2>4. QED
    BY <1>6, <2>1, <2>2, <2>3 DEF OnParticipantAnnouncement, Types
<1>7. ASSUME NEW p \in Procs, Relay(p)
      PROVE  Types'
  <2>1. toReg' \in [Procs -> Seq(MessagesToRegistry)]
    BY <1>7, ReadMoves DEF Relay
  <2>2. PICK m \in MessagesToRegistry : m = Head(toReg[p]) /\ m \in MessagesOfRegistry
    <3>1. Head(toReg[p]) \in MessagesToRegistry /\ Head(toReg[p]).kind # "announce"
      BY <1>7, ReadMoves DEF Relay, RegistryReads
    <3>2. QED
      BY <3>1, MessageFields
  <2>3. PICK to \in Procs \cup {Nobody} :
          to = byName[NameOf[IF m.kind \in {"connecting", "failed"} THEN m.origin ELSE m.target]]
    BY <2>2, MessageFields DEF Types
  <2>4. IF to = Nobody THEN UNCHANGED fromReg ELSE RegistrySends(to, <<m>>)
    BY <1>7, <2>2, <2>3 DEF Relay
  <2>5. fromReg' \in [Procs -> Seq(MessagesOfRegistry)]
    BY <2>2, <2>3, <2>4, SendMoves DEF Types
  <2>6. QED
    BY <1>7, <2>1, <2>5 DEF Relay, Types
<1>8. ASSUME NEW p \in Procs, OnPeerShutdown(p)
      PROVE  Types'
  BY <1>8 DEF OnPeerShutdown, Types
<1>9. QED
  BY <1>1, <1>2, <1>3, <1>4, <1>5, <1>6, <1>7, <1>8 DEF Next, Registry

-----------------------------------------------------------------------------
(* The registration. *)

(* No step but JoinSimulation adds an announcement to the queues, and none *)
(* but OnParticipantAnnouncement an answer to it.                          *)
Quiet == \E p \in Procs : UserThread(p) \/ IoThread(p) \/ Leave(p) \/ Relay(p) \/ OnPeerShutdown(p)

AnnouncesKept == \A p \in Procs : \E d \in Nat : \A i \in Announces(p)' : i + d \in Announces(p)

AnswersKept ==
  \A p \in Procs : \E d \in Nat : \A i \in Answers(p)' :
    i + d \in Answers(p) /\ fromReg'[p][i] = fromReg[p][i + d]

LEMMA AnnouncesMove ==
  ASSUME Types, NEW p \in Procs, NEW M, Moves(toReg[p], toReg'[p], M),
         \A m \in M : m.kind # "announce", \A q \in Procs \ {p} : toReg'[q] = toReg[q]
  PROVE  AnnouncesKept
<1>1. PICK d \in Nat : \A i \in 1..Len(toReg'[p]) :
        (i + d \in 1..Len(toReg[p]) /\ toReg'[p][i] = toReg[p][i + d]) \/ toReg'[p][i] \in M
  BY DEF Moves
<1>2. \A i \in Announces(p)' : i + d \in Announces(p)
  BY <1>1 DEF Announces
<1>3. \A q \in Procs \ {p} : \A i \in Announces(q)' : i + 0 \in Announces(q)
  BY DEF Announces
<1>4. QED
  BY <1>2, <1>3, 0 \in Nat DEF AnnouncesKept

LEMMA AnswersMove ==
  ASSUME Types, NEW p \in Procs, NEW M, Moves(fromReg[p], fromReg'[p], M),
         \A m \in M : m.kind \notin {"known", "reply"}, \A q \in Procs \ {p} : fromReg'[q] = fromReg[q]
  PROVE  AnswersKept
<1>1. PICK d \in Nat : \A i \in 1..Len(fromReg'[p]) :
        (i + d \in 1..Len(fromReg[p]) /\ fromReg'[p][i] = fromReg[p][i + d]) \/ fromReg'[p][i] \in M
  BY DEF Moves
<1>2. \A i \in Answers(p)' : i + d \in Answers(p) /\ fromReg'[p][i] = fromReg[p][i + d]
  BY <1>1 DEF Answers
<1>3. \A q \in Procs \ {p} : \A i \in Answers(q)' :
        i + 0 \in Answers(q) /\ fromReg'[q][i] = fromReg[q][i + 0]
  BY DEF Answers
<1>4. QED
  BY <1>2, <1>3, 0 \in Nat DEF AnswersKept

LEMMA UnchangedKeeps ==
  /\ UNCHANGED toReg => AnnouncesKept
  /\ UNCHANGED fromReg => AnswersKept
<1>1. ASSUME UNCHANGED toReg PROVE AnnouncesKept
  <2>1. \A p \in Procs : \A i \in Announces(p)' : i + 0 \in Announces(p)
    BY <1>1 DEF Announces
  <2>2. QED
    BY <2>1, 0 \in Nat DEF AnnouncesKept
<1>2. ASSUME UNCHANGED fromReg PROVE AnswersKept
  <2>1. \A p \in Procs : \A i \in Answers(p)' : i + 0 \in Answers(p) /\ fromReg'[p][i] = fromReg[p][i + 0]
    BY <1>2 DEF Answers
  <2>2. QED
    BY <2>1, 0 \in Nat DEF AnswersKept
<1>3. QED
  BY <1>1, <1>2

LEMMA TellKeeps ==
  ASSUME Types, NEW p \in Procs, NEW m \in MessagesToRegistry, Tell(p, m), m.kind # "announce"
  PROVE  AnnouncesKept
<1>1. Moves(toReg[p], toReg'[p], {m}) /\ \A q \in Procs \ {p} : toReg'[q] = toReg[q]
  BY TellMoves
<1>2. QED
  BY <1>1, AnnouncesMove

LEMMA ReadKeeps ==
  ASSUME Types, NEW p \in Procs, NEW kinds, RegistryReads(p, kinds)
  PROVE  AnnouncesKept
<1>1. Moves(toReg[p], toReg'[p], {}) /\ \A q \in Procs \ {p} : toReg'[q] = toReg[q]
  BY ReadMoves
<1>2. QED
  BY <1>1, AnnouncesMove

LEMMA FromRegistryKeeps ==
  ASSUME Types, NEW p \in Procs, NEW kind, FromRegistry(p, kind)
  PROVE  AnswersKept
<1>1. Moves(fromReg[p], fromReg'[p], {}) /\ \A q \in Procs \ {p} : fromReg'[q] = fromReg[q]
  BY FromRegistryMoves
<1>2. QED
  BY <1>1, AnswersMove

LEMMA SendKeeps ==
  ASSUME Types, NEW p \in Procs, NEW m \in MessagesOfRegistry, RegistrySends(p, <<m>>),
         m.kind \notin {"known", "reply"}
  PROVE  AnswersKept
<1>1. Moves(fromReg[p], fromReg'[p], {m}) /\ \A q \in Procs \ {p} : fromReg'[q] = fromReg[q]
  BY SendMoves
<1>2. QED
  BY <1>1, AnswersMove

LEMMA QuietKeeps ==
  ASSUME Types, Quiet
  PROVE  AnnouncesKept /\ AnswersKept
<1> USE DEF joinVars, connectVars, registryVars, netVars
<1> PICK p \in Procs : UserThread(p) \/ IoThread(p) \/ Leave(p) \/ Relay(p) \/ OnPeerShutdown(p)
  BY DEF Quiet
<1>1. CASE UserThread(p) \/ UpdateStage(p, "io")
  <2>1. UNCHANGED <<toReg, fromReg>>
    BY <1>1 DEF UserThread, WaitForRegistryHandshakeToComplete, StartConnectingDone, StartPeer,
                ConnectToKnownParticipants, WaitForAllReplies, UpdateStage
  <2>2. QED
    BY <2>1, UnchangedKeeps
<1>2. CASE Leave(p)
  <2>1. fromReg'[p] = <<>> /\ \A q \in Procs \ {p} : fromReg'[q] = fromReg[q]
    BY <1>2 DEF Leave, Types
  <2>2. Moves(fromReg[p], fromReg'[p], {})
    BY <2>1, MovesEmpty
  <2>3. UNCHANGED toReg
    BY <1>2 DEF Leave
  <2>4. QED
    BY <2>1, <2>2, <2>3, AnswersMove, UnchangedKeeps, SMTT(30)
<1>3. CASE Relay(p)
  <2>1. AnnouncesKept
    BY <1>3, ReadKeeps DEF Relay
  <2>2. PICK m \in MessagesToRegistry :
          m = Head(toReg[p]) /\ m \in MessagesOfRegistry /\ m.kind \notin {"known", "reply"}
    <3>1. Head(toReg[p]) \in MessagesToRegistry /\ Head(toReg[p]).kind # "announce"
      BY <1>3, ReadMoves DEF Relay, RegistryReads
    <3>2. QED
      BY <3>1, MessageFields
  <2>3. PICK to \in Procs \cup {Nobody} :
          to = byName[NameOf[IF m.kind \in {"connecting", "failed"} THEN m.origin ELSE m.target]]
    BY <2>2, MessageFields, ProcsAssumption DEF Types
  <2>4. IF to = Nobody THEN UNCHANGED fromReg ELSE RegistrySends(to, <<m>>)
    BY <1>3, <2>2, <2>3 DEF Relay
  <2>5. QED
    BY <2>1, <2>2, <2>3, <2>4, SendKeeps, UnchangedKeeps
<1>4. CASE OnPeerShutdown(p)
  BY <1>4, UnchangedKeeps DEF OnPeerShutdown
<1>5. CASE TryProxyConnect(p)
  <2>1. PICK q \in Procs : q = proxying[p]
    BY <1>5 DEF TryProxyConnect, Types
  <2>2. UNCHANGED toReg \/ Tell(p, Msg("proxy-announcement", p, q))
    BY <1>5, <2>1 DEF TryProxyConnect
  <2>3. Msg("proxy-announcement", p, q) \in MessagesToRegistry /\ Msg("proxy-announcement", p, q).kind # "announce"
    BY MessageFields DEF Msg
  <2>4. UNCHANGED fromReg
    BY <1>5 DEF TryProxyConnect
  <2>5. QED
    BY <2>2, <2>3, <2>4, TellKeeps, UnchangedKeeps
<1>6. CASE \/ RemoteIsConnecting(p) \/ RemoteFailedToConnect(p) \/ ReplyByProxy(p)
           \/ ReceiveKnownParticipants(p) \/ ReceiveRegistryReply(p)
  <2>1. UNCHANGED toReg /\ \E kind \in {"connecting", "failed", "proxy-reply", "known", "reply"} : FromRegistry(p, kind)
    BY <1>6 DEF RemoteIsConnecting, RemoteFailedToConnect, ReplyByProxy, ReceiveKnownParticipants,
                ReceiveRegistryReply
  <2>2. QED
    BY <2>1, FromRegistryKeeps, UnchangedKeeps
<1>7. CASE AnnouncementByProxy(p)
  <2>1. FromRegistry(p, "proxy-announcement") /\ Head(fromReg[p]).origin \in Procs
    BY <1>7, Relayed DEF AnnouncementByProxy
  <2>2. PICK q \in Procs : q = Head(fromReg[p]).origin
    BY <2>1
  <2>3. Tell(p, Msg("proxy-reply", p, q))
    BY <1>7, <2>2 DEF AnnouncementByProxy
  <2>4. Msg("proxy-reply", p, q) \in MessagesToRegistry /\ Msg("proxy-reply", p, q).kind # "announce"
    BY MessageFields DEF Msg
  <2>5. QED
    BY <2>1, <2>3, <2>4, TellKeeps, FromRegistryKeeps
<1>8. CASE ReceiveRemoteParticipantConnectRequest(p)
  <2>1. FromRegistry(p, "request") /\ Head(fromReg[p]).origin \in Procs
    BY <1>8, Relayed DEF ReceiveRemoteParticipantConnectRequest
  <2>2. PICK q \in Procs : q = Head(fromReg[p]).origin
    BY <2>1
  <2>3. Tell(p, Msg("connecting", q, p))
    BY <1>8, <2>2 DEF ReceiveRemoteParticipantConnectRequest
  <2>4. Msg("connecting", q, p) \in MessagesToRegistry /\ Msg("connecting", q, p).kind # "announce"
    BY MessageFields DEF Msg
  <2>5. QED
    BY <2>1, <2>3, <2>4, TellKeeps, FromRegistryKeeps
<1>9. ASSUME NEW q \in Procs,
             \/ OnConnectPeerSuccess(p, q) \/ OnTimerExpired(p, q)
             \/ RemoteParticipantAnnouncement(p, q) \/ OnRemoteConnectionSuccess(p, q)
             \/ \E x \in Roles : ReplyOnWire(p, q, x) \/ ReceiveParticipantAnnouncement(p, q, x)
      PROVE  AnnouncesKept /\ AnswersKept
  <2>1. UNCHANGED <<toReg, fromReg>>
    BY <1>9 DEF OnConnectPeerSuccess, OnTimerExpired, RemoteParticipantAnnouncement,
                OnRemoteConnectionSuccess, ReplyOnWire, ReceiveParticipantAnnouncement
  <2>2. QED
    BY <2>1, UnchangedKeeps
<1>10. ASSUME NEW q \in Procs, OnConnectPeerFailure(p, q) \/ OnRemoteConnectionFailure(p, q)
       PROVE  AnnouncesKept /\ AnswersKept
  <2>1. UNCHANGED fromReg /\ (UNCHANGED toReg \/ Tell(p, Msg("request", p, q)) \/ Tell(p, Msg("failed", q, p)))
    BY <1>10 DEF OnConnectPeerFailure, OnRemoteConnectionFailure
  <2>2. /\ Msg("request", p, q) \in MessagesToRegistry /\ Msg("request", p, q).kind # "announce"
        /\ Msg("failed", q, p) \in MessagesToRegistry /\ Msg("failed", q, p).kind # "announce"
    BY MessageFields DEF Msg
  <2>3. QED
    BY <2>1, <2>2, TellKeeps, UnchangedKeeps
<1>11. QED
  BY <1>1, <1>2, <1>3, <1>4, <1>5, <1>6, <1>7, <1>8, <1>9, <1>10 DEF IoThread

(* What a step may do to the process' own state of the registration. *)
LEMMA RegistrationKept ==
  ASSUME Types, Registration, AnnouncesKept, AnswersKept, UNCHANGED <<regReply, known>>,
         \A n \in Names : connected'[n] \in {connected[n], Nobody},
         \A p \in Procs :
           \/ user'[p] = user[p]
           \/ /\ user'[p] # "idle" /\ user[p] # "idle"
              /\ user'[p] = "failed" \/ regReply[p] = "value" \/ user[p] \notin {"registry", "failed"}
  PROVE  Registration'
<1> SUFFICES ASSUME NEW p \in Procs
             PROVE
    (/\ user[p] = "idle" => Announces(p) = {}
     /\ user[p] = "idle" \/ Announces(p) # {} =>
          /\ Answers(p) = {} /\ regReply[p] = "none" /\ known[p] = {}
          /\ \A n \in Names : connected[n] # p
     /\ Announces(p) # {} \/ Answers(p) # {} =>
          user[p] \in {"registry", "failed"} /\ regReply[p] = "none"
     /\ \A i, j \in Announces(p) : i = j
     /\ \A i, j \in Answers(p) : fromReg[p][i].kind = "reply" => j <= i
     /\ \A i \in Answers(p) : fromReg[p][i].kind = "known" =>
          known[p] = {} /\ p \notin fromReg[p][i].peers /\ \A j \in Answers(p) : i <= j)'
  BY DEF Registration
<1>1. PICK d \in Nat : \A i \in Announces(p)' : i + d \in Announces(p)
  BY DEF AnnouncesKept
<1>2. PICK e \in Nat : \A i \in Answers(p)' : i + e \in Answers(p) /\ fromReg'[p][i] = fromReg[p][i + e]
  BY DEF AnswersKept
<1>3. Announces(p)' \subseteq Nat /\ Answers(p)' \subseteq Nat
  BY DEF Announces, Answers
<1>4. (Announces(p)' # {} => Announces(p) # {}) /\ (Answers(p)' # {} => Answers(p) # {})
  BY <1>1, <1>2
<1>5. (\A i, j \in Announces(p) : i = j)'
  BY <1>1, <1>3 DEF Registration
<1>6. (\A i, j \in Answers(p) : fromReg[p][i].kind = "reply" => j <= i)'
  BY <1>2, <1>3 DEF Registration
<1>7. (\A i \in Answers(p) : fromReg[p][i].kind = "known" =>
          known[p] = {} /\ p \notin fromReg[p][i].peers /\ \A j \in Answers(p) : i <= j)'
  BY <1>2, <1>3 DEF Registration
<1>8. Nobody # p
  BY ProcsAssumption
<1>9. QED
  BY <1>4, <1>5, <1>6, <1>7, <1>8 DEF Registration

LEMMA InitRegistration == Init => Registration
<1> SUFFICES ASSUME Init PROVE Registration
  OBVIOUS
<1>1. PICK s \in Scenarios : InitWith(s.present, s.joining) /\ s.present \subseteq Procs
  BY ProcsAssumption DEF Init
<1>2. \A p \in Procs : Announces(p) = {} /\ Answers(p) = {} /\ regReply[p] = "none" /\ known[p] = {}
  BY DEF Init, Announces, Answers
<1>3. ASSUME NEW p \in Procs, user[p] = "idle", NEW n \in Names
      PROVE  connected[n] # p
  <2>1. p \notin s.present /\ p # Nobody
    BY <1>1, <1>3, ProcsAssumption DEF InitWith
  <2>2. CASE \E q \in s.present : NameOf[q] = n
    <3>1. (CHOOSE q \in s.present : NameOf[q] = n) \in s.present
      BY <2>2
    <3>2. connected[n] = CHOOSE q \in s.present : NameOf[q] = n
      BY <1>1, <2>2 DEF InitWith
    <3>3. QED
      BY <2>1, <3>1, <3>2
  <2>3. CASE ~ \E q \in s.present : NameOf[q] = n
    BY <1>1, <2>1, <2>3 DEF InitWith
  <2>4. QED
    BY <2>2, <2>3
<1>4. QED
  BY <1>2, <1>3 DEF Registration

(* What holds of a process whose queues and entries did not change. *)
LEMMA RegistrationSame ==
  ASSUME Types, Registration, NEW p \in Procs,
         toReg'[p] = toReg[p], fromReg'[p] = fromReg[p],
         user'[p] = user[p], regReply'[p] = regReply[p], known'[p] = known[p],
         \A n \in Names : connected'[n] = p => connected[n] = p
  PROVE
    (/\ user[p] = "idle" => Announces(p) = {}
     /\ user[p] = "idle" \/ Announces(p) # {} =>
          /\ Answers(p) = {} /\ regReply[p] = "none" /\ known[p] = {}
          /\ \A n \in Names : connected[n] # p
     /\ Announces(p) # {} \/ Answers(p) # {} =>
          user[p] \in {"registry", "failed"} /\ regReply[p] = "none"
     /\ \A i, j \in Announces(p) : i = j
     /\ \A i, j \in Answers(p) : fromReg[p][i].kind = "reply" => j <= i
     /\ \A i \in Answers(p) : fromReg[p][i].kind = "known" =>
          known[p] = {} /\ p \notin fromReg[p][i].peers /\ \A j \in Answers(p) : i <= j)'
<1>1. Announces(p)' = Announces(p) /\ Answers(p)' = Answers(p)
  BY DEF Announces, Answers
<1>2. QED
  BY <1>1 DEF Registration

(* What the threads of a process leave alone. *)
LEMMA UserFrame ==
  ASSUME NEW p \in Procs, UserThread(p)
  PROVE  /\ UNCHANGED <<caps, alive, regReply, known, timers, proxying, remotes, heard, netVars, registryVars>>
         /\ \/ UNCHANGED user \/ WaitForRegistryHandshakeToComplete(p) \/ StartConnectingDone(p)
            \/ ConnectToKnownParticipants(p) \/ WaitForAllReplies(p)
<1> USE DEF joinVars, connectVars, registryVars, netVars
<1>1. CASE WaitForRegistryHandshakeToComplete(p)
  BY <1>1 DEF WaitForRegistryHandshakeToComplete
<1>2. CASE StartConnectingDone(p)
  BY <1>2 DEF StartConnectingDone
<1>3. CASE \E q \in Procs : StartPeer(p, q)
  BY <1>3 DEF StartPeer
<1>4. CASE ConnectToKnownParticipants(p)
  BY <1>4 DEF ConnectToKnownParticipants
<1>5. CASE WaitForAllReplies(p)
  BY <1>5 DEF WaitForAllReplies
<1>6. CASE UpdateStage(p, "user")
  BY <1>6 DEF UpdateStage
<1>7. QED
  BY <1>1, <1>2, <1>3, <1>4, <1>5, <1>6 DEF UserThread

LEMMA IoFrame ==
  ASSUME NEW p \in Procs, IoThread(p)
  PROVE  /\ UNCHANGED <<caps, alive, user, registryVars>>
         /\ ReceiveKnownParticipants(p) \/ ReceiveRegistryReply(p) \/ UNCHANGED <<regReply, known>>
<1> USE DEF joinVars, connectVars, registryVars, netVars
<1>1. CASE UpdateStage(p, "io")
  BY <1>1 DEF UpdateStage
<1>2. CASE TryProxyConnect(p)
  BY <1>2 DEF TryProxyConnect
<1>3. CASE RemoteIsConnecting(p)
  BY <1>3 DEF RemoteIsConnecting
<1>4. CASE RemoteFailedToConnect(p)
  BY <1>4 DEF RemoteFailedToConnect
<1>5. CASE ReplyByProxy(p)
  BY <1>5 DEF ReplyByProxy
<1>6. CASE ReceiveKnownParticipants(p)
  BY <1>6 DEF ReceiveKnownParticipants
<1>7. CASE ReceiveRegistryReply(p)
  BY <1>7 DEF ReceiveRegistryReply
<1>8. CASE AnnouncementByProxy(p)
  BY <1>8 DEF AnnouncementByProxy
<1>9. CASE ReceiveRemoteParticipantConnectRequest(p)
  BY <1>9 DEF ReceiveRemoteParticipantConnectRequest
<1>10. CASE \E q \in Procs : OnConnectPeerSuccess(p, q) \/ OnConnectPeerFailure(p, q) \/ OnTimerExpired(p, q)
  BY <1>10 DEF OnConnectPeerSuccess, OnConnectPeerFailure, OnTimerExpired
<1>11. CASE \E q \in Procs : \/ RemoteParticipantAnnouncement(p, q)
                            \/ OnRemoteConnectionSuccess(p, q) \/ OnRemoteConnectionFailure(p, q)
  BY <1>11 DEF RemoteParticipantAnnouncement, OnRemoteConnectionSuccess, OnRemoteConnectionFailure
<1>12. CASE \E q \in Procs : \E x \in Roles : ReplyOnWire(p, q, x) \/ ReceiveParticipantAnnouncement(p, q, x)
  <2>1. CASE \E q \in Procs : \E x \in Roles : ReplyOnWire(p, q, x)
    BY <2>1 DEF ReplyOnWire
  <2>2. CASE \E q \in Procs : \E x \in Roles : ReceiveParticipantAnnouncement(p, q, x)
    BY <2>2 DEF ReceiveParticipantAnnouncement
  <2>3. QED
    BY <1>12, <2>1, <2>2
<1>13. QED
  BY <1>1, <1>2, <1>3, <1>4, <1>5, <1>6, <1>7, <1>8, <1>9, <1>10, <1>11, <1>12 DEF IoThread

LEMMA NextRegistration ==
  ASSUME Types, Registration, [Next]_vars
  PROVE  Registration'
<1> USE DEF joinVars, connectVars, registryVars, netVars
<1>1. CASE UNCHANGED vars
  <2>1. AnnouncesKept /\ AnswersKept
    BY <1>1, UnchangedKeeps DEF vars
  <2>2. QED
    BY <1>1, <2>1, RegistrationKept DEF vars
<1>2. ASSUME NEW p \in Procs, JoinSimulation(p)
      PROVE  Registration'
  <2>1. PICK m \in MessagesToRegistry : m = Msg("announce", p, p) /\ m.kind = "announce"
    BY MessageFields DEF Msg
  <2>2. toReg'[p] = Append(toReg[p], m) /\ \A q \in Procs \ {p} : toReg'[q] = toReg[q]
    BY <1>2, <2>1, TellMoves DEF JoinSimulation
  <2>3. /\ UNCHANGED <<fromReg, known, regReply, connected>> /\ user[p] = "idle" /\ user'[p] = "registry"
        /\ \A q \in Procs \ {p} : user'[q] = user[q]
    BY <1>2 DEF JoinSimulation, Types
  <2>4. Announces(p) = {} /\ Answers(p) = {} /\ regReply[p] = "none" /\ known[p] = {}
        /\ \A n \in Names : connected[n] # p
    BY <2>3 DEF Registration
  <2>5. Announces(p)' \subseteq {Len(toReg[p]) + 1}
    <3>1. toReg[p] \in Seq(MessagesToRegistry)
      BY DEF Types
    <3>2. \A i \in 1..Len(toReg'[p]) : i # Len(toReg[p]) + 1 => i \in 1..Len(toReg[p]) /\ toReg'[p][i] = toReg[p][i]
      BY <2>2, <3>1
    <3>3. QED
      BY <2>4, <3>2 DEF Announces
  <2>6. Answers(p)' = Answers(p)
    BY <2>3 DEF Answers
  <2>7. ASSUME NEW q \in Procs, q # p
        PROVE  toReg'[q] = toReg[q] /\ fromReg'[q] = fromReg[q] /\ user'[q] = user[q]
               /\ regReply'[q] = regReply[q] /\ known'[q] = known[q]
               /\ \A n \in Names : connected'[n] = q => connected[n] = q
    BY <2>2, <2>3, <2>7
  <2>8. QED
    BY <2>3, <2>4, <2>5, <2>6, <2>7, RegistrationSame DEF Registration
<1>3. ASSUME NEW p \in Procs, OnParticipantAnnouncement(p)
      PROVE  Registration'
  <2>1. /\ toReg'[p] = Tail(toReg[p]) /\ Moves(toReg[p], toReg'[p], {})
        /\ \A q \in Procs \ {p} : toReg'[q] = toReg[q]
        /\ toReg[p] \in Seq(MessagesToRegistry) /\ Len(toReg[p]) > 0 /\ toReg[p][1].kind = "announce"
    BY <1>3, ReadMoves DEF OnParticipantAnnouncement, RegistryReads
  <2>2. 1 \in Announces(p)
    BY <2>1 DEF Announces
  <2>3. Answers(p) = {} /\ regReply[p] = "none" /\ known[p] = {}
        /\ (\A n \in Names : connected[n] # p) /\ user[p] \in {"registry", "failed"}
    BY <2>2 DEF Registration
  <2>4. Announces(p)' = {}
    <3>1. \A i \in 1..Len(toReg'[p]) : i + 1 \in 1..Len(toReg[p]) /\ toReg'[p][i] = toReg[p][i + 1]
      BY <2>1
    <3>2. ASSUME NEW i \in Announces(p)' PROVE FALSE
      <4>1. i \in 1..Len(toReg'[p]) /\ toReg'[p][i].kind = "announce"
        BY <3>2 DEF Announces
      <4>2. i + 1 \in Announces(p)
        BY <3>1, <4>1 DEF Announces
      <4>3. i + 1 = 1
        BY <2>2, <4>2 DEF Registration
      <4>4. QED
        BY <4>1, <4>3
    <3>3. QED
      BY <3>2
  <2>5. /\ \A q \in Procs \ {p} : fromReg'[q] = fromReg[q]
        /\ \A i \in Answers(p)' :
             \/ /\ i = Len(fromReg[p]) + 1 /\ fromReg'[p][i].kind = "reply" /\ Answers(p)' = {i}
             \/ /\ i = Len(fromReg[p]) + 2 /\ fromReg'[p][i].kind = "reply"
                /\ Answers(p)' \subseteq {i - 1, i}
             \/ /\ i = Len(fromReg[p]) + 1 /\ fromReg'[p][i].kind = "known" /\ p \notin fromReg'[p][i].peers
                /\ Answers(p)' \subseteq {i, i + 1}
    <3>0. fromReg[p] \in Seq(MessagesOfRegistry) /\ Len(fromReg[p]) \in Nat
          /\ fromReg \in [Procs -> Seq(MessagesOfRegistry)]
      BY DEF Types
    <3>1. CASE p \notin alive
      <4>1. fromReg' = fromReg
        BY <1>3, <3>1 DEF OnParticipantAnnouncement, RegistrySends
      <4>2. Answers(p)' = Answers(p)
        BY <4>1 DEF Answers
      <4>3. QED
        BY <2>3, <4>1, <4>2
    <3>2. CASE p \in alive /\ connected[NameOf[p]] # Nobody
      <4>1. RegistrySends(p, <<[kind |-> "reply", status |-> "error"]>>)
        BY <1>3, <3>2 DEF OnParticipantAnnouncement
      <4>2. fromReg' = [fromReg EXCEPT ![p] = @ \o <<[kind |-> "reply", status |-> "error"]>>]
        BY <3>2, <4>1 DEF RegistrySends
      <4>3. PICK m \in MessagesOfRegistry : m = [kind |-> "reply", status |-> "error"] /\ m.kind = "reply"
        BY MessageFields
      <4>4. fromReg'[p] = fromReg[p] \o <<m>> /\ \A q \in Procs \ {p} : fromReg'[q] = fromReg[q]
        BY <3>0, <4>2, <4>3
      <4>5. /\ Len(fromReg'[p]) = Len(fromReg[p]) + 1 /\ fromReg'[p][Len(fromReg[p]) + 1] = m
            /\ \A i \in 1..Len(fromReg[p]) : fromReg'[p][i] = fromReg[p][i]
        BY <3>0, <4>4
      <4>6. \A i \in Answers(p)' : i = Len(fromReg[p]) + 1
        BY <2>3, <3>0, <4>5 DEF Answers
      <4>7. QED
        BY <3>0, <4>3, <4>4, <4>5, <4>6
    <3>3. CASE p \in alive /\ connected[NameOf[p]] = Nobody
      <4> DEFINE others == {connected[k] : k \in Names} \ {Nobody, p}
      <4>1. RegistrySends(p, <<[kind |-> "known", peers |-> others], [kind |-> "reply", status |-> "value"]>>)
        BY <1>3, <3>3 DEF OnParticipantAnnouncement
      <4>2. others \subseteq Procs /\ p \notin others
        BY <2>3 DEF Types
      <4> HIDE DEF others
      <4>3. PICK a \in MessagesOfRegistry : a = [kind |-> "known", peers |-> others]
                                         /\ a.kind = "known" /\ p \notin a.peers
        <5>1. [kind |-> "known", peers |-> others] \in MessagesOfRegistry
          BY <4>2, MessageFields
        <5>2. QED
          BY <4>2, <5>1
      <4>4. PICK b \in MessagesOfRegistry : b = [kind |-> "reply", status |-> "value"] /\ b.kind = "reply"
        BY MessageFields
      <4>5. /\ \A q \in Procs \ {p} : fromReg'[q] = fromReg[q]
            /\ Len(fromReg'[p]) = Len(fromReg[p]) + 2
            /\ \A i \in 1..Len(fromReg[p]) : fromReg'[p][i] = fromReg[p][i]
            /\ fromReg'[p][Len(fromReg[p]) + 1] = a /\ fromReg'[p][Len(fromReg[p]) + 2] = b
        BY <3>3, <4>1, <4>3, <4>4, SendAnswer
      <4>6. \A i \in Answers(p)' : i = Len(fromReg[p]) + 1 \/ i = Len(fromReg[p]) + 2
        BY <2>3, <3>0, <4>5 DEF Answers
      <4>7. QED
        BY <3>0, <4>3, <4>4, <4>5, <4>6
    <3>4. QED
      BY <3>1, <3>2, <3>3
  <2>6. ASSUME NEW q \in Procs, q # p
        PROVE  toReg'[q] = toReg[q] /\ fromReg'[q] = fromReg[q] /\ user'[q] = user[q]
               /\ regReply'[q] = regReply[q] /\ known'[q] = known[q]
               /\ \A n \in Names : connected'[n] = q => connected[n] = q
    <3>1. \A n \in Names : connected'[n] = q => connected[n] = q
      BY <1>3, <2>6 DEF OnParticipantAnnouncement, Types
    <3>2. QED
      BY <1>3, <2>1, <2>5, <2>6, <3>1 DEF OnParticipantAnnouncement
  <2>7. UNCHANGED <<user, regReply, known>>
    BY <1>3 DEF OnParticipantAnnouncement
  <2>8. Len(fromReg[p]) \in Nat
    BY DEF Types
  <2>9. /\ (\A i, j \in Answers(p) : fromReg[p][i].kind = "reply" => j <= i)'
        /\ (\A i \in Answers(p) : fromReg[p][i].kind = "known" =>
               known[p] = {} /\ p \notin fromReg[p][i].peers /\ \A j \in Answers(p) : i <= j)'
    <3>1. \A i \in Answers(p)' : i = Len(fromReg[p]) + 1 \/ i = Len(fromReg[p]) + 2
      BY <2>5
    <3>2. QED
      BY <2>3, <2>5, <2>7, <2>8, <3>1
  <2>10. QED
    BY <2>3, <2>4, <2>6, <2>7, <2>9, RegistrationSame DEF Registration
<1>4. ASSUME NEW p \in Procs, ReceiveKnownParticipants(p) \/ ReceiveRegistryReply(p)
      PROVE  Registration'
  <2>1. PICK kind \in {"known", "reply"} : FromRegistry(p, kind)
    BY <1>4 DEF ReceiveKnownParticipants, ReceiveRegistryReply
  <2>2. /\ fromReg'[p] = Tail(fromReg[p]) /\ fromReg[p] \in Seq(MessagesOfRegistry)
        /\ Len(fromReg[p]) > 0 /\ fromReg[p][1].kind = kind /\ Head(fromReg[p]) = fromReg[p][1]
        /\ \A q \in Procs \ {p} : fromReg'[q] = fromReg[q]
    BY <2>1, FromRegistryMoves
  <2>3. 1 \in Answers(p)
    BY <2>1, <2>2 DEF Answers
  <2>4. \A i \in Answers(p)' : i \in Nat \ {0} /\ i + 1 \in Answers(p) /\ fromReg'[p][i] = fromReg[p][i + 1]
    BY <2>2 DEF Answers
  <2>5. Announces(p) = {} /\ user[p] \in {"registry", "failed"} /\ regReply[p] = "none"
    BY <2>3 DEF Registration
  <2>6. Announces(p)' = {} /\ user'[p] = user[p] /\ UNCHANGED <<toReg, user, connected>>
    BY <1>4, <2>5 DEF ReceiveKnownParticipants, ReceiveRegistryReply, Announces
  <2>7. ASSUME NEW i \in Answers(p)' PROVE fromReg'[p][i].kind # "known" /\ fromReg[p][1].kind # "reply"
    <3>1. ~ (i + 1 <= 1)
      BY <2>4
    <3>2. QED
      BY <2>3, <2>4, <3>1 DEF Registration
  <2>8. ASSUME NEW i \in Answers(p)', NEW j \in Answers(p)', fromReg'[p][i].kind = "reply"
        PROVE  j <= i
    <3>1. j + 1 <= i + 1
      BY <2>4, <2>8 DEF Registration
    <3>2. QED
      BY <2>4, <3>1
  <2>9. ASSUME Answers(p)' # {} PROVE regReply'[p] = "none"
    <3>1. kind # "reply"
      BY <2>2, <2>7, <2>9
    <3>2. ReceiveKnownParticipants(p)
      BY <1>4, <2>2, <3>1 DEF ReceiveRegistryReply, FromRegistry
    <3>3. QED
      BY <2>5, <3>2 DEF ReceiveKnownParticipants
  <2>10. ASSUME NEW q \in Procs, q # p
         PROVE  toReg'[q] = toReg[q] /\ fromReg'[q] = fromReg[q] /\ user'[q] = user[q]
                /\ regReply'[q] = regReply[q] /\ known'[q] = known[q]
                /\ \A n \in Names : connected'[n] = q => connected[n] = q
    <3>1. regReply \in [Procs -> Promise] /\ known \in [Procs -> SUBSET SUBSET Procs]
      BY DEF Types
    <3>2. QED
      BY <1>4, <2>2, <2>6, <2>10, <3>1 DEF ReceiveKnownParticipants, ReceiveRegistryReply
  <2>11. QED
    BY <2>5, <2>6, <2>7, <2>8, <2>9, <2>10, RegistrationSame DEF Registration
<1>5. ASSUME NEW p \in Procs,
             \/ Leave(p) \/ Relay(p) \/ OnPeerShutdown(p)
             \/ UserThread(p)
             \/ IoThread(p) /\ ~ ReceiveKnownParticipants(p) /\ ~ ReceiveRegistryReply(p)
      PROVE  Registration'
  <2>1. AnnouncesKept /\ AnswersKept
    BY <1>5, QuietKeeps DEF Quiet
  <2>2. UNCHANGED <<regReply, known>>
    BY <1>5, UserFrame, IoFrame DEF Leave, Relay, OnPeerShutdown
  <2>3. \A n \in Names : connected'[n] \in {connected[n], Nobody}
    <3>1. connected \in [Names -> Procs \cup {Nobody}]
      BY DEF Types
    <3>2. UNCHANGED connected \/ OnPeerShutdown(p)
      BY <1>5, UserFrame, IoFrame DEF Leave, Relay
    <3>3. QED
      BY <3>1, <3>2 DEF OnPeerShutdown
  <2>4. ASSUME NEW q \in Procs
        PROVE  \/ user'[q] = user[q]
               \/ /\ user'[q] # "idle" /\ user[q] # "idle"
                  /\ user'[q] = "failed" \/ regReply[q] = "value" \/ user[q] \notin {"registry", "failed"}
    <3>1. user \in [Procs -> UserPlaces]
      BY DEF Types
    <3>2. \/ UNCHANGED user \/ WaitForRegistryHandshakeToComplete(p) \/ StartConnectingDone(p)
          \/ ConnectToKnownParticipants(p) \/ WaitForAllReplies(p)
      BY <1>5, UserFrame, IoFrame DEF Leave, Relay, OnPeerShutdown
    <3>3. QED
      BY <3>1, <3>2 DEF WaitForRegistryHandshakeToComplete, StartConnectingDone,
                        ConnectToKnownParticipants, WaitForAllReplies
  <2>5. QED
    BY <2>1, <2>2, <2>3, <2>4, RegistrationKept
<1>6. QED
  BY <1>1, <1>2, <1>3, <1>4, <1>5 DEF Next, Registry, IoThread

-----------------------------------------------------------------------------
(* The peers. *)
LEMMA InitPeers == Init => Peers
<1> SUFFICES ASSUME Init, NEW p \in Procs PROVE PeersOf(p)
  BY DEF Peers
<1>1. Cardinality(known[p]) <= 1 /\ UNION known[p] = {}
  BY FS_EmptySet DEF Init
<1>2. user[p] \in {"joined", "idle"}
  BY ProcsAssumption DEF Init, InitWith
<1>3. proxying[p] \notin Procs
  BY ProcsAssumption DEF Init
<1>4. QED
  BY <1>1, <1>2, <1>3 DEF Init, PeersOf

(* The variables of PeersOf(p), and what is left of the steps of others. *)
SamePeers(p) ==
  /\ known'[p] = known[p] /\ regReply'[p] = regReply[p] /\ peer'[p] = peer[p]
  /\ attempts'[p] = attempts[p] /\ timers'[p] = timers[p] /\ proxying'[p] = proxying[p]

SameUpdate(p) ==
  \A t \in {"user", "io"} : update'[p][t] = update[p][t] \/ update'[p][t] \in {"out", "enter"}

LEMMA IoUpdatesSame ==
  ASSUME Types, NEW p \in Procs, IoUpdates(p) \/ UNCHANGED update
  PROVE  \A q \in Procs : SameUpdate(q)
<1>1. update \in [Procs -> [{"user", "io"} -> Places]]
  BY DEF Types
<1>2. QED
  BY <1>1 DEF IoUpdates, SameUpdate

LEMMA PeersKept ==
  ASSUME Types, Peers, NEW p \in Procs, SamePeers(p),
         \/ regReply[p] = "value"
         \/ /\ stage'[p] = stage[p] /\ SameUpdate(p)
            /\ user'[p] = user[p] \/ user'[p] \notin {"start", "handshakes", "replies"}
  PROVE  PeersOf(p)'
<1>1. PeersOf(p)
  BY DEF Peers
<1>2. QED
  BY <1>1 DEF SamePeers, SameUpdate, PeersOf

(* The stage of one peer changes, under the thread that may do so. *)
LEMMA PeerChanged ==
  ASSUME Types, Peers, NEW p \in Procs, NEW q \in Procs, NEW v \in PeerStages,
         peer' = [peer EXCEPT ![p][q] = v], v # "INVALID", peer[p][q] # "INVALID",
         known' = known, regReply' = regReply, stage' = stage, user' = user,
         \A r \in Procs : SameUpdate(r),
         q \in attempts'[p] => v = "DIRECT", attempts'[p] \subseteq attempts[p],
         timers'[p] \subseteq timers[p] \cup {q},
         proxying'[p] \in {proxying[p], q, Nobody}, proxying'[p] = q => v = "WAITING_FOR_REPLY",
         \A r \in Procs \ {p} : attempts'[r] = attempts[r] /\ timers'[r] = timers[r] /\ proxying'[r] = proxying[r]
  PROVE  Peers'
<1>1. /\ peer'[p][q] = v /\ \A r \in Procs \ {q} : peer'[p][r] = peer[p][r]
      /\ \A r \in Procs \ {p} : peer'[r] = peer[r]
  BY DEF Types
<1>2. PeersOf(p)
  BY DEF Peers
<1>3. PeersOf(p)'
  <2>1. Nobody \notin Procs
    BY ProcsAssumption
  <2>2. ASSUME NEW r \in Procs
        PROVE  /\ peer'[p][r] # "INVALID" => regReply'[p] = "value" /\ r \in UNION known'[p]
               /\ r \in attempts'[p] => peer'[p][r] = "DIRECT"
               /\ r \in timers'[p] => peer'[p][r] # "INVALID"
               /\ proxying'[p] = r => peer'[p][r] = "WAITING_FOR_REPLY"
    <3>1. CASE r = q
      BY <1>1, <1>2, <3>1 DEF PeersOf
    <3>2. CASE r # q
      BY <1>1, <1>2, <2>1, <3>2 DEF PeersOf
    <3>3. QED
      BY <3>1, <3>2
  <2>3. QED
    BY <1>2, <2>2 DEF PeersOf, SameUpdate
<1>4. ASSUME NEW r \in Procs, r # p PROVE PeersOf(r)'
  <2>1. SamePeers(r)
    BY <1>1, <1>4 DEF SamePeers
  <2>2. QED
    BY <2>1, PeersKept
<1>5. QED
  BY <1>3, <1>4 DEF Peers

LEMMA NextPeers ==
  ASSUME Types, Registration, Peers, [Next]_vars
  PROVE  Peers'
<1> USE DEF joinVars, connectVars, registryVars, netVars
<1>a. /\ known \in [Procs -> SUBSET SUBSET Procs] /\ regReply \in [Procs -> Promise]
      /\ peer \in [Procs -> [Procs -> PeerStages]] /\ stage \in [Procs -> Stages]
      /\ user \in [Procs -> UserPlaces] /\ proxying \in [Procs -> Procs \cup {Nobody}]
      /\ attempts \in [Procs -> SUBSET Procs] /\ timers \in [Procs -> SUBSET Procs]
      /\ update \in [Procs -> [{"user", "io"} -> Places]]
  BY DEF Types
<1>b. {"FAILURE", "DIRECT", "REMOTE_CONNECT_REQUESTED", "REMOTE_IS_CONNECTING",
       "WAITING_FOR_REPLY", "REPLY_RECEIVED"} \subseteq PeerStages
  BY DEF PeerStages
<1>c. Nobody \notin Procs
  BY ProcsAssumption
<1>1. ASSUME UNCHANGED <<user, stage, known, regReply, peer, attempts, timers, proxying, update>>
      PROVE  Peers'
  <2>1. \A p \in Procs : SamePeers(p) /\ SameUpdate(p)
    BY <1>1 DEF SamePeers, SameUpdate
  <2>2. QED
    BY <1>1, <2>1, PeersKept DEF Peers
<1>2. ASSUME NEW p \in Procs, JoinSimulation(p)
      PROVE  Peers'
  <2>1. \A q \in Procs : SamePeers(q) /\ stage'[q] = stage[q] /\ SameUpdate(q)
    BY <1>2 DEF JoinSimulation, SamePeers, SameUpdate
  <2>2. \A q \in Procs : user'[q] = user[q] \/ user'[q] \notin {"start", "handshakes", "replies"}
    BY <1>2, <1>a DEF JoinSimulation
  <2>3. QED
    BY <2>1, <2>2, PeersKept DEF Peers
<1>3. ASSUME NEW p \in Procs, Leave(p) \/ Relay(p) \/ OnPeerShutdown(p) \/ OnParticipantAnnouncement(p)
      PROVE  Peers'
  BY <1>3, <1>1 DEF Leave, Relay, OnPeerShutdown, OnParticipantAnnouncement
<1>d. ASSUME NEW p \in Procs, NEW t \in {"user", "io"}, UpdateStage(p, t)
      PROVE  Peers'
  <2>0. PeersOf(p)
    BY DEF Peers
  <2>1. \A q \in Procs : SamePeers(q)
    BY <1>d DEF UpdateStage, SamePeers
  <2>2. UNCHANGED user
    BY <1>d DEF UpdateStage
  <2>3. \A q \in Procs \ {p} : stage'[q] = stage[q] /\ SameUpdate(q)
    BY <1>d, <1>a DEF UpdateStage, UpdateEnter, UpdateFail, UpdateConnecting, UpdateWait,
                      UpdateWaiting, UpdateDone, SameUpdate
  <2>4. regReply[p] = "value" \/ (stage'[p] = stage[p] /\ SameUpdate(p))
    <3>1. CASE regReply[p] # "value"
      <4>1. update[p][t] \in {"out", "enter"} /\ stage[p] = "INVALID"
        BY <2>0, <3>1 DEF PeersOf
      <4>2. UpdateEnter(p, t)
        BY <1>d, <4>1 DEF UpdateStage, UpdateFail, UpdateConnecting, UpdateWait, UpdateWaiting, UpdateDone
      <4>3. stage' = stage /\ update' = [update EXCEPT ![p][t] = "out"]
        BY <4>1, <4>2 DEF UpdateEnter
      <4>4. QED
        BY <4>3, <1>a DEF SameUpdate
    <3>2. QED
      BY <3>1
  <2>5. QED
    BY <2>1, <2>2, <2>3, <2>4, PeersKept DEF Peers
<1>4. ASSUME NEW p \in Procs, UserThread(p)
      PROVE  Peers'
  <2>1. CASE WaitForRegistryHandshakeToComplete(p)
    <3>1. \A q \in Procs : SamePeers(q)
      BY <2>1 DEF WaitForRegistryHandshakeToComplete, SamePeers
    <3>2. \A q \in Procs \ {p} : stage'[q] = stage[q] /\ user'[q] = user[q]
      BY <2>1, <1>a DEF WaitForRegistryHandshakeToComplete
    <3>3. regReply[p] = "value" \/ (stage'[p] = stage[p] /\ user'[p] = "failed")
      BY <2>1, <1>a DEF WaitForRegistryHandshakeToComplete
    <3>4. \A q \in Procs : SameUpdate(q)
      BY <2>1 DEF WaitForRegistryHandshakeToComplete, SameUpdate
    <3>5. QED
      BY <3>1, <3>2, <3>3, <3>4, PeersKept DEF Peers
  <2>2. CASE StartConnectingDone(p) \/ ConnectToKnownParticipants(p) \/ WaitForAllReplies(p)
    <3>1. \A q \in Procs : SamePeers(q) /\ stage'[q] = stage[q]
      BY <2>2 DEF StartConnectingDone, ConnectToKnownParticipants, WaitForAllReplies, SamePeers
    <3>2. \A q \in Procs \ {p} : user'[q] = user[q] /\ SameUpdate(q)
      BY <2>2, <1>a DEF StartConnectingDone, ConnectToKnownParticipants, WaitForAllReplies, SameUpdate
    <3>3. user[p] \in {"start", "handshakes", "replies"} /\ PeersOf(p)
      BY <2>2 DEF StartConnectingDone, ConnectToKnownParticipants, WaitForAllReplies, Peers
    <3>4. regReply[p] = "value"
      BY <3>3 DEF PeersOf
    <3>5. QED
      BY <3>1, <3>2, <3>4, PeersKept DEF Peers
  <2>3. ASSUME NEW q \in Procs, StartPeer(p, q)
        PROVE  Peers'
    <3>1. /\ peer'[p][q] = "DIRECT" /\ peer[p][q] = "INVALID" /\ q \in UNION known[p]
          /\ \A r \in Procs \ {q} : peer'[p][r] = peer[p][r]
          /\ \A r \in Procs \ {p} : peer'[r] = peer[r] /\ attempts'[r] = attempts[r]
          /\ attempts'[p] = attempts[p] \cup {q} /\ user[p] = "start"
          /\ UNCHANGED <<known, regReply, stage, user, timers, proxying, update>>
      BY <2>3, <1>a DEF StartPeer
    <3>2. PeersOf(p)
      BY DEF Peers
    <3>3. ASSUME NEW r \in Procs
          PROVE  /\ peer'[p][r] # "INVALID" => regReply'[p] = "value" /\ r \in UNION known'[p]
                 /\ r \in attempts'[p] => peer'[p][r] = "DIRECT"
                 /\ r \in timers'[p] => peer'[p][r] # "INVALID"
                 /\ proxying'[p] = r => peer'[p][r] = "WAITING_FOR_REPLY"
      <4>1. CASE r = q
        BY <3>1, <3>2, <4>1 DEF PeersOf
      <4>2. CASE r # q
        BY <3>1, <3>2, <4>2 DEF PeersOf
      <4>3. QED
        BY <4>1, <4>2
    <3>4. PeersOf(p)'
      BY <3>1, <3>2, <3>3 DEF PeersOf
    <3>5. \A r \in Procs \ {p} : SamePeers(r) /\ SameUpdate(r) /\ stage'[r] = stage[r] /\ user'[r] = user[r]
      BY <3>1 DEF SamePeers, SameUpdate
    <3>6. QED
      BY <3>4, <3>5, PeersKept DEF Peers
  <2>4. CASE UpdateStage(p, "user")
    BY <2>4, <1>d
  <2>5. QED
    BY <1>4, <2>1, <2>2, <2>3, <2>4 DEF UserThread
<1>5. ASSUME NEW p \in Procs, IoThread(p)
      PROVE  Peers'
  <2>0. PeersOf(p)
    BY DEF Peers
  <2>1. CASE UpdateStage(p, "io")
    BY <2>1, <1>d
  <2>2. CASE TryProxyConnect(p)
    <3>1. PICK q \in Procs : q = proxying[p]
      BY <2>2, <1>a DEF TryProxyConnect
    <3>2. /\ proxying'[p] = Nobody /\ \A r \in Procs \ {p} : proxying'[r] = proxying[r]
          /\ IoUpdates(p) /\ UNCHANGED <<known, regReply, stage, user, attempts, timers>>
      BY <2>2, <1>a DEF TryProxyConnect
    <3>3. peer[p][q] = "WAITING_FOR_REPLY" /\ \A r \in Procs : SameUpdate(r)
      BY <2>0, <3>1, <3>2, IoUpdatesSame DEF PeersOf
    <3>4. q \notin attempts[p]
      BY <2>0, <3>3 DEF PeersOf
    <3>5. peer' = [peer EXCEPT ![p][q] = "WAITING_FOR_REPLY"] \/ peer' = [peer EXCEPT ![p][q] = "FAILURE"]
      <4>1. peer' = peer \/ peer' = [peer EXCEPT ![p][q] = "FAILURE"]
        BY <2>2, <3>1 DEF TryProxyConnect
      <4>2. peer = [peer EXCEPT ![p][q] = "WAITING_FOR_REPLY"]
        BY <3>3, <1>a
      <4>3. QED
        BY <4>1, <4>2
    <3>6. QED
      BY <3>2, <3>3, <3>4, <3>5, <1>b, <1>c, PeerChanged
  <2>3. CASE RemoteIsConnecting(p)
    <3>1. PICK q \in Procs : q = Head(fromReg[p]).target
      BY <2>3, Relayed DEF RemoteIsConnecting
    <3>2. UNCHANGED <<known, regReply, stage, user, attempts, timers, proxying>>
      BY <2>3 DEF RemoteIsConnecting
    <3>3. CASE peer[p][q] = "REMOTE_CONNECT_REQUESTED"
      <4>1. peer' = [peer EXCEPT ![p][q] = "REMOTE_IS_CONNECTING"] /\ IoUpdates(p)
        BY <2>3, <3>1, <3>3 DEF RemoteIsConnecting
      <4>2. q \notin attempts[p] /\ proxying[p] # q
        BY <2>0, <3>3 DEF PeersOf
      <4>3. \A r \in Procs : SameUpdate(r)
        BY <4>1, IoUpdatesSame
      <4>4. QED
        BY <3>2, <3>3, <4>1, <4>2, <4>3, <1>b, PeerChanged
    <3>4. CASE peer[p][q] # "REMOTE_CONNECT_REQUESTED"
      BY <2>3, <3>1, <3>2, <3>4, <1>1 DEF RemoteIsConnecting
    <3>5. QED
      BY <3>3, <3>4
  <2>4. CASE RemoteFailedToConnect(p)
    <3>1. PICK q \in Procs : q = Head(fromReg[p]).target
      BY <2>4, Relayed DEF RemoteFailedToConnect
    <3>2. UNCHANGED <<known, regReply, stage, user, attempts, timers, update>>
      BY <2>4 DEF RemoteFailedToConnect
    <3>3. CASE peer[p][q] \in AwaitingRemote
      <4>1. peer' = [peer EXCEPT ![p][q] = "WAITING_FOR_REPLY"] /\ proxying' = [proxying EXCEPT ![p] = q]
        BY <2>4, <3>1, <3>3 DEF RemoteFailedToConnect
      <4>2. proxying'[p] = q /\ \A r \in Procs \ {p} : proxying'[r] = proxying[r]
        BY <4>1, <1>a
      <4>3. q \notin attempts[p] /\ peer[p][q] # "INVALID"
        BY <2>0, <3>3 DEF PeersOf, AwaitingRemote
      <4>4. \A r \in Procs : SameUpdate(r)
        BY <3>2, IoUpdatesSame
      <4>5. QED
        BY <3>2, <4>1, <4>2, <4>3, <4>4, <1>b, PeerChanged
    <3>4. CASE peer[p][q] \notin AwaitingRemote
      BY <2>4, <3>1, <3>2, <3>4, <1>1 DEF RemoteFailedToConnect
    <3>5. QED
      BY <3>3, <3>4
  <2>5. ASSUME NEW q \in Procs, HandleReply(p, q),
               UNCHANGED <<known, regReply, stage, user, attempts, timers, proxying>>, proxying[p] = Nobody
        PROVE  Peers'
    <3>1. CASE peer[p][q] = "WAITING_FOR_REPLY"
      <4>1. peer' = [peer EXCEPT ![p][q] = "REPLY_RECEIVED"] /\ IoUpdates(p)
        BY <2>5, <3>1 DEF HandleReply
      <4>2. q \notin attempts[p] /\ proxying[p] # q
        BY <2>0, <2>5, <3>1, <1>c DEF PeersOf
      <4>3. \A r \in Procs : SameUpdate(r)
        BY <4>1, IoUpdatesSame
      <4>4. QED
        BY <2>5, <3>1, <4>1, <4>2, <4>3, <1>b, PeerChanged
    <3>2. CASE peer[p][q] # "WAITING_FOR_REPLY"
      BY <2>5, <3>2, <1>1 DEF HandleReply
    <3>3. QED
      BY <3>1, <3>2
  <2>6. CASE ReplyByProxy(p)
    <3>1. PICK q \in Procs : q = Head(fromReg[p]).origin
      BY <2>6, Relayed DEF ReplyByProxy
    <3>2. QED
      BY <2>5, <2>6, <3>1 DEF ReplyByProxy, FromRegistry, IoThreadIsFree
  <2>7. ASSUME NEW q \in Procs, NEW x \in Roles, ReplyOnWire(p, q, x)
        PROVE  Peers'
    BY <2>5, <2>7 DEF ReplyOnWire, IoThreadIsFree
  <2>8. CASE ReceiveKnownParticipants(p)
    <3>1. /\ 1 \in Answers(p) /\ fromReg[p][1].kind = "known" /\ Head(fromReg[p]) = fromReg[p][1]
      BY <2>8, FromRegistryMoves DEF ReceiveKnownParticipants, Answers
    <3>2. regReply[p] = "none" /\ p \notin fromReg[p][1].peers
      BY <3>1 DEF Registration
    <3>3. known'[p] = {fromReg[p][1].peers} /\ \A r \in Procs \ {p} : known'[r] = known[r]
      BY <2>8, <3>1, <1>a DEF ReceiveKnownParticipants
    <3>4. UNCHANGED <<regReply, stage, user, peer, attempts, timers, proxying, update>>
      BY <2>8 DEF ReceiveKnownParticipants
    <3>5. Cardinality({fromReg[p][1].peers}) <= 1 /\ p \notin UNION {fromReg[p][1].peers}
      <4>1. Cardinality({fromReg[p][1].peers}) = 1
        BY FS_Singleton
      <4>2. QED
        BY <3>2, <4>1
    <3>6. PeersOf(p)'
      BY <2>0, <3>2, <3>3, <3>4, <3>5 DEF PeersOf
    <3>7. \A r \in Procs \ {p} : SamePeers(r) /\ SameUpdate(r)
      BY <3>3, <3>4 DEF SamePeers, SameUpdate
    <3>8. QED
      BY <3>4, <3>6, <3>7, PeersKept DEF Peers
  <2>9. CASE ReceiveRegistryReply(p)
    <3>1. /\ 1 \in Answers(p) /\ fromReg[p][1].kind = "reply" /\ Head(fromReg[p]) = fromReg[p][1]
      BY <2>9, FromRegistryMoves DEF ReceiveRegistryReply, Answers
    <3>2. regReply[p] = "none"
      BY <3>1 DEF Registration
    <3>3. \A r \in Procs \ {p} : regReply'[r] = regReply[r]
      BY <2>9, <1>a DEF ReceiveRegistryReply
    <3>4. UNCHANGED <<known, stage, user, peer, attempts, timers, proxying, update>>
      BY <2>9 DEF ReceiveRegistryReply
    <3>5. PeersOf(p)'
      BY <2>0, <3>2, <3>4 DEF PeersOf
    <3>6. \A r \in Procs \ {p} : SamePeers(r) /\ SameUpdate(r)
      BY <3>3, <3>4 DEF SamePeers, SameUpdate
    <3>7. QED
      BY <3>4, <3>5, <3>6, PeersKept DEF Peers
  <2>10. CASE AnnouncementByProxy(p) \/ ReceiveRemoteParticipantConnectRequest(p)
    BY <2>10, <1>1 DEF AnnouncementByProxy, ReceiveRemoteParticipantConnectRequest
  <2>11. ASSUME NEW q \in Procs, OnConnectPeerSuccess(p, q)
         PROVE  Peers'
    <3>1. /\ peer' = [peer EXCEPT ![p][q] = "WAITING_FOR_REPLY"] /\ IoUpdates(p) /\ q \in attempts[p]
          /\ attempts'[p] = attempts[p] \ {q} /\ (\A r \in Procs \ {p} : attempts'[r] = attempts[r])
          /\ UNCHANGED <<known, regReply, stage, user, timers, proxying>> /\ proxying[p] = Nobody
      BY <2>11, <1>a DEF OnConnectPeerSuccess, IoThreadIsFree
    <3>2. peer[p][q] = "DIRECT"
      BY <2>0, <3>1 DEF PeersOf
    <3>3. \A r \in Procs : SameUpdate(r)
      BY <3>1, IoUpdatesSame
    <3>4. QED
      BY <3>1, <3>2, <3>3, <1>b, <1>c, PeerChanged
  <2>12. ASSUME NEW q \in Procs, OnConnectPeerFailure(p, q)
         PROVE  Peers'
    <3>1. /\ q \in attempts[p] /\ proxying[p] = Nobody
          /\ attempts'[p] = attempts[p] \ {q} /\ (\A r \in Procs \ {p} : attempts'[r] = attempts[r])
          /\ UNCHANGED <<known, regReply, stage, user>> /\ (IoUpdates(p) \/ UNCHANGED update)
      BY <2>12, <1>a DEF OnConnectPeerFailure, IoThreadIsFree
    <3>2. peer[p][q] = "DIRECT" /\ \A r \in Procs : SameUpdate(r)
      BY <2>0, <3>1, IoUpdatesSame DEF PeersOf
    <3>3. CASE "RequestParticipantConnection" \in caps[p] \cap caps[q]
      <4>1. peer' = [peer EXCEPT ![p][q] = "REMOTE_CONNECT_REQUESTED"]
        BY <2>12, <3>3 DEF OnConnectPeerFailure
      <4>2. proxying' = proxying /\ timers'[p] \subseteq timers[p] \cup {q} /\ \A r \in Procs \ {p} : timers'[r] = timers[r]
        BY <2>12, <3>3, <1>a DEF OnConnectPeerFailure
      <4>3. QED
        BY <3>1, <3>2, <4>1, <4>2, <1>b, <1>c, PeerChanged
    <3>4. CASE "RequestParticipantConnection" \notin caps[p] \cap caps[q]
      <4>1. peer' = [peer EXCEPT ![p][q] = "WAITING_FOR_REPLY"]
        BY <2>12, <3>4 DEF OnConnectPeerFailure
      <4>2. timers' = timers /\ proxying'[p] = q /\ \A r \in Procs \ {p} : proxying'[r] = proxying[r]
        BY <2>12, <3>4, <1>a DEF OnConnectPeerFailure
      <4>3. QED
        BY <3>1, <3>2, <4>1, <4>2, <1>b, <1>c, PeerChanged
    <3>5. QED
      BY <3>3, <3>4
  <2>13. ASSUME NEW q \in Procs, OnTimerExpired(p, q)
         PROVE  Peers'
    <3>1. /\ timers'[p] \subseteq timers[p] /\ (\A r \in Procs \ {p} : timers'[r] = timers[r])
          /\ UNCHANGED <<known, regReply, stage, user, attempts, update>>
      BY <2>13, <1>a DEF OnTimerExpired
    <3>2. \A r \in Procs : SameUpdate(r)
      BY <3>1, IoUpdatesSame
    <3>3. CASE peer[p][q] = "REMOTE_CONNECT_REQUESTED"
      <4>1. peer' = [peer EXCEPT ![p][q] = "WAITING_FOR_REPLY"] /\ proxying' = [proxying EXCEPT ![p] = q]
        BY <2>13, <3>3 DEF OnTimerExpired
      <4>2. proxying'[p] = q /\ \A r \in Procs \ {p} : proxying'[r] = proxying[r]
        BY <4>1, <1>a
      <4>3. q \notin attempts[p]
        BY <2>0, <3>3 DEF PeersOf
      <4>4. QED
        BY <3>1, <3>2, <3>3, <4>1, <4>2, <4>3, <1>b, PeerChanged
    <3>4. CASE peer[p][q] # "REMOTE_CONNECT_REQUESTED"
      <4>1. UNCHANGED <<peer, proxying>>
        BY <2>13, <3>4 DEF OnTimerExpired
      <4>2. PeersOf(p)'
        BY <2>0, <3>1, <4>1 DEF PeersOf
      <4>3. \A r \in Procs \ {p} : SamePeers(r) /\ stage'[r] = stage[r] /\ user'[r] = user[r]
        BY <3>1, <4>1 DEF SamePeers
      <4>4. QED
        BY <3>2, <4>2, <4>3, PeersKept DEF Peers
    <3>5. QED
      BY <3>3, <3>4
  <2>14. ASSUME NEW q \in Procs, RemoteParticipantAnnouncement(p, q)
         PROVE  Peers'
    <3>1. UNCHANGED <<known, regReply, stage, user, attempts, timers, proxying>> /\ proxying[p] = Nobody
      BY <2>14 DEF RemoteParticipantAnnouncement, IoThreadIsFree
    <3>2. CASE peer[p][q] \in AwaitingRemote
      <4>1. peer' = [peer EXCEPT ![p][q] = "WAITING_FOR_REPLY"] /\ IoUpdates(p)
        BY <2>14, <3>2 DEF RemoteParticipantAnnouncement
      <4>2. q \notin attempts[p] /\ peer[p][q] # "INVALID" /\ proxying[p] # q
        BY <2>0, <3>1, <3>2, <1>c DEF PeersOf, AwaitingRemote
      <4>3. \A r \in Procs : SameUpdate(r)
        BY <4>1, IoUpdatesSame
      <4>4. QED
        BY <3>1, <4>1, <4>2, <4>3, <1>b, PeerChanged
    <3>3. CASE peer[p][q] \notin AwaitingRemote
      BY <2>14, <3>1, <3>3, <1>1 DEF RemoteParticipantAnnouncement
    <3>4. QED
      BY <3>2, <3>3
  <2>15. ASSUME NEW q \in Procs, \/ OnRemoteConnectionSuccess(p, q) \/ OnRemoteConnectionFailure(p, q)
                                \/ \E x \in Roles : ReceiveParticipantAnnouncement(p, q, x)
         PROVE  Peers'
    BY <2>15, <1>1 DEF OnRemoteConnectionSuccess, OnRemoteConnectionFailure, ReceiveParticipantAnnouncement
  <2>16. QED
    BY <1>5, <2>1, <2>2, <2>3, <2>4, <2>6, <2>7, <2>8, <2>9, <2>10, <2>11, <2>12, <2>13, <2>14, <2>15
    DEF IoThread
<1>6. CASE UNCHANGED vars
  BY <1>6, <1>1 DEF vars
<1>7. QED
  BY <1>2, <1>3, <1>4, <1>5, <1>6 DEF Next, Registry

-----------------------------------------------------------------------------
(* The steps of a peer's stage. *)
StageSteps ==
  {<<"INVALID", "DIRECT">>,
   <<"DIRECT", "REMOTE_CONNECT_REQUESTED">>, <<"DIRECT", "WAITING_FOR_REPLY">>,
   <<"REMOTE_CONNECT_REQUESTED", "REMOTE_IS_CONNECTING">>,
   <<"REMOTE_CONNECT_REQUESTED", "WAITING_FOR_REPLY">>,
   <<"REMOTE_IS_CONNECTING", "WAITING_FOR_REPLY">>,
   <<"WAITING_FOR_REPLY", "REPLY_RECEIVED">>, <<"WAITING_FOR_REPLY", "FAILURE">>}

StageStep ==
  \A p, q \in Procs : peer'[p][q] = peer[p][q] \/ <<peer[p][q], peer'[p][q]>> \in StageSteps

LEMMA OneStageStep ==
  ASSUME Types, NEW p \in Procs, NEW q \in Procs, NEW v, peer' = [peer EXCEPT ![p][q] = v],
         <<peer[p][q], v>> \in StageSteps
  PROVE  StageStep
<1>1. peer \in [Procs -> [Procs -> PeerStages]]
  BY DEF Types
<1>2. /\ peer'[p][q] = v /\ \A r \in Procs \ {q} : peer'[p][r] = peer[p][r]
      /\ \A r \in Procs \ {p} : peer'[r] = peer[r]
  BY <1>1
<1>3. QED
  BY <1>2 DEF StageStep

LEMMA NextStage ==
  ASSUME Types, Peers, [Next]_vars
  PROVE  StageStep
<1> USE DEF joinVars, connectVars, registryVars, netVars
<1>a. ASSUME UNCHANGED peer PROVE StageStep
  BY <1>a DEF StageStep
<1>b. /\ <<"INVALID", "DIRECT">> \in StageSteps
      /\ <<"DIRECT", "REMOTE_CONNECT_REQUESTED">> \in StageSteps /\ <<"DIRECT", "WAITING_FOR_REPLY">> \in StageSteps
      /\ <<"REMOTE_CONNECT_REQUESTED", "REMOTE_IS_CONNECTING">> \in StageSteps
      /\ <<"REMOTE_CONNECT_REQUESTED", "WAITING_FOR_REPLY">> \in StageSteps
      /\ <<"REMOTE_IS_CONNECTING", "WAITING_FOR_REPLY">> \in StageSteps
      /\ <<"WAITING_FOR_REPLY", "REPLY_RECEIVED">> \in StageSteps /\ <<"WAITING_FOR_REPLY", "FAILURE">> \in StageSteps
  BY DEF StageSteps
<1>1. CASE UNCHANGED vars
  BY <1>1, <1>a DEF vars
<1>2. ASSUME NEW p \in Procs, \/ JoinSimulation(p) \/ Leave(p) \/ Relay(p) \/ OnPeerShutdown(p)
                             \/ OnParticipantAnnouncement(p)
      PROVE  StageStep
  BY <1>2, <1>a DEF JoinSimulation, Leave, Relay, OnPeerShutdown, OnParticipantAnnouncement
<1>3. ASSUME NEW p \in Procs, UserThread(p) \/ UpdateStage(p, "io")
      PROVE  StageStep
  <2>1. ASSUME NEW q \in Procs, StartPeer(p, q) PROVE StageStep
    <3>1. peer' = [peer EXCEPT ![p][q] = "DIRECT"] /\ peer[p][q] = "INVALID"
      BY <2>1 DEF StartPeer
    <3>2. QED
      BY <3>1, <1>b, OneStageStep
  <2>2. CASE ~ \E q \in Procs : StartPeer(p, q)
    <3>1. UNCHANGED peer
      BY <1>3, <2>2 DEF UserThread, WaitForRegistryHandshakeToComplete, StartConnectingDone,
                        ConnectToKnownParticipants, WaitForAllReplies, UpdateStage
    <3>2. QED
      BY <3>1, <1>a
  <2>3. QED
    BY <2>1, <2>2
<1>4. ASSUME NEW p \in Procs, IoThread(p)
      PROVE  StageStep
  <2>0. PeersOf(p)
    BY DEF Peers
  <2>1. CASE UpdateStage(p, "io")
    BY <2>1, <1>3
  <2>2. CASE TryProxyConnect(p)
    <3>1. PICK q \in Procs : q = proxying[p]
      BY <2>2 DEF TryProxyConnect, Types
    <3>2. peer[p][q] = "WAITING_FOR_REPLY"
      BY <2>0, <3>1 DEF PeersOf
    <3>3. peer' = peer \/ peer' = [peer EXCEPT ![p][q] = "FAILURE"]
      BY <2>2, <3>1 DEF TryProxyConnect
    <3>4. QED
      BY <3>2, <3>3, <1>a, <1>b, OneStageStep
  <2>3. CASE RemoteIsConnecting(p)
    <3>1. PICK q \in Procs : q = Head(fromReg[p]).target
      BY <2>3, Relayed DEF RemoteIsConnecting
    <3>2. \/ peer' = peer
          \/ peer[p][q] = "REMOTE_CONNECT_REQUESTED" /\ peer' = [peer EXCEPT ![p][q] = "REMOTE_IS_CONNECTING"]
      BY <2>3, <3>1 DEF RemoteIsConnecting
    <3>3. QED
      BY <3>2, <1>a, <1>b, OneStageStep
  <2>4. CASE RemoteFailedToConnect(p)
    <3>1. PICK q \in Procs : q = Head(fromReg[p]).target
      BY <2>4, Relayed DEF RemoteFailedToConnect
    <3>2. \/ peer' = peer
          \/ peer[p][q] \in AwaitingRemote /\ peer' = [peer EXCEPT ![p][q] = "WAITING_FOR_REPLY"]
      BY <2>4, <3>1 DEF RemoteFailedToConnect
    <3>3. QED
      BY <3>2, <1>a, <1>b, OneStageStep DEF AwaitingRemote
  <2>5. ASSUME NEW q \in Procs, HandleReply(p, q)
        PROVE  StageStep
    <3>1. \/ peer' = peer
          \/ peer[p][q] = "WAITING_FOR_REPLY" /\ peer' = [peer EXCEPT ![p][q] = "REPLY_RECEIVED"]
      BY <2>5 DEF HandleReply
    <3>2. QED
      BY <3>1, <1>a, <1>b, OneStageStep
  <2>6. CASE ReplyByProxy(p)
    BY <2>5, <2>6, Relayed DEF ReplyByProxy
  <2>7. ASSUME NEW q \in Procs, NEW x \in Roles, ReplyOnWire(p, q, x)
        PROVE  StageStep
    BY <2>5, <2>7 DEF ReplyOnWire
  <2>8. CASE \/ ReceiveKnownParticipants(p) \/ ReceiveRegistryReply(p) \/ AnnouncementByProxy(p)
             \/ ReceiveRemoteParticipantConnectRequest(p)
    BY <2>8, <1>a DEF ReceiveKnownParticipants, ReceiveRegistryReply, AnnouncementByProxy,
                      ReceiveRemoteParticipantConnectRequest
  <2>9. ASSUME NEW q \in Procs, OnConnectPeerSuccess(p, q) \/ OnConnectPeerFailure(p, q)
        PROVE  StageStep
    <3>1. /\ q \in attempts[p]
          /\ \/ peer' = [peer EXCEPT ![p][q] = "WAITING_FOR_REPLY"]
             \/ peer' = [peer EXCEPT ![p][q] = "REMOTE_CONNECT_REQUESTED"]
      BY <2>9 DEF OnConnectPeerSuccess, OnConnectPeerFailure
    <3>2. peer[p][q] = "DIRECT"
      BY <2>0, <3>1 DEF PeersOf
    <3>3. QED
      BY <3>1, <3>2, <1>b, OneStageStep
  <2>10. ASSUME NEW q \in Procs, OnTimerExpired(p, q) \/ RemoteParticipantAnnouncement(p, q)
         PROVE  StageStep
    <3>1. \/ peer' = peer
          \/ peer[p][q] \in AwaitingRemote /\ peer' = [peer EXCEPT ![p][q] = "WAITING_FOR_REPLY"]
      BY <2>10 DEF OnTimerExpired, RemoteParticipantAnnouncement, AwaitingRemote
    <3>2. QED
      BY <3>1, <1>a, <1>b, OneStageStep DEF AwaitingRemote
  <2>11. ASSUME NEW q \in Procs, \/ OnRemoteConnectionSuccess(p, q) \/ OnRemoteConnectionFailure(p, q)
                                \/ \E x \in Roles : ReceiveParticipantAnnouncement(p, q, x)
         PROVE  StageStep
    BY <2>11, <1>a DEF OnRemoteConnectionSuccess, OnRemoteConnectionFailure, ReceiveParticipantAnnouncement
  <2>12. QED
    BY <1>4, <2>1, <2>2, <2>3, <2>4, <2>6, <2>7, <2>8, <2>9, <2>10, <2>11 DEF IoThread
<1>5. QED
  BY <1>1, <1>2, <1>3, <1>4 DEF Next, Registry

(* A reply is never taken back. *)
LEMMA ReplyStays ==
  ASSUME StageStep, NEW p \in Procs, NEW q \in Procs, peer[p][q] = "REPLY_RECEIVED"
  PROVE  peer'[p][q] = "REPLY_RECEIVED"
BY DEF StageStep, StageSteps

(* A peer's stage only advances or fails. *)
LEMMA StageAdvances ==
  ASSUME Types, StageStep, NEW p \in Procs, NEW q \in Procs
  PROVE  \/ AtLeast(peer'[p][q], peer[p][q])
         \/ peer'[p][q] = "FAILURE" /\ peer[p][q] = "WAITING_FOR_REPLY"
<1>1. peer[p][q] \in PeerStages
  BY DEF Types
<1>2. \A v \in PeerStages : PeerStage[v] \in Int
  BY DEF PeerStage, PeerStages
<1>3. CASE peer'[p][q] = peer[p][q]
  BY <1>1, <1>2, <1>3 DEF AtLeast
<1>4. CASE <<peer[p][q], peer'[p][q]>> \in StageSteps
  BY <1>4 DEF StageSteps, AtLeast, PeerStage
<1>5. QED
  BY <1>3, <1>4 DEF StageStep

-----------------------------------------------------------------------------
(* The replies. *)
LEMMA MovesElements ==
  ASSUME NEW old, NEW new, NEW M, Moves(old, new, M), NEW k \in 1..Len(new)
  PROVE  new[k] \in M \/ \E j \in 1..Len(old) : new[k] = old[j]
BY DEF Moves

(* What p has heard stays heard, and only handlers of p add to it. *)
HeardGrows == \A p \in Procs : heard[p] \subseteq heard'[p]

(* Replies in the queues of the registry are old ones or allowed. *)
RepliesTold ==
  \A q \in Procs : \A k \in 1..Len(toReg'[q]) : toReg'[q][k].kind = "proxy-reply" =>
    \/ \E j \in 1..Len(toReg[q]) : toReg'[q][k] = toReg[q][j]
    \/ toReg'[q][k].origin = q /\ toReg'[q][k].target \in heard'[q]

RepliesRelayed ==
  \A p \in Procs : \A k \in 1..Len(fromReg'[p]) : fromReg'[p][k].kind = "proxy-reply" =>
    \/ \E j \in 1..Len(fromReg[p]) : fromReg'[p][k] = fromReg[p][j]
    \/ fromReg'[p][k].target = p /\ p \in heard[fromReg'[p][k].origin]

LEMMA ToldMoves ==
  ASSUME NEW p \in Procs, NEW M, Moves(toReg[p], toReg'[p], M),
         \A m \in M : m.kind = "proxy-reply" => m.origin = p /\ m.target \in heard'[p],
         \A q \in Procs \ {p} : toReg'[q] = toReg[q]
  PROVE  RepliesTold
<1> SUFFICES ASSUME NEW q \in Procs, NEW k \in 1..Len(toReg'[q]), toReg'[q][k].kind = "proxy-reply"
             PROVE  \/ \E j \in 1..Len(toReg[q]) : toReg'[q][k] = toReg[q][j]
                    \/ toReg'[q][k].origin = q /\ toReg'[q][k].target \in heard'[q]
  BY DEF RepliesTold
<1>1. CASE q = p
  BY <1>1, MovesElements
<1>2. CASE q # p
  BY <1>2
<1>3. QED
  BY <1>1, <1>2

LEMMA RelayedMoves ==
  ASSUME NEW p \in Procs, NEW M, Moves(fromReg[p], fromReg'[p], M),
         \A m \in M : m.kind = "proxy-reply" => m.target = p /\ p \in heard[m.origin],
         \A q \in Procs \ {p} : fromReg'[q] = fromReg[q]
  PROVE  RepliesRelayed
<1> SUFFICES ASSUME NEW q \in Procs, NEW k \in 1..Len(fromReg'[q]), fromReg'[q][k].kind = "proxy-reply"
             PROVE  \/ \E j \in 1..Len(fromReg[q]) : fromReg'[q][k] = fromReg[q][j]
                    \/ fromReg'[q][k].target = q /\ q \in heard[fromReg'[q][k].origin]
  BY DEF RepliesRelayed
<1>1. CASE q = p
  BY <1>1, MovesElements
<1>2. CASE q # p
  BY <1>2
<1>3. QED
  BY <1>1, <1>2

LEMMA UnchangedReplies ==
  /\ UNCHANGED toReg => RepliesTold
  /\ UNCHANGED fromReg => RepliesRelayed
BY DEF RepliesTold, RepliesRelayed

LEMMA TellReplies ==
  ASSUME Types, NEW p \in Procs, NEW m \in MessagesToRegistry, Tell(p, m),
         m.kind = "proxy-reply" => m.origin = p /\ m.target \in heard'[p]
  PROVE  RepliesTold
<1>1. Moves(toReg[p], toReg'[p], {m}) /\ \A q \in Procs \ {p} : toReg'[q] = toReg[q]
  BY TellMoves
<1>2. QED
  BY <1>1, ToldMoves

LEMMA ReadReplies ==
  ASSUME Types, NEW p \in Procs, NEW kinds, RegistryReads(p, kinds)
  PROVE  RepliesTold
<1>1. Moves(toReg[p], toReg'[p], {}) /\ \A q \in Procs \ {p} : toReg'[q] = toReg[q]
  BY ReadMoves
<1>2. QED
  BY <1>1, ToldMoves

LEMMA FromRegistryReplies ==
  ASSUME Types, NEW p \in Procs, NEW kind, FromRegistry(p, kind)
  PROVE  RepliesRelayed
<1>1. Moves(fromReg[p], fromReg'[p], {}) /\ \A q \in Procs \ {p} : fromReg'[q] = fromReg[q]
  BY FromRegistryMoves
<1>2. QED
  BY <1>1, RelayedMoves

(* The hypothesis of what follows: no name is used twice. *)
NamesDiffer == \A p, q \in Procs : NameOf[p] = NameOf[q] => p = q

LEMMA ProxyKept ==
  ASSUME Types, Types', ProxyReplies, HeardGrows, RepliesTold, RepliesRelayed
  PROVE  ProxyReplies'
<1>1. ASSUME NEW q \in Procs, NEW k \in 1..Len(toReg'[q]), toReg'[q][k].kind = "proxy-reply"
      PROVE  toReg'[q][k].origin = q /\ toReg'[q][k].target \in heard'[q]
  <2>1. CASE \E j \in 1..Len(toReg[q]) : toReg'[q][k] = toReg[q][j]
    BY <1>1, <2>1 DEF ProxyReplies, HeardGrows
  <2>2. QED
    BY <1>1, <2>1 DEF RepliesTold
<1>2. ASSUME NEW p \in Procs, NEW k \in 1..Len(fromReg'[p]), fromReg'[p][k].kind = "proxy-reply"
      PROVE  fromReg'[p][k].target = p /\ p \in heard'[fromReg'[p][k].origin]
  <2>1. fromReg'[p] \in Seq(MessagesOfRegistry)
    BY DEF Types
  <2>2. fromReg'[p][k] \in MessagesOfRegistry
    BY <2>1
  <2>3. fromReg'[p][k].origin \in Procs
    BY <1>2, <2>2, MessageFields
  <2>4. fromReg'[p][k].target = p /\ p \in heard[fromReg'[p][k].origin]
    <3>1. CASE \E j \in 1..Len(fromReg[p]) : fromReg'[p][k] = fromReg[p][j]
      BY <1>2, <3>1 DEF ProxyReplies
    <3>2. QED
      BY <1>2, <3>1 DEF RepliesRelayed
  <2>5. QED
    BY <2>3, <2>4 DEF HeardGrows
<1>3. QED
  BY <1>1, <1>2 DEF ProxyReplies

LEMMA NextHeard ==
  ASSUME Types, [Next]_vars
  PROVE  HeardGrows
<1> USE DEF joinVars, connectVars, registryVars, netVars
<1>a. heard \in [Procs -> SUBSET Procs]
  BY DEF Types
<1>b. ASSUME UNCHANGED heard PROVE HeardGrows
  BY <1>b DEF HeardGrows
<1>c. ASSUME NEW p \in Procs, NEW q, heard' = [heard EXCEPT ![p] = @ \cup {q}] PROVE HeardGrows
  BY <1>a, <1>c DEF HeardGrows
<1>1. CASE UNCHANGED vars
  BY <1>1, <1>b DEF vars
<1>2. ASSUME NEW p \in Procs, \/ JoinSimulation(p) \/ Leave(p) \/ Relay(p) \/ OnPeerShutdown(p)
                             \/ OnParticipantAnnouncement(p)
      PROVE  HeardGrows
  BY <1>2, <1>b DEF JoinSimulation, Leave, Relay, OnPeerShutdown, OnParticipantAnnouncement
<1>3. ASSUME NEW p \in Procs, UserThread(p) PROVE HeardGrows
  BY <1>3, <1>b, UserFrame
<1>4. ASSUME NEW p \in Procs, IoThread(p) PROVE HeardGrows
  <2>1. CASE \/ UpdateStage(p, "io") \/ TryProxyConnect(p)
             \/ RemoteIsConnecting(p) \/ RemoteFailedToConnect(p)
             \/ ReceiveKnownParticipants(p) \/ ReceiveRegistryReply(p)
             \/ ReceiveRemoteParticipantConnectRequest(p)
    <3>1. UNCHANGED heard
      BY <2>1 DEF UpdateStage, TryProxyConnect, RemoteIsConnecting, RemoteFailedToConnect,
                  ReceiveKnownParticipants, ReceiveRegistryReply, ReceiveRemoteParticipantConnectRequest
    <3>2. QED
      BY <3>1, <1>b
  <2>2. CASE ReplyByProxy(p)
    BY <2>2, <1>c DEF ReplyByProxy, HandleReply
  <2>3. CASE AnnouncementByProxy(p)
    BY <2>3, <1>c DEF AnnouncementByProxy
  <2>4. ASSUME NEW q \in Procs, \/ OnConnectPeerSuccess(p, q) \/ OnConnectPeerFailure(p, q) \/ OnTimerExpired(p, q)
                               \/ RemoteParticipantAnnouncement(p, q)
                               \/ OnRemoteConnectionSuccess(p, q) \/ OnRemoteConnectionFailure(p, q)
        PROVE  HeardGrows
    <3>1. UNCHANGED heard
      BY <2>4 DEF OnConnectPeerSuccess, OnConnectPeerFailure, OnTimerExpired, RemoteParticipantAnnouncement,
                  OnRemoteConnectionSuccess, OnRemoteConnectionFailure
    <3>2. QED
      BY <3>1, <1>b
  <2>5. ASSUME NEW q \in Procs, NEW x \in Roles, ReplyOnWire(p, q, x) \/ ReceiveParticipantAnnouncement(p, q, x)
        PROVE  HeardGrows
    BY <2>5, <1>c DEF ReplyOnWire, HandleReply, ReceiveParticipantAnnouncement
  <2>6. QED
    BY <1>4, <2>1, <2>2, <2>3, <2>4, <2>5 DEF IoThread
<1>5. QED
  BY <1>1, <1>2, <1>3, <1>4 DEF Next, Registry

(* The registry relays a reply to the one it was sent to: the names differ.*)
LEMMA NextProxy ==
  ASSUME NamesDiffer, Types, NamesFit, ProxyReplies, [Next]_vars
  PROVE  RepliesTold /\ RepliesRelayed
<1> USE DEF joinVars, connectVars, registryVars, netVars
<1>1. CASE UNCHANGED vars
  BY <1>1, UnchangedReplies DEF vars
<1>2. ASSUME NEW p \in Procs, JoinSimulation(p) PROVE RepliesTold /\ RepliesRelayed
  <2>1. Msg("announce", p, p) \in MessagesToRegistry /\ Msg("announce", p, p).kind # "proxy-reply"
    BY MessageFields DEF Msg
  <2>2. QED
    BY <1>2, <2>1, TellReplies, UnchangedReplies DEF JoinSimulation
<1>3. ASSUME NEW p \in Procs, Leave(p) PROVE RepliesTold /\ RepliesRelayed
  <2>1. fromReg'[p] = <<>> /\ \A q \in Procs \ {p} : fromReg'[q] = fromReg[q]
    BY <1>3 DEF Leave, Types
  <2>2. Moves(fromReg[p], fromReg'[p], {})
    BY <2>1, MovesEmpty
  <2>3. UNCHANGED toReg
    BY <1>3 DEF Leave
  <2>4. QED
    BY <2>1, <2>2, <2>3, RelayedMoves, UnchangedReplies
<1>4. ASSUME NEW p \in Procs, UserThread(p) \/ UpdateStage(p, "io") \/ OnPeerShutdown(p)
      PROVE  RepliesTold /\ RepliesRelayed
  <2>1. UNCHANGED <<toReg, fromReg>>
    BY <1>4, UserFrame DEF UpdateStage, OnPeerShutdown
  <2>2. QED
    BY <2>1, UnchangedReplies
<1>5. ASSUME NEW p \in Procs, Relay(p) PROVE RepliesTold /\ RepliesRelayed
  <2>1. RepliesTold
    BY <1>5, ReadReplies DEF Relay
  <2>2. PICK m \in MessagesToRegistry : m = Head(toReg[p]) /\ m \in MessagesOfRegistry /\ m.kind # "announce"
    <3>1. Head(toReg[p]) \in MessagesToRegistry /\ Head(toReg[p]).kind # "announce"
      BY <1>5, ReadMoves DEF Relay, RegistryReads
    <3>2. QED
      BY <3>1, MessageFields
  <2>3. PICK to \in Procs \cup {Nobody} :
          to = byName[NameOf[IF m.kind \in {"connecting", "failed"} THEN m.origin ELSE m.target]]
    BY <2>2, MessageFields, ProcsAssumption DEF Types
  <2>4. IF to = Nobody THEN UNCHANGED fromReg ELSE RegistrySends(to, <<m>>)
    BY <1>5, <2>2, <2>3 DEF Relay
  <2>5. CASE to # Nobody
    <3>1. ASSUME m.kind = "proxy-reply" PROVE m.target = to /\ to \in heard[m.origin]
      <4>1. Len(toReg[p]) > 0 /\ toReg[p] \in Seq(MessagesToRegistry) /\ m = toReg[p][1]
        BY <1>5, <2>2, ReadMoves DEF Relay
      <4>2. m.origin = p /\ m.target \in heard[p]
        BY <3>1, <4>1 DEF ProxyReplies
      <4>3. m.target \in Procs /\ NameOf[m.target] \in Names /\ to = byName[NameOf[m.target]]
        BY <2>2, <2>3, <3>1, MessageFields, ProcsAssumption
      <4>4. NameOf[to] = NameOf[m.target]
        BY <2>5, <4>3 DEF NamesFit
      <4>5. QED
        BY <2>3, <2>5, <4>2, <4>3, <4>4 DEF NamesDiffer
    <3>2. Moves(fromReg[to], fromReg'[to], {m}) /\ \A q \in Procs \ {to} : fromReg'[q] = fromReg[q]
      BY <2>2, <2>3, <2>4, <2>5, SendMoves
    <3>3. to \in Procs
      BY <2>3, <2>5
    <3>4. QED
      BY <2>1, <3>1, <3>2, <3>3, RelayedMoves
  <2>6. QED
    BY <2>1, <2>4, <2>5, UnchangedReplies
<1>6. ASSUME NEW p \in Procs, OnParticipantAnnouncement(p) PROVE RepliesTold /\ RepliesRelayed
  <2>1. RepliesTold
    BY <1>6, ReadReplies DEF OnParticipantAnnouncement
  <2>2. RepliesRelayed
    <3>1. CASE p \notin alive
      BY <1>6, <3>1, UnchangedReplies DEF OnParticipantAnnouncement, RegistrySends
    <3>2. CASE p \in alive /\ connected[NameOf[p]] # Nobody
      <4>1. PICK m \in MessagesOfRegistry : m = [kind |-> "reply", status |-> "error"] /\ m.kind = "reply"
        BY MessageFields
      <4>2. RegistrySends(p, <<m>>)
        BY <1>6, <3>2, <4>1 DEF OnParticipantAnnouncement
      <4>3. Moves(fromReg[p], fromReg'[p], {m}) /\ \A q \in Procs \ {p} : fromReg'[q] = fromReg[q]
        BY <4>2, SendMoves
      <4>4. QED
        BY <4>1, <4>3, RelayedMoves
    <3>3. CASE p \in alive /\ connected[NameOf[p]] = Nobody
      <4> DEFINE others == {connected[k] : k \in Names} \ {Nobody, p}
      <4>1. RegistrySends(p, <<[kind |-> "known", peers |-> others], [kind |-> "reply", status |-> "value"]>>)
        BY <1>6, <3>3 DEF OnParticipantAnnouncement
      <4>2. others \subseteq Procs
        BY DEF Types
      <4> HIDE DEF others
      <4>3. PICK a \in MessagesOfRegistry : a = [kind |-> "known", peers |-> others] /\ a.kind = "known"
        <5>1. [kind |-> "known", peers |-> others] \in MessagesOfRegistry
          BY <4>2, MessageFields
        <5>2. QED
          BY <5>1
      <4>4. PICK b \in MessagesOfRegistry : b = [kind |-> "reply", status |-> "value"] /\ b.kind = "reply"
        BY MessageFields
      <4>5. /\ \A q \in Procs \ {p} : fromReg'[q] = fromReg[q]
            /\ Len(fromReg'[p]) = Len(fromReg[p]) + 2 /\ Len(fromReg[p]) \in Nat
            /\ \A i \in 1..Len(fromReg[p]) : fromReg'[p][i] = fromReg[p][i]
            /\ fromReg'[p][Len(fromReg[p]) + 1] = a /\ fromReg'[p][Len(fromReg[p]) + 2] = b
        BY <3>3, <4>1, <4>3, <4>4, SendAnswer
      <4>6. \A i \in 1..Len(fromReg'[p]) : fromReg'[p][i].kind = "proxy-reply" =>
              i \in 1..Len(fromReg[p]) /\ fromReg'[p][i] = fromReg[p][i]
        BY <4>3, <4>4, <4>5
      <4>7. QED
        BY <4>5, <4>6 DEF RepliesRelayed
    <3>4. QED
      BY <3>1, <3>2, <3>3
  <2>3. QED
    BY <2>1, <2>2
<1>7. ASSUME NEW p \in Procs, IoThread(p) PROVE RepliesTold /\ RepliesRelayed
  <2>1. CASE TryProxyConnect(p)
    <3>1. PICK q \in Procs : q = proxying[p]
      BY <2>1 DEF TryProxyConnect, Types
    <3>2. UNCHANGED fromReg /\ (UNCHANGED toReg \/ Tell(p, Msg("proxy-announcement", p, q)))
      BY <2>1, <3>1 DEF TryProxyConnect
    <3>3. /\ Msg("proxy-announcement", p, q) \in MessagesToRegistry
          /\ Msg("proxy-announcement", p, q).kind # "proxy-reply"
      BY MessageFields DEF Msg
    <3>4. QED
      BY <3>2, <3>3, TellReplies, UnchangedReplies
  <2>2. CASE \/ RemoteIsConnecting(p) \/ RemoteFailedToConnect(p) \/ ReplyByProxy(p)
             \/ ReceiveKnownParticipants(p) \/ ReceiveRegistryReply(p)
    <3>1. UNCHANGED toReg /\ \E kind \in {"connecting", "failed", "proxy-reply", "known", "reply"} : FromRegistry(p, kind)
      BY <2>2 DEF RemoteIsConnecting, RemoteFailedToConnect, ReplyByProxy, ReceiveKnownParticipants,
                  ReceiveRegistryReply
    <3>2. QED
      BY <3>1, FromRegistryReplies, UnchangedReplies
  <2>3. CASE AnnouncementByProxy(p)
    <3>1. FromRegistry(p, "proxy-announcement") /\ Head(fromReg[p]).origin \in Procs
      BY <2>3, Relayed DEF AnnouncementByProxy
    <3>2. PICK q \in Procs : q = Head(fromReg[p]).origin
      BY <3>1
    <3>3. Tell(p, Msg("proxy-reply", p, q)) /\ q \in heard'[p]
      BY <2>3, <3>2 DEF AnnouncementByProxy, Types
    <3>4. /\ Msg("proxy-reply", p, q) \in MessagesToRegistry
          /\ Msg("proxy-reply", p, q).origin = p /\ Msg("proxy-reply", p, q).target = q
      BY MessageFields DEF Msg
    <3>5. QED
      BY <3>1, <3>3, <3>4, TellReplies, FromRegistryReplies
  <2>4. CASE ReceiveRemoteParticipantConnectRequest(p)
    <3>1. FromRegistry(p, "request") /\ Head(fromReg[p]).origin \in Procs
      BY <2>4, Relayed DEF ReceiveRemoteParticipantConnectRequest
    <3>2. PICK q \in Procs : q = Head(fromReg[p]).origin
      BY <3>1
    <3>3. Tell(p, Msg("connecting", q, p))
      BY <2>4, <3>2 DEF ReceiveRemoteParticipantConnectRequest
    <3>4. Msg("connecting", q, p) \in MessagesToRegistry /\ Msg("connecting", q, p).kind # "proxy-reply"
      BY MessageFields DEF Msg
    <3>5. QED
      BY <3>1, <3>3, <3>4, TellReplies, FromRegistryReplies
  <2>5. ASSUME NEW q \in Procs,
               \/ OnConnectPeerSuccess(p, q) \/ OnTimerExpired(p, q)
               \/ RemoteParticipantAnnouncement(p, q) \/ OnRemoteConnectionSuccess(p, q)
               \/ \E x \in Roles : ReplyOnWire(p, q, x) \/ ReceiveParticipantAnnouncement(p, q, x)
        PROVE  RepliesTold /\ RepliesRelayed
    <3>1. UNCHANGED <<toReg, fromReg>>
      BY <2>5 DEF OnConnectPeerSuccess, OnTimerExpired, RemoteParticipantAnnouncement,
                  OnRemoteConnectionSuccess, ReplyOnWire, ReceiveParticipantAnnouncement
    <3>2. QED
      BY <3>1, UnchangedReplies
  <2>6. ASSUME NEW q \in Procs, OnConnectPeerFailure(p, q) \/ OnRemoteConnectionFailure(p, q)
        PROVE  RepliesTold /\ RepliesRelayed
    <3>1. UNCHANGED fromReg /\ (UNCHANGED toReg \/ Tell(p, Msg("request", p, q)) \/ Tell(p, Msg("failed", q, p)))
      BY <2>6 DEF OnConnectPeerFailure, OnRemoteConnectionFailure
    <3>2. /\ Msg("request", p, q) \in MessagesToRegistry /\ Msg("request", p, q).kind # "proxy-reply"
          /\ Msg("failed", q, p) \in MessagesToRegistry /\ Msg("failed", q, p).kind # "proxy-reply"
      BY MessageFields DEF Msg
    <3>3. QED
      BY <3>1, <3>2, TellReplies, UnchangedReplies
  <2>7. QED
    BY <1>7, <1>4, <2>1, <2>2, <2>3, <2>4, <2>5, <2>6 DEF IoThread
<1>8. QED
  BY <1>1, <1>2, <1>3, <1>4, <1>5, <1>6, <1>7 DEF Next, Registry

(* Replies on the connections between processes are old ones or allowed. *)
RepliesSent ==
  \A i, a \in Procs : \A x \in Roles : \A k \in 1..Len(wire'[i][a][x]) : wire'[i][a][x][k] = "reply" =>
    \/ \E j \in 1..Len(wire[i][a][x]) : wire[i][a][x][j] = "reply"
    \/ x = "opener" /\ i \in heard'[a]
    \/ x = "acceptor" /\ a \in heard'[i]

LEMMA WireMoves ==
  ASSUME Types, NEW i \in Procs, NEW a \in Procs, NEW x \in Roles, NEW f, NEW M,
         wire' = [wire EXCEPT ![i][a][x] = f], Moves(wire[i][a][x], f, M), "reply" \notin M
  PROVE  RepliesSent
<1>0. wire \in [Procs -> [Procs -> [Roles -> Seq(Handshake)]]]
  BY DEF Types
<1>1. wire'[i][a][x] = f
  BY <1>0
<1>2. \A j, b \in Procs : \A y \in Roles : j # i \/ b # a \/ y # x => wire'[j][b][y] = wire[j][b][y]
  BY <1>0, SMTT(30)
<1>3. \A k \in 1..Len(f) : f[k] = "reply" => \E j \in 1..Len(wire[i][a][x]) : wire[i][a][x][j] = "reply"
  BY MovesElements
<1>4. QED
  BY <1>1, <1>2, <1>3 DEF RepliesSent

LEMMA NextWire ==
  ASSUME Types, [Next]_vars
  PROVE  RepliesSent
<1> USE DEF joinVars, connectVars, registryVars, netVars
<1>0. wire \in [Procs -> [Procs -> [Roles -> Seq(Handshake)]]] /\ heard \in [Procs -> SUBSET Procs]
  BY DEF Types
<1>a. ASSUME UNCHANGED wire PROVE RepliesSent
  BY <1>a DEF RepliesSent
<1>1. CASE UNCHANGED vars
  BY <1>1, <1>a DEF vars
<1>2. ASSUME NEW p \in Procs, \/ JoinSimulation(p) \/ Leave(p) \/ Relay(p) \/ OnPeerShutdown(p)
                             \/ OnParticipantAnnouncement(p)
      PROVE  RepliesSent
  BY <1>2, <1>a DEF JoinSimulation, Leave, Relay, OnPeerShutdown, OnParticipantAnnouncement
<1>3. ASSUME NEW p \in Procs, UserThread(p) PROVE RepliesSent
  BY <1>3, <1>a, UserFrame
<1>4. ASSUME NEW p \in Procs, IoThread(p) PROVE RepliesSent
  <2>1. CASE \/ UpdateStage(p, "io") \/ TryProxyConnect(p)
             \/ RemoteIsConnecting(p) \/ RemoteFailedToConnect(p) \/ ReplyByProxy(p)
             \/ ReceiveKnownParticipants(p) \/ ReceiveRegistryReply(p) \/ AnnouncementByProxy(p)
             \/ ReceiveRemoteParticipantConnectRequest(p)
    <3>1. UNCHANGED wire
      BY <2>1 DEF UpdateStage, TryProxyConnect, RemoteIsConnecting, RemoteFailedToConnect, ReplyByProxy,
                  ReceiveKnownParticipants, ReceiveRegistryReply, AnnouncementByProxy,
                  ReceiveRemoteParticipantConnectRequest
    <3>2. QED
      BY <3>1, <1>a
  <2>2. ASSUME NEW q \in Procs, OnConnectPeerFailure(p, q) \/ OnTimerExpired(p, q) \/ OnRemoteConnectionFailure(p, q)
        PROVE  RepliesSent
    <3>1. UNCHANGED wire
      BY <2>2 DEF OnConnectPeerFailure, OnTimerExpired, OnRemoteConnectionFailure
    <3>2. QED
      BY <3>1, <1>a
  <2>3. ASSUME NEW q \in Procs, OnConnectPeerSuccess(p, q) \/ OnRemoteConnectionSuccess(p, q)
        PROVE  RepliesSent
    <3>1. PICK e \in {"announcement", "remote"} :
            wire' = [wire EXCEPT ![p][q]["acceptor"] = Append(wire[p][q]["acceptor"], e)]
      BY <2>3 DEF OnConnectPeerSuccess, OnRemoteConnectionSuccess
    <3>2. "acceptor" \in Roles /\ e \in Handshake /\ wire[p][q]["acceptor"] \in Seq(Handshake)
      BY <1>0 DEF Roles, Handshake
    <3>3. Moves(wire[p][q]["acceptor"], Append(wire[p][q]["acceptor"], e), {e})
      BY <3>2, MovesAppend
    <3>4. QED
      BY <3>1, <3>2, <3>3, WireMoves
  <2>4. ASSUME NEW q \in Procs, RemoteParticipantAnnouncement(p, q)
        PROVE  RepliesSent
    <3>1. "acceptor" \in Roles /\ "opener" \in Roles /\ wire[q][p].acceptor \in Seq(Handshake)
          /\ wire[q][p].opener \in Seq(Handshake) /\ "announcement" \in Handshake
      BY <1>0 DEF Roles, Handshake
    <3>2. PICK f \in Seq(Handshake) : f = Tail(wire[q][p].acceptor) /\ Moves(wire[q][p].acceptor, f, {})
      BY <2>4, <3>1, MovesTail DEF RemoteParticipantAnnouncement
    <3>3. PICK g \in Seq(Handshake) :
            g = Append(wire[q][p].opener, "announcement") /\ Moves(wire[q][p].opener, g, {"announcement"})
      BY <3>1, MovesAppend
    <3>4. wire' = [wire EXCEPT ![q][p] = [acceptor |-> f, opener |-> g]]
      BY <2>4, <3>2, <3>3 DEF RemoteParticipantAnnouncement
    <3>5. /\ wire'[q][p]["acceptor"] = f /\ wire'[q][p]["opener"] = g
          /\ \A j, b \in Procs : j # q \/ b # p => wire'[j][b] = wire[j][b]
      BY <3>4, <1>0
    <3>6. \A k \in 1..Len(f) : f[k] = "reply" => \E j \in 1..Len(wire[q][p]["acceptor"]) : wire[q][p]["acceptor"][j] = "reply"
      BY <3>2, MovesElements
    <3>7. \A k \in 1..Len(g) : g[k] = "reply" => \E j \in 1..Len(wire[q][p]["opener"]) : wire[q][p]["opener"][j] = "reply"
      BY <3>3, MovesElements
    <3>8. \A x \in Roles : x = "acceptor" \/ x = "opener"
      BY DEF Roles
    <3>9. QED
      BY <3>5, <3>6, <3>7, <3>8, SMTT(30) DEF RepliesSent
  <2>5. ASSUME NEW q \in Procs, NEW x \in Roles, ReplyOnWire(p, q, x)
        PROVE  RepliesSent
    <3>1. PICK i \in Procs, a \in Procs : i = Opener(p, q, x) /\ a = Acceptor(p, q, x)
      BY DEF Opener, Acceptor
    <3>2. wire' = [wire EXCEPT ![i][a][x] = Tail(wire[i][a][x])] /\ wire[i][a][x] # <<>>
      BY <2>5, <3>1 DEF ReplyOnWire
    <3>3. Moves(wire[i][a][x], Tail(wire[i][a][x]), {})
      BY <3>2, <1>0, MovesTail
    <3>4. QED
      BY <3>2, <3>3, WireMoves
  <2>6. ASSUME NEW q \in Procs, NEW x \in Roles, ReceiveParticipantAnnouncement(p, q, x)
        PROVE  RepliesSent
    <3>1. PICK i \in Procs, a \in Procs : i = Opener(p, q, x) /\ a = Acceptor(p, q, x)
      BY DEF Opener, Acceptor
    <3>2. PICK y \in Roles : y = (IF x = "opener" THEN "acceptor" ELSE "opener")
      BY DEF Roles
    <3>3. /\ wire' = [wire EXCEPT ![i][a][x] = Tail(@), ![i][a][y] = Append(@, "reply")]
          /\ wire[i][a][x] # <<>> /\ x # y
      BY <2>6, <3>1, <3>2 DEF ReceiveParticipantAnnouncement, Roles
    <3>4. /\ wire'[i][a][x] = Tail(wire[i][a][x])
          /\ \A j, b \in Procs : \A z \in Roles : j # i \/ b # a => wire'[j][b][z] = wire[j][b][z]
      BY <3>3, <1>0
    <3>5. (y = "opener" /\ i \in heard'[a]) \/ (y = "acceptor" /\ a \in heard'[i])
      <4>1. q \in heard'[p]
        BY <2>6, <1>0 DEF ReceiveParticipantAnnouncement
      <4>2. QED
        BY <4>1, <3>1, <3>2 DEF Opener, Acceptor, Roles
    <3>6. Moves(wire[i][a][x], wire'[i][a][x], {})
      BY <3>3, <3>4, <1>0, MovesTail
    <3>7. \A k \in 1..Len(wire'[i][a][x]) : wire'[i][a][x][k] = "reply" =>
            \E j \in 1..Len(wire[i][a][x]) : wire[i][a][x][j] = "reply"
      BY <3>6, MovesElements
    <3>8. \A z \in Roles : z = x \/ z = y
      BY <3>2 DEF Roles
    <3>9. ASSUME NEW j \in Procs, NEW b \in Procs, NEW z \in Roles, NEW k \in 1..Len(wire'[j][b][z]),
                 wire'[j][b][z][k] = "reply"
          PROVE  \/ \E l \in 1..Len(wire[j][b][z]) : wire[j][b][z][l] = "reply"
                 \/ z = "opener" /\ j \in heard'[b]
                 \/ z = "acceptor" /\ b \in heard'[j]
      <4>1. CASE j # i \/ b # a
        BY <3>4, <3>9, <4>1
      <4>2. CASE j = i /\ b = a /\ z = x
        BY <3>7, <3>9, <4>2
      <4>3. CASE j = i /\ b = a /\ z = y
        BY <3>5, <4>3
      <4>4. QED
        BY <3>8, <4>1, <4>2, <4>3
    <3>10. QED
      BY <3>9 DEF RepliesSent
  <2>7. QED
    BY <1>4, <2>1, <2>2, <2>3, <2>4, <2>5, <2>6 DEF IoThread
<1>5. QED
  BY <1>1, <1>2, <1>3, <1>4 DEF Next, Registry

(* A peer's stage becomes REPLY_RECEIVED by a reply only. *)
NoNewReply == \A p, q \in Procs : peer'[p][q] = "REPLY_RECEIVED" => peer[p][q] = "REPLY_RECEIVED"

LEMMA OneNoReply ==
  ASSUME Types, NEW p \in Procs, NEW q \in Procs, NEW v, v # "REPLY_RECEIVED",
         peer' = [peer EXCEPT ![p][q] = v]
  PROVE  NoNewReply
<1>1. peer \in [Procs -> [Procs -> PeerStages]]
  BY DEF Types
<1>2. QED
  BY <1>1 DEF NoNewReply

LEMMA NewReply ==
  ASSUME Types, WireReplies, ProxyReplies, [Next]_vars
  PROVE  NoNewReply \/ \E p, q \in Procs : HandleReply(p, q) /\ p \in heard[q]
<1> USE DEF joinVars, connectVars, registryVars, netVars
<1>a. ASSUME UNCHANGED peer PROVE NoNewReply
  BY <1>a DEF NoNewReply
<1>1. CASE UNCHANGED vars
  BY <1>1, <1>a DEF vars
<1>2. ASSUME NEW p \in Procs, \/ JoinSimulation(p) \/ Leave(p) \/ Relay(p) \/ OnPeerShutdown(p)
                             \/ OnParticipantAnnouncement(p)
      PROVE  NoNewReply
  BY <1>2, <1>a DEF JoinSimulation, Leave, Relay, OnPeerShutdown, OnParticipantAnnouncement
<1>3. ASSUME NEW p \in Procs, UserThread(p) \/ UpdateStage(p, "io")
      PROVE  NoNewReply
  <2>1. ASSUME NEW q \in Procs, StartPeer(p, q) PROVE NoNewReply
    BY <2>1, OneNoReply DEF StartPeer
  <2>2. CASE ~ \E q \in Procs : StartPeer(p, q)
    <3>1. UNCHANGED peer
      BY <1>3, <2>2 DEF UserThread, WaitForRegistryHandshakeToComplete, StartConnectingDone,
                        ConnectToKnownParticipants, WaitForAllReplies, UpdateStage
    <3>2. QED
      BY <3>1, <1>a
  <2>3. QED
    BY <2>1, <2>2
<1>4. ASSUME NEW p \in Procs, IoThread(p)
      PROVE  NoNewReply \/ \E r, q \in Procs : HandleReply(r, q) /\ r \in heard[q]
  <2>1. CASE UpdateStage(p, "io")
    BY <2>1, <1>3
  <2>2. CASE TryProxyConnect(p)
    <3>1. PICK q \in Procs : q = proxying[p]
      BY <2>2 DEF TryProxyConnect, Types
    <3>2. peer' = peer \/ peer' = [peer EXCEPT ![p][q] = "FAILURE"]
      BY <2>2, <3>1 DEF TryProxyConnect
    <3>3. QED
      BY <3>2, <1>a, OneNoReply
  <2>3. CASE RemoteIsConnecting(p) \/ RemoteFailedToConnect(p)
    <3>1. PICK q \in Procs : q = Head(fromReg[p]).target
      BY <2>3, Relayed DEF RemoteIsConnecting, RemoteFailedToConnect
    <3>2. \/ peer' = peer \/ peer' = [peer EXCEPT ![p][q] = "REMOTE_IS_CONNECTING"]
          \/ peer' = [peer EXCEPT ![p][q] = "WAITING_FOR_REPLY"]
      BY <2>3, <3>1 DEF RemoteIsConnecting, RemoteFailedToConnect
    <3>3. QED
      BY <3>2, <1>a, OneNoReply
  <2>4. CASE ReplyByProxy(p)
    <3>1. PICK q \in Procs : q = Head(fromReg[p]).origin
      BY <2>4, Relayed DEF ReplyByProxy
    <3>2. Len(fromReg[p]) > 0 /\ fromReg[p] \in Seq(MessagesOfRegistry) /\ fromReg[p][1].kind = "proxy-reply"
          /\ Head(fromReg[p]) = fromReg[p][1]
      BY <2>4, FromRegistryMoves DEF ReplyByProxy
    <3>3. p \in heard[q]
      BY <3>1, <3>2 DEF ProxyReplies
    <3>4. QED
      BY <2>4, <3>1, <3>3 DEF ReplyByProxy
  <2>5. ASSUME NEW q \in Procs, NEW x \in Roles, ReplyOnWire(p, q, x)
        PROVE  \E r, s \in Procs : HandleReply(r, s) /\ r \in heard[s]
    <3>1. PICK i \in Procs, a \in Procs : i = Opener(p, q, x) /\ a = Acceptor(p, q, x)
      BY DEF Opener, Acceptor
    <3>2. wire[i][a][x] \in Seq(Handshake) /\ wire[i][a][x] # <<>> /\ Head(wire[i][a][x]) = "reply"
      BY <2>5, <3>1 DEF ReplyOnWire, Types
    <3>3. 1 \in 1..Len(wire[i][a][x]) /\ wire[i][a][x][1] = "reply"
      BY <3>2
    <3>4. (x = "opener" /\ i \in heard[a]) \/ (x = "acceptor" /\ a \in heard[i])
      BY <3>3 DEF WireReplies
    <3>5. p \in heard[q]
      BY <3>1, <3>4 DEF Opener, Acceptor
    <3>6. QED
      BY <2>5, <3>5 DEF ReplyOnWire
  <2>6. CASE \/ ReceiveKnownParticipants(p) \/ ReceiveRegistryReply(p) \/ AnnouncementByProxy(p)
             \/ ReceiveRemoteParticipantConnectRequest(p)
    BY <2>6, <1>a DEF ReceiveKnownParticipants, ReceiveRegistryReply, AnnouncementByProxy,
                      ReceiveRemoteParticipantConnectRequest
  <2>7. ASSUME NEW q \in Procs, \/ OnConnectPeerSuccess(p, q) \/ OnConnectPeerFailure(p, q)
                               \/ OnTimerExpired(p, q) \/ RemoteParticipantAnnouncement(p, q)
        PROVE  NoNewReply
    <3>1. \/ peer' = peer \/ peer' = [peer EXCEPT ![p][q] = "REMOTE_CONNECT_REQUESTED"]
          \/ peer' = [peer EXCEPT ![p][q] = "WAITING_FOR_REPLY"]
      BY <2>7 DEF OnConnectPeerSuccess, OnConnectPeerFailure, OnTimerExpired, RemoteParticipantAnnouncement
    <3>2. QED
      BY <3>1, <1>a, OneNoReply
  <2>8. ASSUME NEW q \in Procs, \/ OnRemoteConnectionSuccess(p, q) \/ OnRemoteConnectionFailure(p, q)
                               \/ \E x \in Roles : ReceiveParticipantAnnouncement(p, q, x)
        PROVE  NoNewReply
    BY <2>8, <1>a DEF OnRemoteConnectionSuccess, OnRemoteConnectionFailure, ReceiveParticipantAnnouncement
  <2>9. QED
    BY <1>4, <2>1, <2>2, <2>3, <2>4, <2>5, <2>6, <2>7, <2>8 DEF IoThread
<1>5. QED
  BY <1>1, <1>2, <1>3, <1>4 DEF Next, Registry

LEMMA InitReplies == Init => Replies
<1> SUFFICES ASSUME Init PROVE Replies
  OBVIOUS
<1>1. PICK s \in Scenarios : InitWith(s.present, s.joining) /\ s.present \subseteq Procs
  BY ProcsAssumption DEF Init
<1>2. NamesFit
  <2>1. ASSUME NEW n \in Names, connected[n] # Nobody PROVE NameOf[connected[n]] = n
    <3>1. \E p \in s.present : NameOf[p] = n
      BY <1>1, <2>1 DEF InitWith
    <3>2. NameOf[CHOOSE p \in s.present : NameOf[p] = n] = n
      BY <3>1
    <3>3. QED
      BY <1>1, <3>1, <3>2 DEF InitWith
  <2>2. QED
    BY <2>1 DEF Init, NamesFit
<1>3. WireReplies
  BY DEF Init, WireReplies
<1>4. ProxyReplies
  BY DEF Init, ProxyReplies
<1>5. PeerReplies
  BY DEF Init, PeerReplies
<1>6. QED
  BY <1>2, <1>3, <1>4, <1>5 DEF Replies

LEMMA NextReplies ==
  ASSUME NamesDiffer, Types, Types', Replies, [Next]_vars
  PROVE  Replies'
<1> USE DEF joinVars, connectVars, registryVars, netVars
<1>1. NamesFit /\ WireReplies /\ ProxyReplies /\ PeerReplies
  BY DEF Replies
<1>2. HeardGrows
  BY NextHeard
<1>3. ProxyReplies'
  BY <1>1, <1>2, NextProxy, ProxyKept
<1>4. WireReplies'
  BY <1>1, <1>2, NextWire DEF RepliesSent, WireReplies, HeardGrows
<1>5. PeerReplies'
  <2>1. CASE NoNewReply
    BY <1>1, <1>2, <2>1 DEF PeerReplies, NoNewReply, HeardGrows
  <2>2. ASSUME NEW p \in Procs, NEW q \in Procs, HandleReply(p, q), p \in heard[q] PROVE PeerReplies'
    <3>1. peer \in [Procs -> [Procs -> PeerStages]] /\ heard \in [Procs -> SUBSET Procs]
      BY DEF Types
    <3>2. q \in heard'[p] /\ p \in heard'[q]
      BY <1>2, <2>2, <3>1 DEF HandleReply, HeardGrows
    <3>3. \A r, t \in Procs : r # p \/ t # q => peer'[r][t] = peer[r][t]
      BY <2>2, <3>1 DEF HandleReply
    <3>4. QED
      BY <1>1, <1>2, <3>2, <3>3 DEF PeerReplies, HeardGrows
  <2>3. QED
    BY <1>1, <2>1, <2>2, NewReply
<1>6. NamesFit'
  <2>1. byName \in [Names -> Procs \cup {Nobody}]
    BY DEF Types
  <2>2. ASSUME NEW p \in Procs, OnParticipantAnnouncement(p) \/ OnPeerShutdown(p)
        PROVE  NamesFit'
    <3>1. \/ byName' = byName \/ byName' = [byName EXCEPT ![NameOf[p]] = p]
          \/ byName' = [byName EXCEPT ![NameOf[p]] = Nobody]
      BY <2>2 DEF OnParticipantAnnouncement, OnPeerShutdown
    <3>2. QED
      BY <1>1, <2>1, <3>1, ProcsAssumption DEF NamesFit
  <2>3. ASSUME UNCHANGED byName PROVE NamesFit'
    BY <1>1, <2>3 DEF NamesFit
  <2>4. ASSUME NEW p \in Procs, JoinSimulation(p) \/ Leave(p) \/ Relay(p)
        PROVE  NamesFit'
    BY <2>3, <2>4 DEF JoinSimulation, Leave, Relay
  <2>5. ASSUME NEW p \in Procs, UserThread(p) \/ IoThread(p)
        PROVE  NamesFit'
    BY <2>3, <2>5, UserFrame, IoFrame
  <2>6. CASE UNCHANGED vars
    BY <2>3, <2>6 DEF vars
  <2>7. QED
    BY <2>2, <2>4, <2>5, <2>6 DEF Next, Registry
<1>7. QED
  BY <1>3, <1>4, <1>5, <1>6 DEF Replies

-----------------------------------------------------------------------------
(* Completion. *)

(* Who is known does not change once the registry has replied. *)
LEMMA KnownStays ==
  ASSUME Types, Registration, [Next]_vars, NEW p \in Procs
  PROVE  /\ regReply[p] = "value" => regReply'[p] = "value" /\ known'[p] = known[p]
         /\ user[p] = "joined" => known'[p] = known[p]
<1> USE DEF joinVars, connectVars, registryVars, netVars
<1>1. ASSUME NEW q \in Procs, ReceiveKnownParticipants(q) \/ ReceiveRegistryReply(q)
      PROVE  /\ regReply[p] = "value" => regReply'[p] = "value" /\ known'[p] = known[p]
             /\ user[p] = "joined" => known'[p] = known[p]
  <2>1. PICK kind \in {"known", "reply"} : FromRegistry(q, kind)
    BY <1>1 DEF ReceiveKnownParticipants, ReceiveRegistryReply
  <2>2. 1 \in Answers(q)
    BY <2>1, FromRegistryMoves DEF Answers
  <2>3. regReply[q] = "none" /\ user[q] # "joined"
    BY <2>2 DEF Registration
  <2>4. CASE p = q
    BY <2>3, <2>4
  <2>5. CASE p # q
    <3>1. known \in [Procs -> SUBSET SUBSET Procs] /\ regReply \in [Procs -> Promise]
      BY DEF Types
    <3>2. QED
      BY <1>1, <2>5, <3>1 DEF ReceiveKnownParticipants, ReceiveRegistryReply
  <2>6. QED
    BY <2>4, <2>5
<1>2. ASSUME NEW q \in Procs, \/ JoinSimulation(q) \/ Leave(q) \/ Relay(q) \/ OnPeerShutdown(q)
                             \/ OnParticipantAnnouncement(q)
      PROVE  UNCHANGED <<regReply, known>>
  BY <1>2 DEF JoinSimulation, Leave, Relay, OnPeerShutdown, OnParticipantAnnouncement
<1>3. ASSUME NEW q \in Procs, UserThread(q) \/ IoThread(q), ~ (ReceiveKnownParticipants(q) \/ ReceiveRegistryReply(q))
      PROVE  UNCHANGED <<regReply, known>>
  BY <1>3, UserFrame, IoFrame
<1>4. CASE UNCHANGED vars
  BY <1>4 DEF vars
<1>5. QED
  BY <1>1, <1>2, <1>3, <1>4 DEF Next, Registry

LEMMA AllRepliedStays ==
  ASSUME Types, Registration, Peers, [Next]_vars, NEW p \in Procs, AllReplied(p)
  PROVE  AllReplied(p)'
<1>1. regReply'[p] = "value" /\ known'[p] = known[p]
  BY KnownStays DEF AllReplied
<1>2. StageStep
  BY NextStage
<1>3. UNION known[p] \subseteq Procs
  BY DEF Types
<1>4. QED
  BY <1>1, <1>2, <1>3, ReplyStays DEF AllReplied

LEMMA RepliedAtLeast ==
  ASSUME NEW v \in PeerStages, AtLeast(v, "REPLY_RECEIVED")
  PROVE  v = "REPLY_RECEIVED"
BY DEF PeerStages, AtLeast, PeerStage

LEMMA InitCompletion == Init => Completion
BY DEF Init, Completion

(* Who sets the promise, enters the last part of UpdateStage, has joined. *)
LEMMA CompletionSteps ==
  ASSUME Types, [Next]_vars, NEW p \in Procs
  PROVE  /\ complete'[p] = "value" => complete[p] = "value" \/ \E t \in {"user", "io"} : update[p][t] = "done"
         /\ complete[p] = "value" => complete'[p] = "value"
         /\ \A t \in {"user", "io"} : update'[p][t] = "done" =>
              update[p][t] = "done" \/ (stage[p] = "WAITING_FOR_ALL_REPLIES" /\ AllPeers(p, "REPLY_RECEIVED"))
         /\ user'[p] = "joined" => user[p] = "joined" \/ complete[p] = "value"
<1> USE DEF joinVars, connectVars, registryVars, netVars
<1>0. /\ complete \in [Procs -> Promise] /\ update \in [Procs -> [{"user", "io"} -> Places]]
      /\ user \in [Procs -> UserPlaces]
  BY DEF Types
<1> DEFINE Goal ==
      /\ complete'[p] = "value" => complete[p] = "value" \/ \E t \in {"user", "io"} : update[p][t] = "done"
      /\ complete[p] = "value" => complete'[p] = "value"
      /\ \A t \in {"user", "io"} : update'[p][t] = "done" =>
           update[p][t] = "done" \/ (stage[p] = "WAITING_FOR_ALL_REPLIES" /\ AllPeers(p, "REPLY_RECEIVED"))
      /\ user'[p] = "joined" => user[p] = "joined" \/ complete[p] = "value"
<1>a. ASSUME UNCHANGED <<complete, update, user>> PROVE Goal
  BY <1>a
<1>b. ASSUME NEW q \in Procs, IoUpdates(q), UNCHANGED <<complete, user>> PROVE Goal
  BY <1>0, <1>b DEF IoUpdates
<1>1. ASSUME UNCHANGED vars PROVE Goal
  BY <1>1, <1>a DEF vars
<1>2. ASSUME NEW q \in Procs, \/ Leave(q) \/ Relay(q) \/ OnPeerShutdown(q)
                             \/ OnParticipantAnnouncement(q)
      PROVE  Goal
  <2>1. UNCHANGED <<complete, update, user>>
    BY <1>2 DEF Leave, Relay, OnPeerShutdown, OnParticipantAnnouncement
  <2>2. QED
    BY <2>1, <1>a
<1>3. ASSUME NEW q \in Procs, JoinSimulation(q) \/ ConnectToKnownParticipants(q)
      PROVE  Goal
  <2>1. UNCHANGED <<complete, update>> /\ (user'[p] = "joined" => user[p] = "joined")
    BY <1>0, <1>3 DEF JoinSimulation, ConnectToKnownParticipants
  <2>2. QED
    BY <2>1
<1>4. ASSUME NEW q \in Procs, WaitForRegistryHandshakeToComplete(q) PROVE Goal
  <2>1. UNCHANGED <<complete, update>> /\ (user'[p] = "joined" => user[p] = "joined")
    BY <1>0, <1>4 DEF WaitForRegistryHandshakeToComplete
  <2>2. QED
    BY <2>1
<1>5. ASSUME NEW q \in Procs, StartConnectingDone(q) PROVE Goal
  <2>1. UNCHANGED complete /\ (user'[p] = "joined" => user[p] = "joined")
    BY <1>0, <1>5 DEF StartConnectingDone
  <2>2. \A t \in {"user", "io"} : update'[p][t] = "done" => update[p][t] = "done"
    BY <1>0, <1>5 DEF StartConnectingDone
  <2>3. QED
    BY <2>1, <2>2
<1>6. ASSUME NEW q \in Procs, WaitForAllReplies(q) PROVE Goal
  <2>1. UNCHANGED <<complete, update>> /\ (user'[p] = "joined" => user[p] = "joined" \/ complete[p] = "value")
    BY <1>0, <1>6 DEF WaitForAllReplies
  <2>2. QED
    BY <2>1
<1>7. ASSUME NEW q \in Procs, NEW r \in Procs, StartPeer(q, r) PROVE Goal
  BY <1>7, <1>a DEF StartPeer
<1>8. ASSUME NEW q \in Procs, NEW t \in {"user", "io"}, UpdateStage(q, t) PROVE Goal
  <2>0. UNCHANGED user
    BY <1>8 DEF UpdateStage
  <2>1. CASE UpdateEnter(q, t)
    BY <2>0, <2>1, <1>0 DEF UpdateEnter
  <2>2. CASE UpdateFail(q, t)
    BY <2>0, <2>2, <1>0 DEF UpdateFail, SetPromise
  <2>3. CASE UpdateConnecting(q, t)
    BY <2>0, <2>3, <1>0 DEF UpdateConnecting
  <2>4. CASE UpdateWait(q, t)
    BY <2>0, <2>4, <1>0 DEF UpdateWait
  <2>5. CASE UpdateWaiting(q, t)
    BY <2>0, <2>5, <1>0 DEF UpdateWaiting
  <2>6. CASE UpdateDone(q, t)
    BY <2>0, <2>6, <1>0 DEF UpdateDone, SetPromise
  <2>7. QED
    BY <1>8, <2>1, <2>2, <2>3, <2>4, <2>5, <2>6 DEF UpdateStage
<1>9. ASSUME NEW q \in Procs, IoThread(q), ~ UpdateStage(q, "io") PROVE Goal
  <2>1. UNCHANGED <<complete, user>> /\ (UNCHANGED update \/ IoUpdates(q))
    <3>1. CASE TryProxyConnect(q)
      BY <3>1 DEF TryProxyConnect
    <3>2. CASE RemoteIsConnecting(q)
      BY <3>2 DEF RemoteIsConnecting
    <3>3. CASE RemoteFailedToConnect(q)
      BY <3>3 DEF RemoteFailedToConnect
    <3>4. CASE ReplyByProxy(q)
      BY <3>4 DEF ReplyByProxy, HandleReply
    <3>5. CASE \/ ReceiveKnownParticipants(q) \/ ReceiveRegistryReply(q) \/ AnnouncementByProxy(q)
               \/ ReceiveRemoteParticipantConnectRequest(q)
      BY <3>5 DEF ReceiveKnownParticipants, ReceiveRegistryReply, AnnouncementByProxy,
                  ReceiveRemoteParticipantConnectRequest
    <3>6. ASSUME NEW r \in Procs, OnConnectPeerSuccess(q, r) \/ OnConnectPeerFailure(q, r)
          PROVE  UNCHANGED <<complete, user>> /\ (UNCHANGED update \/ IoUpdates(q))
      BY <3>6 DEF OnConnectPeerSuccess, OnConnectPeerFailure
    <3>7. ASSUME NEW r \in Procs, OnTimerExpired(q, r) \/ RemoteParticipantAnnouncement(q, r)
          PROVE  UNCHANGED <<complete, user>> /\ (UNCHANGED update \/ IoUpdates(q))
      BY <3>7 DEF OnTimerExpired, RemoteParticipantAnnouncement
    <3>8. ASSUME NEW r \in Procs, OnRemoteConnectionSuccess(q, r) \/ OnRemoteConnectionFailure(q, r)
          PROVE  UNCHANGED <<complete, user>> /\ (UNCHANGED update \/ IoUpdates(q))
      BY <3>8 DEF OnRemoteConnectionSuccess, OnRemoteConnectionFailure
    <3>9. ASSUME NEW r \in Procs, NEW x \in Roles, ReplyOnWire(q, r, x) \/ ReceiveParticipantAnnouncement(q, r, x)
          PROVE  UNCHANGED <<complete, user>> /\ (UNCHANGED update \/ IoUpdates(q))
      BY <3>9 DEF ReplyOnWire, HandleReply, ReceiveParticipantAnnouncement
    <3>10. QED
      BY <1>9, <3>1, <3>2, <3>3, <3>4, <3>5, <3>6, <3>7, <3>8, <3>9 DEF IoThread
  <2>2. QED
    BY <2>1, <1>a, <1>b
<1>10. QED
  <2> HIDE DEF Goal
  <2>a. ASSUME NEW q \in Procs, UserThread(q) PROVE Goal
    BY <2>a, <1>3, <1>4, <1>5, <1>6, <1>7, <1>8 DEF UserThread
  <2>b. ASSUME NEW q \in Procs, IoThread(q) PROVE Goal
    BY <2>b, <1>8, <1>9
  <2>1. Goal
    BY <1>1, <1>2, <1>3, <2>a, <2>b DEF Next, Registry
  <2>2. QED
    BY <2>1 DEF Goal

LEMMA NextCompletion ==
  ASSUME Types, Registration, Peers, Completion, [Next]_vars
  PROVE  Completion'
<1> SUFFICES ASSUME NEW p \in Procs
             PROVE  (/\ complete[p] = "value" => AllReplied(p)
                     /\ \A t \in {"user", "io"} : update[p][t] = "done" => AllReplied(p)
                     /\ user[p] = "joined" => complete[p] = "value" \/ known[p] = {})'
  BY DEF Completion
<1>1. complete'[p] = "value" => AllReplied(p)
  BY CompletionSteps DEF Completion
<1>2. ASSUME NEW t \in {"user", "io"}, update'[p][t] = "done" PROVE AllReplied(p)
  <2>1. CASE update[p][t] = "done"
    BY <2>1 DEF Completion
  <2>2. CASE stage[p] = "WAITING_FOR_ALL_REPLIES" /\ AllPeers(p, "REPLY_RECEIVED")
    <3>1. regReply[p] = "value"
      BY <2>2 DEF Peers, PeersOf
    <3>2. \A q \in UNION known[p] : peer[p][q] \in PeerStages
      BY DEF Types
    <3>3. QED
      BY <2>2, <3>1, <3>2, RepliedAtLeast DEF AllPeers, AllReplied
  <2>3. QED
    BY <1>2, <2>1, <2>2, CompletionSteps
<1>3. user'[p] = "joined" => complete'[p] = "value" \/ known'[p] = {}
  BY CompletionSteps, KnownStays DEF Completion
<1>4. QED
  BY <1>1, <1>2, <1>3, AllRepliedStays

-----------------------------------------------------------------------------
(* The registry's entries. *)

(* What the registry says of those that are there is not lost. *)
KnownKept(p) ==
  \A i \in Answers(p) : fromReg[p][i].kind = "known" =>
    \E j \in Answers(p)' : fromReg'[p][j] = fromReg[p][i]

LEMMA KnownSame ==
  ASSUME NEW p \in Procs, fromReg'[p] = fromReg[p]
  PROVE  KnownKept(p)
BY DEF KnownKept, Answers

LEMMA KnownRead ==
  ASSUME Types, NEW q \in Procs, NEW kind, FromRegistry(q, kind), kind # "known", NEW p \in Procs
  PROVE  KnownKept(p)
<1>1. /\ \A r \in Procs \ {q} : fromReg'[r] = fromReg[r]
      /\ fromReg'[q] = Tail(fromReg[q]) /\ fromReg[q] \in Seq(MessagesOfRegistry) /\ Len(fromReg[q]) > 0
      /\ fromReg[q][1].kind = kind
  BY FromRegistryMoves
<1>2. CASE p # q
  BY <1>1, <1>2, KnownSame
<1>3. CASE p = q
  <2>1. \A i \in 1..Len(fromReg[q]) : i # 1 => i - 1 \in 1..Len(fromReg'[q]) /\ fromReg'[q][i - 1] = fromReg[q][i]
    BY <1>1
  <2>2. QED
    BY <1>1, <1>3, <2>1 DEF KnownKept, Answers
<1>4. QED
  BY <1>2, <1>3

LEMMA KnownSent ==
  ASSUME Types, NEW q \in Procs, NEW m \in MessagesOfRegistry, RegistrySends(q, <<m>>), NEW p \in Procs
  PROVE  KnownKept(p)
<1>1. fromReg \in [Procs -> Seq(MessagesOfRegistry)] /\ fromReg[q] \in Seq(MessagesOfRegistry)
  BY DEF Types
<1>2. CASE p # q \/ q \notin alive
  <2>1. fromReg'[p] = fromReg[p]
    BY <1>1, <1>2 DEF RegistrySends
  <2>2. QED
    BY <2>1, KnownSame
<1>3. CASE p = q /\ q \in alive
  <2>1. fromReg'[q] = fromReg[q] \o <<m>>
    BY <1>1, <1>3 DEF RegistrySends
  <2>2. \A i \in 1..Len(fromReg[q]) : i \in 1..Len(fromReg'[q]) /\ fromReg'[q][i] = fromReg[q][i]
    BY <1>1, <2>1
  <2>3. QED
    BY <1>3, <2>2 DEF KnownKept, Answers
<1>4. QED
  BY <1>2, <1>3

(* An announcement that is admitted: the newcomer is told of everybody. *)
LEMMA Admission ==
  ASSUME Types, NEW p \in Procs, p \in alive, OnParticipantAnnouncement(p), connected[NameOf[p]] = Nobody
  PROVE  /\ \A q \in Procs \ {p} : fromReg'[q] = fromReg[q]
         /\ \A i \in 1..Len(fromReg[p]) : i \in 1..Len(fromReg'[p]) /\ fromReg'[p][i] = fromReg[p][i]
         /\ \E i \in Answers(p)' : /\ fromReg'[p][i].kind = "known"
                                  /\ \A q \in Procs : IsFiled(q) => q \in fromReg'[p][i].peers
<1> DEFINE others == {connected[k] : k \in Names} \ {Nobody, p}
<1>1. RegistrySends(p, <<[kind |-> "known", peers |-> others], [kind |-> "reply", status |-> "value"]>>)
  BY DEF OnParticipantAnnouncement
<1>2. others \subseteq Procs
  BY DEF Types
<1>3. \A q \in Procs : IsFiled(q) => q \in others
  BY ProcsAssumption DEF IsFiled
<1> HIDE DEF others
<1>4. PICK a \in MessagesOfRegistry : a = [kind |-> "known", peers |-> others]
                                   /\ a.kind = "known" /\ a.peers = others
  <2>1. [kind |-> "known", peers |-> others] \in MessagesOfRegistry
    BY <1>2, MessageFields
  <2>2. QED
    BY <2>1
<1>5. PICK b \in MessagesOfRegistry : b = [kind |-> "reply", status |-> "value"] /\ b.kind = "reply"
  BY MessageFields
<1>6. /\ \A q \in Procs \ {p} : fromReg'[q] = fromReg[q]
      /\ Len(fromReg'[p]) = Len(fromReg[p]) + 2 /\ Len(fromReg[p]) \in Nat
      /\ \A i \in 1..Len(fromReg[p]) : fromReg'[p][i] = fromReg[p][i]
      /\ fromReg'[p][Len(fromReg[p]) + 1] = a
  BY <1>1, <1>4, <1>5, SendAnswer
<1>7. \A i \in 1..Len(fromReg[p]) : i \in 1..Len(fromReg'[p])
  BY <1>6
<1>8. Len(fromReg[p]) + 1 \in Answers(p)'
  BY <1>4, <1>6 DEF Answers
<1>9. QED
  BY <1>3, <1>4, <1>6, <1>7, <1>8

LEMMA NextKnownKept ==
  ASSUME Types, [Next]_vars, NEW p \in Procs, ~ ReceiveKnownParticipants(p), ~ Leave(p)
  PROVE  KnownKept(p)
<1> USE DEF joinVars, connectVars, registryVars, netVars
<1>1. CASE UNCHANGED fromReg
  BY <1>1, KnownSame
<1>2. ASSUME NEW q \in Procs, JoinSimulation(q) \/ UserThread(q) \/ OnPeerShutdown(q) PROVE KnownKept(p)
  BY <1>1, <1>2, UserFrame DEF JoinSimulation, OnPeerShutdown
<1>3. ASSUME NEW q \in Procs, Leave(q) PROVE KnownKept(p)
  <2>1. p # q
    BY <1>3
  <2>2. fromReg'[p] = fromReg[p]
    BY <1>3, <2>1 DEF Leave, Types
  <2>3. QED
    BY <2>2, KnownSame
<1>4. ASSUME NEW q \in Procs, Relay(q) PROVE KnownKept(p)
  <2>1. PICK m \in MessagesToRegistry : m = Head(toReg[q]) /\ m \in MessagesOfRegistry
    <3>1. Head(toReg[q]) \in MessagesToRegistry /\ Head(toReg[q]).kind # "announce"
      BY <1>4, ReadMoves DEF Relay, RegistryReads
    <3>2. QED
      BY <3>1, MessageFields
  <2>2. PICK to \in Procs \cup {Nobody} :
          to = byName[NameOf[IF m.kind \in {"connecting", "failed"} THEN m.origin ELSE m.target]]
    BY <2>1, MessageFields, ProcsAssumption, SMTT(30) DEF Types
  <2>3. IF to = Nobody THEN UNCHANGED fromReg ELSE RegistrySends(to, <<m>>)
    BY <1>4, <2>1, <2>2 DEF Relay
  <2>4. QED
    BY <2>1, <2>2, <2>3, <1>1, KnownSent
<1>5. ASSUME NEW q \in Procs, OnParticipantAnnouncement(q) PROVE KnownKept(p)
  <2>1. CASE q \notin alive
    BY <1>5, <2>1, <1>1 DEF OnParticipantAnnouncement, RegistrySends
  <2>2. CASE q \in alive /\ connected[NameOf[q]] # Nobody
    <3>1. PICK m \in MessagesOfRegistry : m = [kind |-> "reply", status |-> "error"]
      BY MessageFields
    <3>2. RegistrySends(q, <<m>>)
      BY <1>5, <2>2, <3>1 DEF OnParticipantAnnouncement
    <3>3. QED
      BY <3>2, KnownSent
  <2>3. CASE q \in alive /\ connected[NameOf[q]] = Nobody
    <3>1. CASE p # q
      BY <1>5, <2>3, <3>1, Admission, KnownSame
    <3>2. CASE p = q
      <4>1. \A i \in 1..Len(fromReg[p]) : i \in 1..Len(fromReg'[p]) /\ fromReg'[p][i] = fromReg[p][i]
        BY <1>5, <2>3, <3>2, Admission
      <4>2. QED
        BY <4>1 DEF KnownKept, Answers
    <3>3. QED
      BY <3>1, <3>2
  <2>4. QED
    BY <2>1, <2>2, <2>3
<1>6. ASSUME NEW q \in Procs, IoThread(q) PROVE KnownKept(p)
  <2>1. CASE ReceiveKnownParticipants(q)
    <3>1. p # q
      BY <2>1
    <3>2. fromReg'[p] = fromReg[p]
      BY <2>1, <3>1, FromRegistryMoves DEF ReceiveKnownParticipants
    <3>3. QED
      BY <3>2, KnownSame
  <2>2. CASE \/ RemoteIsConnecting(q) \/ RemoteFailedToConnect(q) \/ ReplyByProxy(q) \/ ReceiveRegistryReply(q)
             \/ AnnouncementByProxy(q) \/ ReceiveRemoteParticipantConnectRequest(q)
    <3>1. \E kind \in {"connecting", "failed", "proxy-reply", "reply", "proxy-announcement", "request"} :
            FromRegistry(q, kind)
      BY <2>2 DEF RemoteIsConnecting, RemoteFailedToConnect, ReplyByProxy, ReceiveRegistryReply,
                  AnnouncementByProxy, ReceiveRemoteParticipantConnectRequest
    <3>2. QED
      BY <3>1, KnownRead
  <2>3. CASE UpdateStage(q, "io") \/ TryProxyConnect(q)
    BY <2>3, <1>1 DEF UpdateStage, TryProxyConnect
  <2>4. ASSUME NEW r \in Procs,
               \/ OnConnectPeerSuccess(q, r) \/ OnConnectPeerFailure(q, r) \/ OnTimerExpired(q, r)
               \/ RemoteParticipantAnnouncement(q, r)
               \/ OnRemoteConnectionSuccess(q, r) \/ OnRemoteConnectionFailure(q, r)
               \/ \E x \in Roles : ReplyOnWire(q, r, x) \/ ReceiveParticipantAnnouncement(q, r, x)
        PROVE  KnownKept(p)
    <3>1. UNCHANGED fromReg
      BY <2>4 DEF OnConnectPeerSuccess, OnConnectPeerFailure, OnTimerExpired, RemoteParticipantAnnouncement,
                  OnRemoteConnectionSuccess, OnRemoteConnectionFailure, ReplyOnWire,
                  ReceiveParticipantAnnouncement
    <3>2. QED
      BY <3>1, <1>1
  <2>5. QED
    BY <1>6, <2>1, <2>2, <2>3, <2>4 DEF IoThread
<1>7. CASE UNCHANGED vars
  BY <1>7, <1>1 DEF vars
<1>8. QED
  BY <1>2, <1>3, <1>4, <1>5, <1>6, <1>7 DEF Next, Registry

(* Who is alive and stays so keeps what it was told. *)
LEMMA ToldStays ==
  ASSUME Types, Registration, [Next]_vars, NEW p \in Procs, NEW q \in Procs, p \in alive', Told(p, q)
  PROVE  Told(p, q)'
<1> USE DEF joinVars, connectVars, registryVars, netVars
<1>1. ~ Leave(p)
  BY DEF Leave, Types
<1>2. CASE q \in heard[p] /\ p \in heard[q]
  BY <1>2, NextHeard DEF HeardGrows, Told
<1>3. CASE ReceiveKnownParticipants(p)
  <2>1. /\ 1 \in Answers(p) /\ fromReg[p][1].kind = "known" /\ Head(fromReg[p]) = fromReg[p][1]
    BY <1>3, FromRegistryMoves DEF ReceiveKnownParticipants, Answers
  <2>2. known'[p] = {fromReg[p][1].peers}
    BY <1>3, <2>1 DEF ReceiveKnownParticipants, Types
  <2>3. known[p] = {} /\ \A i \in Answers(p) : fromReg[p][i].kind = "known" => i <= 1
    BY <2>1 DEF Registration
  <2>4. \A i \in Answers(p) : i \in Nat /\ i >= 1
    BY DEF Answers
  <2>5. CASE \E i \in Answers(p) : fromReg[p][i].kind = "known" /\ q \in fromReg[p][i].peers
    <3>1. q \in fromReg[p][1].peers
      <4>1. PICK i \in Answers(p) : fromReg[p][i].kind = "known" /\ q \in fromReg[p][i].peers
        BY <2>5
      <4>2. i = 1
        BY <2>3, <2>4, <4>1
      <4>3. QED
        BY <4>1, <4>2
    <3>2. QED
      BY <2>2, <3>1 DEF Told
  <2>6. QED
    BY <1>2, <2>3, <2>5 DEF Told
<1>4. CASE ~ ReceiveKnownParticipants(p)
  <2>1. KnownKept(p)
    BY <1>1, <1>4, NextKnownKept
  <2>2. known'[p] = known[p]
    <3>1. ASSUME NEW r \in Procs, ReceiveKnownParticipants(r) \/ ReceiveRegistryReply(r) PROVE known'[p] = known[p]
      BY <1>4, <3>1 DEF ReceiveKnownParticipants, ReceiveRegistryReply, Types
    <3>2. ASSUME NEW r \in Procs, \/ JoinSimulation(r) \/ Leave(r) \/ Relay(r) \/ OnPeerShutdown(r)
                                 \/ OnParticipantAnnouncement(r)
          PROVE  UNCHANGED known
      BY <3>2 DEF JoinSimulation, Leave, Relay, OnPeerShutdown, OnParticipantAnnouncement
    <3>3. ASSUME NEW r \in Procs, UserThread(r) \/ IoThread(r), ~ (ReceiveKnownParticipants(r) \/ ReceiveRegistryReply(r))
          PROVE  UNCHANGED known
      BY <3>3, UserFrame, IoFrame
    <3>4. CASE UNCHANGED vars
      BY <3>4 DEF vars
    <3>5. QED
      BY <3>1, <3>2, <3>3, <3>4 DEF Next, Registry
  <2>3. QED
    BY <1>2, <2>1, <2>2 DEF Told, KnownKept
<1>5. QED
  BY <1>3, <1>4

LEMMA InitFiled == Init => Filed
<1> SUFFICES ASSUME Init PROVE Filed
  OBVIOUS
<1>1. PICK s \in Scenarios : InitWith(s.present, s.joining)
  BY DEF Init
<1>2. /\ s.present \subseteq Procs /\ s.joining \subseteq Procs
      /\ \A p, q \in s.present : NameOf[p] = NameOf[q] => p = q
  BY ProcsAssumption
<1>3. ASSUME NEW n \in Names, connected[n] # Nobody PROVE NameOf[connected[n]] = n /\ connected[n] \in s.present
  <2>1. \E p \in s.present : NameOf[p] = n
    BY <1>1, <1>3 DEF InitWith
  <2>2. /\ NameOf[CHOOSE p \in s.present : NameOf[p] = n] = n
        /\ (CHOOSE p \in s.present : NameOf[p] = n) \in s.present
    BY <2>1
  <2>3. QED
    BY <1>1, <2>1, <2>2 DEF InitWith
<1>4. ASSUME NEW p \in alive, Admitted(p) PROVE IsFiled(p)
  <2>1. Answers(p) = {} /\ p \in Procs /\ regReply[p] = "none"
    BY <1>1, <1>2 DEF Init, InitWith, Answers
  <2>2. p \in s.present
    BY <1>1, <1>4, <2>1 DEF InitWith, Admitted
  <2>3. NameOf[p] \in Names /\ \E q \in s.present : NameOf[q] = NameOf[p]
    BY <2>1, <2>2, ProcsAssumption
  <2>4. /\ (CHOOSE q \in s.present : NameOf[q] = NameOf[p]) \in s.present
        /\ NameOf[CHOOSE q \in s.present : NameOf[q] = NameOf[p]] = NameOf[p]
    BY <2>3
  <2>5. connected[NameOf[p]] = CHOOSE q \in s.present : NameOf[q] = NameOf[p]
    BY <1>1, <2>3 DEF InitWith
  <2>6. QED
    BY <1>2, <2>2, <2>4, <2>5 DEF IsFiled
<1>5. ASSUME NEW p \in alive, NEW q \in alive, p # q, IsFiled(p), IsFiled(q) PROVE Told(p, q)
  <2>1. p \in Procs /\ q \in Procs /\ Nobody \notin Procs /\ NameOf[p] \in Names /\ NameOf[q] \in Names
    BY <1>1, <1>2, ProcsAssumption DEF InitWith
  <2>2. p \in s.present /\ q \in s.present
    BY <1>3, <1>5, <2>1 DEF IsFiled
  <2>3. QED
    BY <1>1, <1>5, <2>1, <2>2 DEF InitWith, Told
<1>6. QED
  BY <1>3, <1>4, <1>5 DEF Filed

LEMMA NextFiled ==
  ASSUME NamesDiffer, Types, Registration, Completion, Filed, [Next]_vars
  PROVE  Filed'
<1> USE DEF joinVars, connectVars, registryVars, netVars
<1>a. /\ connected \in [Names -> Procs \cup {Nobody}] /\ alive \subseteq Procs
      /\ NameOf \in [Procs -> Names] /\ Nobody \notin Procs
  BY ProcsAssumption DEF Types
<1>b. ASSUME NEW p \in Procs, \/ JoinSimulation(p) \/ UserThread(p) \/ IoThread(p) \/ Leave(p) \/ Relay(p)
      PROVE  UNCHANGED connected /\ alive' \subseteq alive
  BY <1>b, UserFrame, IoFrame DEF JoinSimulation, Leave, Relay
<1>c. CASE UNCHANGED vars
  <2>1. UNCHANGED <<connected, alive, regReply, user, fromReg, known, heard>>
    BY <1>c DEF vars
  <2>2. QED
    BY <2>1 DEF Filed, Admitted, IsFiled, Told, Answers
<1>1. alive' \subseteq alive
  BY <1>b, <1>c DEF Next, Registry, OnParticipantAnnouncement, OnPeerShutdown, vars
<1>2. \/ UNCHANGED connected
      \/ \E p \in Procs : /\ OnParticipantAnnouncement(p) /\ connected[NameOf[p]] = Nobody
                         /\ connected' = [connected EXCEPT ![NameOf[p]] = p]
      \/ \E p \in Procs : p \notin alive /\ connected' = [connected EXCEPT ![NameOf[p]] = Nobody]
  <2>1. ASSUME NEW p \in Procs, OnParticipantAnnouncement(p)
        PROVE  \/ UNCHANGED connected
               \/ connected[NameOf[p]] = Nobody /\ connected' = [connected EXCEPT ![NameOf[p]] = p]
    BY <2>1 DEF OnParticipantAnnouncement
  <2>2. QED
    BY <1>b, <1>c, <2>1 DEF Next, Registry, OnPeerShutdown, vars
<1>3. \A n \in Names : connected'[n] # Nobody => NameOf[connected'[n]] = n
  BY <1>2, <1>a DEF Filed
<1>4. ASSUME NEW p \in alive', IsFiled(p) PROVE IsFiled(p)'
  <2>1. p \in alive /\ p \in Procs /\ p # Nobody
    BY <1>1, <1>a
  <2>2. QED
    BY <1>2, <1>4, <1>a, <2>1 DEF IsFiled, NamesDiffer
<1>5. ASSUME NEW p \in alive', Admitted(p)' PROVE IsFiled(p)'
  <2>0. p \in alive /\ p \in Procs
    BY <1>1, <1>a
  <2>1. CASE Admitted(p)
    BY <1>4, <2>0, <2>1 DEF Filed
  <2>2. user'[p] = "joined" => Admitted(p)
    BY <2>0, CompletionSteps DEF Completion, AllReplied, Admitted
  <2>3. regReply'[p] = "value" => Admitted(p)
    <3>1. ASSUME NEW q \in Procs, ReceiveRegistryReply(q), regReply'[p] = "value" PROVE Admitted(p)
      <4>1. /\ 1 \in Answers(q) /\ fromReg[q][1].kind = "reply" /\ Head(fromReg[q]) = fromReg[q][1]
        BY <3>1, FromRegistryMoves DEF ReceiveRegistryReply, Answers
      <4>2. CASE p = q
        <5>1. regReply'[p] = fromReg[p][1].status
          BY <2>0, <3>1, <4>1, <4>2 DEF ReceiveRegistryReply, Types
        <5>2. QED
          BY <3>1, <4>1, <4>2, <5>1 DEF Admitted
      <4>3. CASE p # q
        BY <2>0, <3>1, <4>3 DEF ReceiveRegistryReply, Admitted, Types
      <4>4. QED
        BY <4>2, <4>3
    <3>2. ASSUME NEW q \in Procs, \/ JoinSimulation(q) \/ Leave(q) \/ Relay(q) \/ OnPeerShutdown(q)
                                 \/ OnParticipantAnnouncement(q)
          PROVE  UNCHANGED regReply
      BY <3>2 DEF JoinSimulation, Leave, Relay, OnPeerShutdown, OnParticipantAnnouncement
    <3>3. ASSUME NEW q \in Procs, UserThread(q) \/ IoThread(q), ~ ReceiveRegistryReply(q)
          PROVE  UNCHANGED regReply
      BY <3>3, UserFrame, IoFrame DEF ReceiveKnownParticipants
    <3>4. CASE UNCHANGED regReply
      BY <3>4 DEF Admitted
    <3>5. UNCHANGED regReply \/ \E q \in Procs : ReceiveRegistryReply(q)
      BY <3>2, <3>3 DEF Next, Registry, vars
    <3>6. QED
      BY <3>1, <3>4, <3>5
  <2>4. ASSUME NEW i \in Answers(p)', fromReg'[p][i].kind = "reply", fromReg'[p][i].status = "value"
        PROVE  IsFiled(p)'
    <3>1. CASE AnswersKept
      <4>1. Admitted(p)
        BY <2>0, <2>4, <3>1 DEF AnswersKept, Admitted
      <4>2. QED
        BY <2>1, <4>1
    <3>2. AnswersKept \/ \E q \in Procs : OnParticipantAnnouncement(q)
      <4>1. ASSUME UNCHANGED fromReg PROVE AnswersKept
        BY <4>1, UnchangedKeeps
      <4>2. ASSUME NEW q \in Procs, JoinSimulation(q) PROVE AnswersKept
        BY <4>1, <4>2 DEF JoinSimulation
      <4>3. QED
        BY <4>1, <4>2, QuietKeeps DEF Next, Registry, Quiet, vars
    <3>3. ASSUME NEW q \in Procs, OnParticipantAnnouncement(q) PROVE IsFiled(p)'
      <4>1. CASE q = p /\ connected[NameOf[p]] = Nobody
        BY <2>0, <3>3, <4>1, <1>a DEF OnParticipantAnnouncement, IsFiled
      <4>2. CASE q = p /\ connected[NameOf[p]] # Nobody
        <5>1. PICK m \in MessagesOfRegistry : m = [kind |-> "reply", status |-> "error"] /\ m.status = "error"
          BY MessageFields
        <5>2. RegistrySends(p, <<m>>)
          BY <3>3, <4>2, <5>1 DEF OnParticipantAnnouncement
        <5>3. Moves(fromReg[p], fromReg'[p], {m})
          BY <2>0, <5>2, SendMoves
        <5>4. i \in 1..Len(fromReg'[p])
          BY DEF Answers
        <5>5. \E j \in 1..Len(fromReg[p]) : fromReg'[p][i] = fromReg[p][j]
          BY <2>4, <5>1, <5>3, <5>4, MovesElements
        <5>6. Admitted(p)
          BY <2>4, <5>5 DEF Admitted, Answers
        <5>7. QED
          BY <2>1, <5>6
      <4>3. CASE q # p
        <5>1. fromReg'[p] = fromReg[p]
          BY <2>0, <3>3, <4>3 DEF OnParticipantAnnouncement, RegistrySends, Types
        <5>2. Admitted(p)
          BY <2>4, <5>1 DEF Admitted, Answers
        <5>3. QED
          BY <2>1, <5>2
      <4>4. QED
        BY <4>1, <4>2, <4>3
    <3>4. QED
      BY <3>1, <3>2, <3>3
  <2>5. QED
    BY <1>5, <2>1, <2>2, <2>3, <2>4 DEF Admitted
<1>6. ASSUME NEW p \in alive', NEW q \in alive', p # q, IsFiled(p)', IsFiled(q)'
      PROVE  (Told(p, q) \/ Told(q, p))'
  <2>0. {p, q} \subseteq alive /\ {p, q} \subseteq Procs
    BY <1>1, <1>a
  <2>1. CASE IsFiled(p) /\ IsFiled(q)
    BY <1>6, <2>0, <2>1, ToldStays DEF Filed
  <2>2. ASSUME NEW r \in {p, q}, NEW t \in {p, q}, r # t, ~ IsFiled(r)
        PROVE  Told(r, t)'
    <3>1. OnParticipantAnnouncement(r) /\ connected[NameOf[r]] = Nobody /\ IsFiled(t)
      <4>1. PICK u \in Procs : /\ OnParticipantAnnouncement(u) /\ connected[NameOf[u]] = Nobody
                              /\ connected' = [connected EXCEPT ![NameOf[u]] = u]
        <5>1. connected'[NameOf[r]] = r /\ connected[NameOf[r]] # r /\ r \in Procs
          BY <1>6, <2>0, <2>2 DEF IsFiled
        <5>2. QED
          BY <1>2, <1>a, <5>1
      <4>2. u = r
        BY <1>6, <1>a, <2>0, <2>2, <4>1 DEF IsFiled
      <4>3. IsFiled(t)
        BY <1>6, <1>a, <2>0, <2>2, <4>1, <4>2 DEF IsFiled
      <4>4. QED
        BY <4>1, <4>2, <4>3
    <3>2. \E i \in Answers(r)' : fromReg'[r][i].kind = "known" /\ t \in fromReg'[r][i].peers
      BY <2>0, <3>1, Admission
    <3>3. QED
      BY <3>2 DEF Told
  <2>3. QED
    BY <1>6, <2>1, <2>2
<1>7. QED
  BY <1>3, <1>5, <1>6 DEF Filed

-----------------------------------------------------------------------------
(* The theorems. *)

Inv == Types /\ Registration /\ Peers /\ Completion

(* The inductive invariant that needs no hypothesis on names: how the      *)
(* registration proceeds, which peers are being reached, who has replied.  *)
THEOREM InvHolds == Spec => []Inv
<1>1. Init => Inv
  BY InitTypes, InitRegistration, InitPeers, InitCompletion DEF Inv
<1>2. Inv /\ [Next]_vars => Inv'
  BY NextTypes, NextRegistration, NextPeers, NextCompletion DEF Inv
<1>3. QED
  BY <1>1, <1>2, PTL DEF Spec

(* Every variable keeps its type, and nobody is connected to, asked or     *)
(* reached by proxy whom the registry has not named.                       *)
THEOREM TypeCorrect == Spec => []TypeOK
<1>1. Inv => TypeOK
  <2> SUFFICES ASSUME Inv PROVE TypeOK
    OBVIOUS
  <2>1. Types /\ \A p \in Procs : PeersOf(p)
    BY DEF Inv, Peers
  <2>2. DOMAIN PeerStage = PeerStages
    BY DEF PeerStage, PeerStages
  <2>3. \A p \in Procs : Cardinality(known[p]) <= 1 /\ UNION known[p] \subseteq Procs \ {p}
    BY <2>1 DEF PeersOf, Types
  <2>4. \A p, q \in Procs : peer[p][q] # "INVALID" => q \in UNION known[p]
    BY <2>1 DEF PeersOf
  <2>5. ASSUME NEW p \in Procs
        PROVE  attempts[p] \cup timers[p] \cup ({proxying[p]} \ {Nobody}) \subseteq UNION known[p]
    <3>1. attempts[p] \subseteq Procs /\ timers[p] \subseteq Procs /\ ({proxying[p]} \ {Nobody}) \subseteq Procs
      BY <2>1 DEF Types
    <3>2. ASSUME NEW q \in attempts[p] \cup timers[p] \cup ({proxying[p]} \ {Nobody}) PROVE q \in UNION known[p]
      <4>1. q \in Procs /\ peer[p][q] # "INVALID"
        BY <2>1, <3>1, <3>2 DEF PeersOf
      <4>2. QED
        BY <2>4, <4>1
    <3>3. QED
      BY <3>2
  <2>6. \A i, a \in Procs, x \in Roles : wire[i][a][x] \in Seq({"announcement", "reply", "remote"})
    BY <2>1 DEF Types, Handshake
  <2>7. \A p \in Procs : toReg[p] \in Seq(MessagesToRegistry) /\ fromReg[p] \in Seq(MessagesOfRegistry)
    BY <2>1 DEF Types
  <2>8. peer \in [Procs -> [Procs -> DOMAIN PeerStage]]
    BY <2>1, <2>2 DEF Types
  <2>9. QED
    BY <2>1, <2>3, <2>4, <2>5, <2>6, <2>7, <2>8
    DEF Types, TypeOK, UserPlaces, Promise, Stages, Places
<1>2. QED
  BY <1>1, InvHolds, PTL

(* No timer, answer or connection that comes late takes a peer back: it    *)
(* only advances, or fails while a reply is awaited.                       *)
THEOREM StagesAdvance == Spec => StagesOnlyAdvance
<1>1. Inv /\ [Next]_vars => [\A p, q \in Procs :
        \/ AtLeast(peer'[p][q], peer[p][q])
        \/ peer'[p][q] = "FAILURE" /\ peer[p][q] = "WAITING_FOR_REPLY"]_vars
  BY NextStage, StageAdvances DEF Inv
<1>2. QED
  BY <1>1, InvHolds, PTL DEF Spec, StagesOnlyAdvance

(* Where no two processes have the same name, replies reach those they are *)
(* for, and of any two in the registry one is told of the other.           *)
THEOREM NamedInvHolds ==
  ASSUME NamesDiffer
  PROVE  Spec => [](Inv /\ Replies /\ Filed)
<1>1. Init => Replies /\ Filed
  BY InitReplies, InitFiled
<1>2. Inv /\ Inv' /\ Replies /\ Filed /\ [Next]_vars => Replies' /\ Filed'
  BY NextReplies, NextFiled DEF Inv
<1>3. QED
  BY <1>1, <1>2, InvHolds, PTL DEF Spec

LEMMA JoinedReplied == Inv /\ Replies => JoinedMeansAllReplied
<1> SUFFICES ASSUME Inv, Replies, NEW p \in Procs, user[p] = "joined", NEW q \in UNION known[p]
             PROVE  q \in heard[p] /\ p \in heard[q]
  BY DEF JoinedMeansAllReplied
<1>1. AllReplied(p) /\ q \in Procs
  BY DEF Inv, Completion, Types
<1>2. QED
  BY <1>1 DEF AllReplied, Replies, PeerReplies

(* JoinSimulation succeeds only when every participant named by the        *)
(* registry has replied and both sides know each other.                    *)
THEOREM JoinedHasReplies ==
  ASSUME NamesDiffer
  PROVE  Spec => []JoinedMeansAllReplied
<1>1. QED
  BY JoinedReplied, NamedInvHolds, PTL

(* Any two participants that have joined and have not ended have shaken    *)
(* hands, whoever joined first and on whatever way.                        *)
THEOREM AllAreConnected ==
  ASSUME NamesDiffer
  PROVE  Spec => []EverybodyConnected
<1>1. Inv /\ Replies /\ Filed => EverybodyConnected
  <2> SUFFICES ASSUME Inv, Replies, Filed, NEW p \in Procs, NEW q \in Procs,
                      p # q, {p, q} \subseteq alive, user[p] = "joined", user[q] = "joined"
               PROVE  q \in heard[p]
    BY DEF EverybodyConnected
  <2>1. Answers(p) = {} /\ Answers(q) = {}
    BY DEF Inv, Registration
  <2>2. Told(p, q) \/ Told(q, p)
    BY DEF Filed, Admitted
  <2>3. JoinedMeansAllReplied
    BY JoinedReplied
  <2>4. QED
    BY <2>1, <2>2, <2>3 DEF Told, JoinedMeansAllReplied
<1>2. QED
  BY <1>1, NamedInvHolds, PTL

=============================================================================
