--------------------------- MODULE DiscoveryStore ---------------------------
(***************************************************************************)
(* The lookup structure with which the service discovery of a participant  *)
(* brings publishers and subscribers (or RPC clients and servers) of one   *)
(* topic together: SpecificDiscoveryStore, one DiscoveryKeyNode of it.     *)
(*                                                                         *)
(* A service (a "node") and a subscriber's handler both carry a list of    *)
(* labels.  Instead of trying every pair, the store picks one "greedy"     *)
(* label of the newcomer and calls only the handlers filed under it.  The  *)
(* handler then applies MatchLabels, so being called in vain is harmless;  *)
(* not being called loses a connection.                                    *)
(*                                                                         *)
(* Every operation runs under the mutex of ServiceDiscovery.  A service    *)
(* identifier is never reused.                                             *)
(***************************************************************************)
EXTENDS Integers, Sequences, FiniteSets

CONSTANTS
  Services,    \* descriptors of the publishers of the topic
  Handlers,    \* the handlers the subscribers of the topic register
  Keys,        \* label keys
  Values,      \* label values
  LabelLists   \* the label lists a service or a handler may have

Kinds == {"Optional", "Mandatory"}
Label == [key : Keys, value : Values, kind : Kinds]

ASSUME LabelsAssumption == LabelLists \subseteq Seq(Label)
ASSUME PartiesAssumption == Services \cap Handlers = {}

VARIABLES
  labels,    \* labels[x]: the labels of service or handler x
  live,      \* the services announced and not yet removed
  gone,      \* the services removed
  handlers,  \* the handlers registered
  entry,     \* the DiscoveryKeyNode
  told,      \* told[h][s]: how often h was called with ServiceCreated for s
  untold     \* untold[h][s]: how often h was called with ServiceRemoved

vars == <<labels, live, gone, handlers, entry, told, untold>>

-----------------------------------------------------------------------------
(* Label matching. *)

KeysOf(ls) == {ls[i].key : i \in DOMAIN ls}

(* The label of key k that find_if meets first. *)
TryFindLabelByKey(k, ls) ==
  ls[CHOOSE i \in DOMAIN ls : ls[i].key = k /\ \A j \in 1..(i - 1) : ls[j].key # k]

LabelMatchesLabelList(l, ls) ==
  IF l.key \in KeysOf(ls)
    THEN TryFindLabelByKey(l.key, ls).value = l.value
    ELSE l.kind = "Optional"

MatchLabels(ls1, ls2) ==
  /\ \A i \in DOMAIN ls1 : LabelMatchesLabelList(ls1[i], ls2)
  /\ \A i \in DOMAIN ls2 : LabelMatchesLabelList(ls2[i], ls1)

-----------------------------------------------------------------------------
(* The clusters.  notLabel[k] is empty until k is in seen, the set of the  *)
(* keys that notLabelMap holds an entry for; operator[] adds one silently. *)

EmptyCluster == [nodes |-> <<>>, handlers |-> <<>>]

EmptyEntry ==
  [all |-> EmptyCluster, noLabel |-> EmptyCluster, seen |-> {},
   label |-> [kv \in Keys \X Values |-> EmptyCluster],
   notLabel |-> [k \in Keys |-> EmptyCluster]]

(* GetLabelWithMinimalHandlerSet and ...NodeSet: the loop over the labels  *)
(* ends when the fewest candidates met so far are at most one; Counted are *)
(* the positions it reaches.  The size of an optional label's candidates   *)
(* is read from notLabelMap[key], which creates the entry.                 *)
Count(e, l, f) ==
  Len(e.label[<<l.key, l.value>>][f])
    + IF l.kind = "Optional" THEN Len(e.notLabel[l.key][f]) ELSE 0

Counted(e, ls, f) ==
  {j \in DOMAIN ls : Len(e.all[f]) > 1 /\ \A i \in 1..(j - 1) : Count(e, ls[i], f) > 1}

LookedUp(e, ls, f) ==
  [e EXCEPT !.seen =
     @ \cup {ls[j].key : j \in {i \in Counted(e, ls, f) : ls[i].kind = "Optional"}}]

(* The first label with the fewest candidates, if that is fewer than all;  *)
(* a sequence of at most one label.                                        *)
GreedyLabel(e, ls, f) ==
  LET Better == {j \in Counted(e, ls, f) : Count(e, ls[j], f) < Len(e.all[f])}
      Best == {j \in Better : \A i \in Better :
                 \/ Count(e, ls[j], f) < Count(e, ls[i], f)
                 \/ Count(e, ls[j], f) = Count(e, ls[i], f) /\ j <= i}
  IN  IF Best = {} THEN <<>> ELSE <<ls[CHOOSE j \in Best : TRUE]>>

(* The test of the greedy label's kind is inverted. *)
CandidatesKindInverted(e, ls, f) ==
  LET greedy == GreedyLabel(e, ls, f)
  IN  IF greedy = <<>> THEN e.all[f]
      ELSE LET l == greedy[1]
           IN  IF l.kind = "Mandatory"
                 THEN e.notLabel[l.key][f] \o e.noLabel[f]
                 ELSE e.label[<<l.key, l.value>>][f]

(* The handlers called for a service with labels ls (field "handlers"), or *)
(* the services a new handler with labels ls is called with ("nodes").     *)
Candidates(e, ls, f) ==
  LET greedy == GreedyLabel(e, ls, f)
  IN  IF greedy = <<>> THEN e.all[f]
      ELSE LET l == greedy[1]
           IN  (IF l.kind = "Optional"
                  THEN e.notLabel[l.key][f] \o e.noLabel[f]
                  ELSE <<>>)
               \o e.label[<<l.key, l.value>>][f]

(* UpdateDiscoveryClusters: file x under every label of ls, and under "not *)
(* k" for every known key k it lacks.  A key met for the first time starts *)
(* from everything filed so far, x included.                               *)
UpdateDiscoveryClusters(e, ls, f, x) ==
  LET Put(c) == [c EXCEPT ![f] = Append(@, x)]
      all == Put(e.all)
      seen == e.seen \cup KeysOf(ls)
      start == [k \in Keys |-> IF k \in seen \ e.seen THEN all ELSE e.notLabel[k]]
  IN  IF ls = <<>>
        THEN [e EXCEPT !.all = all, !.noLabel = Put(@)]
        ELSE [e EXCEPT
                !.all = all,
                !.seen = seen,
                !.notLabel =
                  [k \in Keys |-> IF k \in seen \ KeysOf(ls) THEN Put(start[k]) ELSE start[k]],
                !.label =
                  [kv \in Keys \X Values |->
                     IF kv[1] \in KeysOf(ls) /\ TryFindLabelByKey(kv[1], ls).value = kv[2]
                       THEN Put(@[kv]) ELSE @[kv]]]

(* std::remove and erase, on a vector of services. *)
Erase(seq, s) ==
  LET kept[i \in 0..Len(seq)] ==
        IF i = 0 THEN <<>>
        ELSE IF seq[i] = s THEN kept[i - 1] ELSE Append(kept[i - 1], seq[i])
  IN  kept[Len(seq)]

(* Removal forgets the cluster of all, so that a handler that registers    *)
(* without labels is still told of the service.                            *)
RemoveKeepsAll(e, s) ==
  LET Drop(c) == [c EXCEPT !.nodes = Erase(@, s)]
  IN  [e EXCEPT !.noLabel = Drop(@),
                !.notLabel = [k \in Keys |-> Drop(@[k])],
                !.label = [kv \in Keys \X Values |-> Drop(@[kv])]]

(* Removal forgets the clusters of the labels. *)
RemoveKeepsLabels(e, s) ==
  LET Drop(c) == [c EXCEPT !.nodes = Erase(@, s)]
  IN  [e EXCEPT !.all = Drop(@), !.noLabel = Drop(@),
                !.notLabel = [k \in Keys |-> Drop(@[k])]]

RemoveLookupNode(e, s) ==
  LET Drop(c) == [c EXCEPT !.nodes = Erase(@, s)]
  IN  [e EXCEPT !.all = Drop(@), !.noLabel = Drop(@),
                !.notLabel = [k \in Keys |-> Drop(@[k])],
                !.label = [kv \in Keys \X Values |-> Drop(@[kv])]]

Occurrences(x, seq) == Cardinality({i \in DOMAIN seq : seq[i] = x})

-----------------------------------------------------------------------------
Init ==
  /\ labels \in [Services \cup Handlers -> LabelLists]
  /\ live = {} /\ gone = {} /\ handlers = {}
  /\ entry = EmptyEntry
  /\ told = [h \in Handlers |-> [s \in Services |-> 0]]
  /\ untold = [h \in Handlers |-> [s \in Services |-> 0]]

(* ServiceChange(ServiceCreated): call the candidate handlers, then file.  *)
ServiceCreated(s) ==
  /\ s \notin live \cup gone
  /\ live' = live \cup {s}
  /\ LET called == Candidates(entry, labels[s], "handlers")
     IN  /\ told' = [h \in Handlers |->
                       [told[h] EXCEPT ![s] = @ + Occurrences(h, called)]]
         /\ entry' = UpdateDiscoveryClusters(LookedUp(entry, labels[s], "handlers"),
                                             labels[s], "nodes", s)
  /\ UNCHANGED <<labels, gone, handlers, untold>>

ServiceRemoved(s) ==
  /\ s \in live
  /\ live' = live \ {s}
  /\ gone' = gone \cup {s}
  /\ LET called == Candidates(entry, labels[s], "handlers")
     IN  /\ untold' = [h \in Handlers |->
                         [untold[h] EXCEPT ![s] = @ + Occurrences(h, called)]]
         /\ entry' = RemoveLookupNode(LookedUp(entry, labels[s], "handlers"), s)
  /\ UNCHANGED <<labels, handlers, told>>

RegisterSpecificServiceDiscoveryHandler(h) ==
  /\ h \notin handlers
  /\ handlers' = handlers \cup {h}
  /\ LET with == Candidates(entry, labels[h], "nodes")
     IN  /\ told' = [told EXCEPT ![h] =
                       [s \in Services |-> @[s] + Occurrences(s, with)]]
         /\ entry' = UpdateDiscoveryClusters(LookedUp(entry, labels[h], "nodes"),
                                             labels[h], "handlers", h)
  /\ UNCHANGED <<labels, live, gone, untold>>

Next ==
  \/ \E s \in Services : ServiceCreated(s) \/ ServiceRemoved(s)
  \/ \E h \in Handlers : RegisterSpecificServiceDiscoveryHandler(h)

Spec == Init /\ [][Next]_vars

-----------------------------------------------------------------------------
(* Types. *)
Cluster == [nodes : Seq(Services), handlers : Seq(Handlers)]

(* Every variable keeps its type. *)
TypeOK ==
  /\ labels \in [Services \cup Handlers -> LabelLists]
  /\ live \subseteq Services /\ gone \subseteq Services /\ handlers \subseteq Handlers
  /\ entry \in [all : Cluster, noLabel : Cluster, seen : SUBSET Keys,
                label : [Keys \X Values -> Cluster], notLabel : [Keys -> Cluster]]
  /\ told \in [Handlers -> [Services -> Nat]]
  /\ untold \in [Handlers -> [Services -> Nat]]

(* seq holds every member of S exactly once, and nothing else. *)
Lists(seq, S) ==
  /\ {seq[i] : i \in DOMAIN seq} = S
  /\ \A i, j \in DOMAIN seq : seq[i] = seq[j] => i = j

Filed(c, X) == Lists(c.nodes, live \cap X) /\ Lists(c.handlers, handlers \cap X)

Unlabelled == {x \in Services \cup Handlers : labels[x] = <<>>}
Carriers(k, v) ==
  {x \in Services \cup Handlers :
     k \in KeysOf(labels[x]) /\ TryFindLabelByKey(k, labels[x]).value = v}

(* After any sequence of announcements, removals and registrations, the    *)
(* clusters for all, for no label and for every label hold exactly the     *)
(* services that exist and the handlers registered that belong there, once *)
(* each; no cluster still holds a service that was removed.                *)
ClustersExact ==
  /\ Filed(entry.all, Services \cup Handlers)
  /\ Filed(entry.noLabel, Unlabelled)
  /\ \A k \in Keys, v \in Values : Filed(entry.label[<<k, v>>], Carriers(k, v))
  /\ \A k \in Keys : \A i \in DOMAIN entry.notLabel[k].nodes : entry.notLabel[k].nodes[i] \in live

MandatoryOnly(x) == \A i \in DOMAIN labels[x] : labels[x][i].kind = "Mandatory"

(* Whoever arrives or leaves with mandatory labels only (or none) meets    *)
(* every party that matches, whatever labels that one has, exactly once:   *)
(* a new handler is called with each matching service, each matching       *)
(* handler with a new service, and with its removal.  The greedy label     *)
(* filters nobody out who would have matched.                              *)
MandatoryMeetsAll ==
  [][/\ \A h \in handlers' \ handlers, s \in live :
          MandatoryOnly(h) /\ MatchLabels(labels[h], labels[s])
            => told'[h][s] = told[h][s] + 1
     /\ \A s \in live' \ live, h \in handlers :
          MandatoryOnly(s) /\ MatchLabels(labels[h], labels[s])
            => told'[h][s] = told[h][s] + 1
     /\ \A s \in live \ live', h \in handlers :
          MandatoryOnly(s) /\ MatchLabels(labels[h], labels[s])
            => untold'[h][s] = untold[h][s] + 1]_vars

(* Creations and removals are told in pairs: of parties with mandatory     *)
(* labels only that match, a handler has been told once of every service   *)
(* there is, and twice (created and removed) or never of one that is gone, *)
(* although it may register at any moment and the clusters, and with them  *)
(* the greedy label, change between the two calls.  RpcClient counts its   *)
(* servers up and down with these calls, in an unsigned number, and        *)
(* DataSubscriber creates and removes its internal subscribers.            *)
NoticesPair ==
  \A h \in Handlers, s \in Services :
    MandatoryOnly(h) /\ MandatoryOnly(s) /\ MatchLabels(labels[h], labels[s])
      => /\ told[h][s] = untold[h][s] + (IF h \in handlers /\ s \in live THEN 1 ELSE 0)
         /\ untold[h][s] <= (IF s \in gone THEN 1 ELSE 0)

(* What the documentation of labels promises: an optional label matches a  *)
(* party that lacks its key, so every matching handler has been told of    *)
(* every service there is.                                                 *)
NoMatchMissed ==
  \A h \in handlers, s \in live : MatchLabels(labels[h], labels[s]) => told[h][s] >= 1

=============================================================================
