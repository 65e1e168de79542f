-------------------------- MODULE DiscoveryProofs --------------------------
(***************************************************************************)
(* Proofs about DiscoveryStore, for any services, handlers, labels and     *)
(* label lists: types, that the clusters are exact, that nobody with       *)
(* mandatory labels misses a match, and that creations and removals are    *)
(* told in pairs.                                                          *)
(***************************************************************************)
EXTENDS DiscoveryStore, WellFoundedInduction, FiniteSetTheorems, TLAPS

-----------------------------------------------------------------------------
(* Lists of services and handlers. *)

(* Induction, with a set in place of a predicate.                          *)
LEMMA SetInduction ==
  ASSUME NEW S \in SUBSET Nat, 0 \in S, \A n \in S : n + 1 \in S
  PROVE  S = Nat
<1>1. SUFFICES ASSUME Nat \ S # {} PROVE FALSE
  OBVIOUS
<1>2. PICK x \in Nat \ S : \A y \in Nat \ S : ~ (<<y, x>> \in OpToRel(<, Nat))
  BY <1>1, NatLessThanWellFounded, WFMin
<1>3. \A y \in Nat : y < x => y \in S
  <2> SUFFICES ASSUME NEW y \in Nat, y < x, y \notin S PROVE FALSE
    OBVIOUS
  <2>1. <<y, x>> \in OpToRel(<, Nat)
    BY DEF OpToRel
  <2> QED BY <2>1, <1>2
<1>4. x - 1 \in Nat /\ x - 1 < x
  OBVIOUS
<1>5. (x - 1) + 1 \in S
  BY <1>3, <1>4
<1>6. (x - 1) + 1 = x
  OBVIOUS
<1> QED BY <1>5, <1>6

(* k is what the loop of Erase has kept of the first n elements of seq.    *)
Keeps(seq, s, n, k) ==
  /\ k \in [0..n -> Seq(Services)]
  /\ k[0] = <<>>
  /\ \A i \in 1..n : k[i] = IF seq[i] = s THEN k[i - 1] ELSE Append(k[i - 1], seq[i])

LEMMA KeepsExists ==
  ASSUME NEW seq \in Seq(Services), NEW s
  PROVE  \E k : Keeps(seq, s, Len(seq), k)
<1> DEFINE S == {n \in Nat : n <= Len(seq) => \E k : Keeps(seq, s, n, k)}
<1>1. 0 \in S
  <2>1. Keeps(seq, s, 0, [i \in 0..0 |-> <<>>])
    BY DEF Keeps
  <2> QED BY <2>1
<1>2. ASSUME NEW n \in S PROVE n + 1 \in S
  <2> SUFFICES ASSUME n + 1 <= Len(seq) PROVE \E k : Keeps(seq, s, n + 1, k)
    OBVIOUS
  <2>1. PICK k : Keeps(seq, s, n, k)
    OBVIOUS
  <2>2. PICK last : last = IF seq[n + 1] = s THEN k[n] ELSE Append(k[n], seq[n + 1])
    OBVIOUS
  <2>3. k[n] \in Seq(Services) /\ seq[n + 1] \in Services
    BY <2>1 DEF Keeps
  <2>4. last \in Seq(Services)
    BY <2>2, <2>3
  <2>5. PICK g : g = [i \in 0..(n + 1) |-> IF i = n + 1 THEN last ELSE k[i]]
    OBVIOUS
  <2>6. g \in [0..(n + 1) -> Seq(Services)] /\ g[0] = <<>>
    BY <2>1, <2>4, <2>5 DEF Keeps
  <2>7. ASSUME NEW i \in 1..(n + 1)
        PROVE  g[i] = IF seq[i] = s THEN g[i - 1] ELSE Append(g[i - 1], seq[i])
    <3>1. CASE i = n + 1
      <4>1. g[i] = last /\ g[i - 1] = k[n]
        BY <3>1, <2>5
      <4> QED BY <4>1, <3>1, <2>2
    <3>2. CASE i # n + 1
      <4>1. i \in 1..n /\ g[i] = k[i] /\ g[i - 1] = k[i - 1]
        BY <3>2, <2>5
      <4> QED BY <4>1, <2>1 DEF Keeps
    <3> QED BY <3>1, <3>2
  <2> QED BY <2>6, <2>7 DEF Keeps
<1>3. S = Nat
  <2> HIDE DEF S
  <2>1. S \in SUBSET Nat
    BY DEF S
  <2> QED BY <1>1, <1>2, <2>1, SetInduction
<1>4. Len(seq) \in S
  <2> HIDE DEF S
  <2>1. Len(seq) \in Nat
    OBVIOUS
  <2> QED BY <1>3, <2>1
<1> QED BY <1>4

LEMMA EraseKeeps ==
  ASSUME NEW seq \in Seq(Services), NEW s
  PROVE  \E k : Keeps(seq, s, Len(seq), k) /\ Erase(seq, s) = k[Len(seq)]
<1> DEFINE Is(f) == f = [i \in 0..Len(seq) |->
                          IF i = 0 THEN <<>>
                          ELSE IF seq[i] = s THEN f[i - 1] ELSE Append(f[i - 1], seq[i])]
<1>1. PICK g : Keeps(seq, s, Len(seq), g)
  BY KeepsExists
<1>2. Is(g)
  <2>1. ASSUME NEW i \in 0..Len(seq)
        PROVE  g[i] = IF i = 0 THEN <<>>
                      ELSE IF seq[i] = s THEN g[i - 1] ELSE Append(g[i - 1], seq[i])
    <3>1. i = 0 \/ i \in 1..Len(seq)
      OBVIOUS
    <3>2. i \in 1..Len(seq) => i # 0
      OBVIOUS
    <3> QED BY <1>1, <3>1, <3>2 DEF Keeps
  <2>2. g = [i \in 0..Len(seq) |-> g[i]]
    BY <1>1 DEF Keeps
  <2> QED BY <2>1, <2>2
<1>3. PICK f : f = CHOOSE x : Is(x)
  OBVIOUS
<1>4. Is(f)
  BY <1>2, <1>3
<1>5. Erase(seq, s) = f[Len(seq)]
  BY <1>3 DEF Erase
<1>8. /\ f = [i \in 0..Len(seq) |-> f[i]] /\ f[0] = <<>>
      /\ \A i \in 1..Len(seq) : f[i] = IF seq[i] = s THEN f[i - 1] ELSE Append(f[i - 1], seq[i])
  <2>1. \A i \in 1..Len(seq) : i \in 0..Len(seq) /\ i # 0
    OBVIOUS
  <2>2. 0 \in 0..Len(seq)
    OBVIOUS
  <2>3. \A i \in 0..Len(seq) : f[i] = IF i = 0 THEN <<>>
                      ELSE IF seq[i] = s THEN f[i - 1] ELSE Append(f[i - 1], seq[i])
    BY <1>4, Zenon
  <2>4. f = [i \in 0..Len(seq) |-> f[i]]
    BY <1>4, Zenon
  <2> QED BY <2>1, <2>2, <2>3, <2>4
<1> HIDE DEF Is
<1>6. \A i \in 0..Len(seq) : f[i] \in Seq(Services)
  <2> DEFINE S == {n \in Nat : n <= Len(seq) => f[n] \in Seq(Services)}
  <2>1. 0 \in S
    BY <1>8
  <2>2. ASSUME NEW n \in S PROVE n + 1 \in S
    <3> SUFFICES ASSUME n + 1 <= Len(seq) PROVE f[n + 1] \in Seq(Services)
      OBVIOUS
    <3>1. f[n] \in Seq(Services) /\ seq[n + 1] \in Services
      OBVIOUS
    <3>2. f[n + 1] = IF seq[n + 1] = s THEN f[n] ELSE Append(f[n], seq[n + 1])
      <4>1. n + 1 \in 1..Len(seq) /\ (n + 1) - 1 = n
        OBVIOUS
      <4> QED BY <1>8, <4>1
    <3> QED BY <3>1, <3>2
  <2>3. S = Nat
    <3> HIDE DEF S
    <3>1. S \in SUBSET Nat
      BY DEF S
    <3> QED BY <2>1, <2>2, <3>1, SetInduction
  <2> QED BY <2>3
<1>7. Keeps(seq, s, Len(seq), f)
  BY <1>6, <1>8 DEF Keeps
<1> QED BY <1>5, <1>7

Elements(seq) == {seq[i] : i \in DOMAIN seq}
Injective(seq) == \A i, j \in DOMAIN seq : seq[i] = seq[j] => i = j

LEMMA AppendElements ==
  ASSUME NEW T, NEW q \in Seq(T), NEW x \in T
  PROVE  /\ Append(q, x) \in Seq(T) /\ Elements(Append(q, x)) = Elements(q) \cup {x}
         /\ Injective(q) /\ x \notin Elements(q) => Injective(Append(q, x))
<1>1. PICK r : r = Append(q, x)
  OBVIOUS
<1>2. Append(q, x) \in Seq(T)
  OBVIOUS
<1>3. /\ Len(r) = Len(q) + 1 /\ DOMAIN r = 1..Len(r) /\ DOMAIN q = 1..Len(q)
      /\ r[Len(q) + 1] = x /\ \A i \in 1..Len(q) : r[i] = q[i]
  BY <1>1
<1>4. Elements(r) = Elements(q) \cup {x}
  <2>1. \A i \in DOMAIN r : i \in DOMAIN q \/ i = Len(q) + 1
    BY <1>3
  <2>2. \A i \in DOMAIN q : i \in DOMAIN r /\ r[i] = q[i]
    BY <1>3
  <2>3. Len(q) + 1 \in DOMAIN r
    BY <1>3
  <2> QED BY <1>3, <2>1, <2>2, <2>3 DEF Elements
<1>5. ASSUME Injective(q), x \notin Elements(q) PROVE Injective(r)
  <2> SUFFICES ASSUME NEW i \in DOMAIN r, NEW j \in DOMAIN r, r[i] = r[j] PROVE i = j
    BY DEF Injective
  <2>1. \A k \in DOMAIN r : k \in DOMAIN q \/ k = Len(q) + 1
    BY <1>3
  <2>2. \A k \in DOMAIN q : r[k] = q[k] /\ r[k] # x
    BY <1>3, <1>5 DEF Elements
  <2> QED BY <1>3, <1>5, <2>1, <2>2 DEF Injective
<1> QED BY <1>1, <1>2, <1>4, <1>5

(* What is left of a list. *)
LEMMA EraseElements ==
  ASSUME NEW seq \in Seq(Services), NEW s
  PROVE  /\ Erase(seq, s) \in Seq(Services)
         /\ Elements(Erase(seq, s)) = Elements(seq) \ {s}
         /\ Injective(seq) => Injective(Erase(seq, s))
<1>1. PICK k : Keeps(seq, s, Len(seq), k) /\ Erase(seq, s) = k[Len(seq)]
  BY EraseKeeps
<1> DEFINE First(n) == {seq[i] : i \in 1..n} \ {s}
           S == {n \in Nat : n <= Len(seq) => /\ k[n] \in Seq(Services) /\ Elements(k[n]) = First(n)
                                              /\ Injective(seq) => Injective(k[n])}
<1>2. 0 \in S
  <2>1. k[0] = <<>> /\ DOMAIN k[0] = {}
    BY <1>1 DEF Keeps
  <2>2. 1..0 = {}
    OBVIOUS
  <2>3. Elements(k[0]) = {} /\ Injective(k[0]) /\ k[0] \in Seq(Services)
    BY <2>1 DEF Elements, Injective
  <2>4. First(0) = {}
    BY <2>2
  <2> QED BY <2>3, <2>4
<1>3. ASSUME NEW n \in S PROVE n + 1 \in S
  <2> SUFFICES ASSUME n + 1 <= Len(seq)
               PROVE  /\ k[n + 1] \in Seq(Services) /\ Elements(k[n + 1]) = First(n + 1)
                      /\ Injective(seq) => Injective(k[n + 1])
    OBVIOUS
  <2>1. /\ k[n] \in Seq(Services) /\ Elements(k[n]) = First(n) /\ n \in Nat
        /\ Injective(seq) => Injective(k[n])
    OBVIOUS
  <2>2. PICK x : x = seq[n + 1]
    OBVIOUS
  <2>3. x \in Services
    BY <2>2
  <2>4. k[n + 1] = IF x = s THEN k[n] ELSE Append(k[n], x)
    <3>1. n + 1 \in 1..Len(seq) /\ (n + 1) - 1 = n
      OBVIOUS
    <3> QED BY <1>1, <2>2, <3>1 DEF Keeps
  <2>5. First(n + 1) = First(n) \cup ({x} \ {s})
    <3>1. \A i \in 1..(n + 1) : i \in 1..n \/ i = n + 1
      BY <2>1
    <3>2. n + 1 \in 1..(n + 1)
      BY <2>1
    <3>3. \A i \in 1..n : i \in 1..(n + 1)
      BY <2>1
    <3> QED BY <2>2, <3>1, <3>2, <3>3
  <2>6. Injective(seq) => x \notin First(n)
    <3>1. \A i \in 1..n : i \in DOMAIN seq /\ i # n + 1
      BY <2>1
    <3>2. n + 1 \in DOMAIN seq
      BY <2>1
    <3> QED BY <2>2, <3>1, <3>2 DEF Injective
  <2> HIDE DEF S, First
  <2>7. CASE x = s
    BY <2>1, <2>4, <2>5, <2>7
  <2>8. CASE x # s
    <3>1. /\ Append(k[n], x) \in Seq(Services)
          /\ Elements(Append(k[n], x)) = Elements(k[n]) \cup {x}
          /\ Injective(k[n]) /\ x \notin Elements(k[n]) => Injective(Append(k[n], x))
      BY <2>1, <2>3, AppendElements
    <3> QED BY <2>1, <2>4, <2>5, <2>6, <2>8, <3>1
  <2> QED BY <2>7, <2>8
<1>4. S = Nat
  <2> HIDE DEF S
  <2>1. S \in SUBSET Nat
    BY DEF S
  <2> QED BY <1>2, <1>3, <2>1, SetInduction
<1>5. Len(seq) \in S /\ First(Len(seq)) = Elements(seq) \ {s}
  BY <1>4, SMTT(30) DEF Elements
<1> QED BY <1>1, <1>5

LEMMA ListsAre ==
  ASSUME NEW seq, NEW S
  PROVE  Lists(seq, S) <=> Elements(seq) = S /\ Injective(seq)
BY DEF Lists, Elements, Injective

(* Whoever is in a list of this kind is called once, and the number of     *)
(* calls is a number.                                                      *)
LEMMA OccursOnce ==
  ASSUME NEW T, NEW q \in Seq(T), NEW S, Lists(q, S), NEW x \in S
  PROVE  Occurrences(x, q) = 1
<1>1. PICK i \in DOMAIN q : q[i] = x
  BY DEF Lists
<1>2. {j \in DOMAIN q : q[j] = x} = {i}
  BY <1>1 DEF Lists
<1> QED BY <1>2, FS_Singleton DEF Occurrences

LEMMA OccurrencesType ==
  ASSUME NEW T, NEW q \in Seq(T), NEW x
  PROVE  Occurrences(x, q) \in Nat
<1>1. DOMAIN q = 1..Len(q) /\ Len(q) \in Nat
  OBVIOUS
<1>2. IsFiniteSet(1..Len(q))
  BY <1>1, FS_Interval
<1>3. {j \in DOMAIN q : q[j] = x} \subseteq 1..Len(q)
  BY <1>1
<1>4. IsFiniteSet({j \in DOMAIN q : q[j] = x})
  BY <1>2, <1>3, FS_Subset
<1> QED BY <1>4, FS_CardinalityType DEF Occurrences

-----------------------------------------------------------------------------
(* Clusters. *)

Entry == [all : Cluster, noLabel : Cluster, seen : SUBSET Keys,
          label : [Keys \X Values -> Cluster], notLabel : [Keys -> Cluster]]

(* Filed, for given sets of services and handlers. *)
FiledFor(c, X, L, H) == Lists(c.nodes, L \cap X) /\ Lists(c.handlers, H \cap X)

(* x is added to, or not added to, the field f of the cluster. *)
Put(c, f, x) == [c EXCEPT ![f] = Append(@, x)]

LEMMA PutNode ==
  ASSUME NEW c \in Cluster, NEW s \in Services
  PROVE  /\ Put(c, "nodes", s) \in Cluster
         /\ \A L, H, X : FiledFor(c, X, L, H) /\ s \notin L =>
              /\ s \in X => FiledFor(Put(c, "nodes", s), X, L \cup {s}, H)
              /\ s \notin X => FiledFor(c, X, L \cup {s}, H)
         /\ Elements(Put(c, "nodes", s).nodes) = Elements(c.nodes) \cup {s}
<1>1. PICK d : d = Put(c, "nodes", s)
  OBVIOUS
<1>2. c.nodes \in Seq(Services) /\ c.handlers \in Seq(Handlers)
  BY DEF Cluster
<1>3. d = [c EXCEPT !.nodes = Append(c.nodes, s)]
  BY <1>1 DEF Put, Cluster
<1>4. /\ Append(c.nodes, s) \in Seq(Services)
      /\ Elements(Append(c.nodes, s)) = Elements(c.nodes) \cup {s}
      /\ Injective(c.nodes) /\ s \notin Elements(c.nodes) => Injective(Append(c.nodes, s))
  BY <1>2, AppendElements
<1>5. d \in Cluster /\ d.nodes = Append(c.nodes, s) /\ d.handlers = c.handlers
  BY <1>2, <1>3, <1>4 DEF Cluster
<1>6. ASSUME NEW L, NEW H, NEW X, FiledFor(c, X, L, H), s \notin L
      PROVE  /\ s \in X => FiledFor(d, X, L \cup {s}, H)
             /\ s \notin X => FiledFor(c, X, L \cup {s}, H)
  <2>1. CASE s \in X
    <3>1. Elements(c.nodes) = L \cap X /\ Injective(c.nodes)
      BY <1>6, ListsAre DEF FiledFor
    <3>2. Lists(d.nodes, (L \cup {s}) \cap X)
      <4>1. Elements(d.nodes) = (L \cup {s}) \cap X
        BY <1>4, <1>5, <2>1, <3>1
      <4>2. Injective(d.nodes)
        BY <1>4, <1>5, <1>6, <3>1
      <4> QED BY <4>1, <4>2, ListsAre
    <3> QED BY <2>1, <3>2, <1>5, <1>6 DEF FiledFor
  <2>2. CASE s \notin X
    <3>1. (L \cup {s}) \cap X = L \cap X
      BY <2>2
    <3> QED BY <2>2, <3>1, <1>6 DEF FiledFor
  <2> QED BY <2>1, <2>2
<1> QED BY <1>1, <1>4, <1>5, <1>6

LEMMA PutHandler ==
  ASSUME NEW c \in Cluster, NEW h \in Handlers
  PROVE  /\ Put(c, "handlers", h) \in Cluster
         /\ \A L, H, X : FiledFor(c, X, L, H) /\ h \notin H =>
              /\ h \in X => FiledFor(Put(c, "handlers", h), X, L, H \cup {h})
              /\ h \notin X => FiledFor(c, X, L, H \cup {h})
         /\ Put(c, "handlers", h).nodes = c.nodes
<1>1. PICK d : d = Put(c, "handlers", h)
  OBVIOUS
<1>2. c.nodes \in Seq(Services) /\ c.handlers \in Seq(Handlers)
  BY DEF Cluster
<1>3. d = [c EXCEPT !.handlers = Append(c.handlers, h)]
  BY <1>1 DEF Put, Cluster
<1>4. /\ Append(c.handlers, h) \in Seq(Handlers)
      /\ Elements(Append(c.handlers, h)) = Elements(c.handlers) \cup {h}
      /\ Injective(c.handlers) /\ h \notin Elements(c.handlers) => Injective(Append(c.handlers, h))
  BY <1>2, AppendElements
<1>5. d \in Cluster /\ d.handlers = Append(c.handlers, h) /\ d.nodes = c.nodes
  BY <1>2, <1>3, <1>4 DEF Cluster
<1>6. ASSUME NEW L, NEW H, NEW X, FiledFor(c, X, L, H), h \notin H
      PROVE  /\ h \in X => FiledFor(d, X, L, H \cup {h})
             /\ h \notin X => FiledFor(c, X, L, H \cup {h})
  <2>1. CASE h \in X
    <3>1. Elements(c.handlers) = H \cap X /\ Injective(c.handlers)
      BY <1>6, ListsAre DEF FiledFor
    <3>2. Lists(d.handlers, (H \cup {h}) \cap X)
      <4>1. Elements(d.handlers) = (H \cup {h}) \cap X
        BY <1>4, <1>5, <2>1, <3>1
      <4>2. Injective(d.handlers)
        BY <1>4, <1>5, <1>6, <3>1
      <4> QED BY <4>1, <4>2, ListsAre
    <3> QED BY <2>1, <3>2, <1>5, <1>6 DEF FiledFor
  <2>2. CASE h \notin X
    <3>1. (H \cup {h}) \cap X = H \cap X
      BY <2>2
    <3> QED BY <2>2, <3>1, <1>6 DEF FiledFor
  <2> QED BY <2>1, <2>2
<1> QED BY <1>1, <1>5, <1>6

Drop(c, s) == [c EXCEPT !.nodes = Erase(@, s)]

LEMMA DropNode ==
  ASSUME NEW c \in Cluster, NEW s
  PROVE  /\ Drop(c, s) \in Cluster
         /\ \A L, H, X : FiledFor(c, X, L, H) => FiledFor(Drop(c, s), X, L \ {s}, H)
         /\ Elements(Drop(c, s).nodes) = Elements(c.nodes) \ {s}
<1>1. PICK d : d = Drop(c, s)
  OBVIOUS
<1>2. c.nodes \in Seq(Services) /\ c.handlers \in Seq(Handlers)
  BY DEF Cluster
<1>3. d = [c EXCEPT !.nodes = Erase(c.nodes, s)]
  BY <1>1 DEF Drop, Cluster
<1>4. /\ Erase(c.nodes, s) \in Seq(Services)
      /\ Elements(Erase(c.nodes, s)) = Elements(c.nodes) \ {s}
      /\ Injective(c.nodes) => Injective(Erase(c.nodes, s))
  BY <1>2, EraseElements
<1>5. d \in Cluster /\ d.nodes = Erase(c.nodes, s) /\ d.handlers = c.handlers
  BY <1>2, <1>3, <1>4 DEF Cluster
<1>6. ASSUME NEW L, NEW H, NEW X, FiledFor(c, X, L, H)
      PROVE  FiledFor(d, X, L \ {s}, H)
  <2>1. Elements(c.nodes) = L \cap X /\ Injective(c.nodes)
    BY <1>6, ListsAre DEF FiledFor
  <2>2. Elements(d.nodes) = (L \ {s}) \cap X /\ Injective(d.nodes)
    BY <1>4, <1>5, <2>1
  <2>3. Lists(d.nodes, (L \ {s}) \cap X)
    BY <2>2, ListsAre
  <2> QED BY <2>3, <1>5, <1>6 DEF FiledFor
<1> QED BY <1>1, <1>4, <1>5, <1>6

-----------------------------------------------------------------------------
(* The invariant, for given sets of services and handlers. *)

Exact(e, L, H) ==
  /\ FiledFor(e.all, Services \cup Handlers, L, H)
  /\ FiledFor(e.noLabel, Unlabelled, L, H)
  /\ \A k \in Keys, v \in Values : FiledFor(e.label[<<k, v>>], Carriers(k, v), L, H)
  /\ \A k \in Keys : Elements(e.notLabel[k].nodes) \subseteq L

LEMMA ExactIs == ClustersExact <=> Exact(entry, live, handlers)
BY DEF ClustersExact, Exact, Filed, FiledFor, Elements

LEMMA EntryTyping ==
  ASSUME NEW e \in Entry
  PROVE  /\ e.all \in Cluster /\ e.noLabel \in Cluster /\ e.seen \subseteq Keys
         /\ e.label \in [Keys \X Values -> Cluster] /\ e.notLabel \in [Keys -> Cluster]
         /\ \A k \in Keys, v \in Values : e.label[<<k, v>>] \in Cluster
<1>1. /\ e.all \in Cluster /\ e.noLabel \in Cluster /\ e.seen \subseteq Keys
      /\ e.label \in [Keys \X Values -> Cluster] /\ e.notLabel \in [Keys -> Cluster]
  BY DEF Entry
<1>2. \A k \in Keys, v \in Values : e.label[<<k, v>>] \in Cluster
  BY <1>1
<1> QED BY <1>1, <1>2

LEMMA ListTyping ==
  ASSUME NEW ls \in LabelLists
  PROVE  /\ ls \in Seq(Label) /\ KeysOf(ls) \subseteq Keys
         /\ \A i \in DOMAIN ls : ls[i].key \in Keys /\ ls[i].value \in Values /\ ls[i].kind \in Kinds
<1>1. ls \in Seq(Label)
  BY LabelsAssumption
<1>2. \A i \in DOMAIN ls : ls[i] \in Label
  BY <1>1
<1>3. \A i \in DOMAIN ls : ls[i].key \in Keys /\ ls[i].value \in Values /\ ls[i].kind \in Kinds
  BY <1>2 DEF Label
<1> QED BY <1>1, <1>3 DEF KeysOf

(* Looking for the greedy label may enter keys, and changes nothing else.  *)
LEMMA LookedUpIs ==
  ASSUME NEW e \in Entry, NEW ls \in LabelLists, NEW f
  PROVE  /\ LookedUp(e, ls, f) \in Entry
         /\ LookedUp(e, ls, f).all = e.all /\ LookedUp(e, ls, f).noLabel = e.noLabel
         /\ LookedUp(e, ls, f).label = e.label /\ LookedUp(e, ls, f).notLabel = e.notLabel
<1>1. PICK K : K = e.seen \cup {ls[j].key : j \in {i \in Counted(e, ls, f) : ls[i].kind = "Optional"}}
  OBVIOUS
<1>2. K \subseteq Keys
  BY <1>1, EntryTyping, ListTyping DEF Counted
<1>3. LookedUp(e, ls, f) = [e EXCEPT !.seen = K]
  BY <1>1 DEF LookedUp
<1> QED BY <1>2, <1>3 DEF Entry

LEMMA UpdateIs ==
  ASSUME NEW e \in Entry, NEW ls \in LabelLists, NEW f, NEW x,
         \A c \in Cluster : Put(c, f, x) \in Cluster,
         NEW n, n = UpdateDiscoveryClusters(e, ls, f, x)
  PROVE  /\ n \in Entry /\ n.all = Put(e.all, f, x)
         /\ n.noLabel = IF ls = <<>> THEN Put(e.noLabel, f, x) ELSE e.noLabel
         /\ \A k \in Keys, v \in Values :
              n.label[<<k, v>>] =
                IF k \in KeysOf(ls) /\ TryFindLabelByKey(k, ls).value = v
                  THEN Put(e.label[<<k, v>>], f, x) ELSE e.label[<<k, v>>]
         /\ \A k \in Keys :
              n.notLabel[k] \in {e.notLabel[k], Put(e.notLabel[k], f, x), Put(e.all, f, x),
                                 Put(Put(e.all, f, x), f, x)}
<1>1. PICK all : all = Put(e.all, f, x)
  OBVIOUS
<1>2. PICK seen : seen = e.seen \cup KeysOf(ls)
  OBVIOUS
<1>3. PICK start : start = [k \in Keys |-> IF k \in seen \ e.seen THEN all ELSE e.notLabel[k]]
  OBVIOUS
<1>4. PICK not : not = [k \in Keys |-> IF k \in seen \ KeysOf(ls) THEN Put(start[k], f, x)
                                      ELSE start[k]]
  OBVIOUS
<1>5. PICK lab : lab = [kv \in Keys \X Values |->
                     IF kv[1] \in KeysOf(ls) /\ TryFindLabelByKey(kv[1], ls).value = kv[2]
                       THEN Put(e.label[kv], f, x) ELSE e.label[kv]]
  OBVIOUS
<1>6. n = IF ls = <<>> THEN [e EXCEPT !.all = all, !.noLabel = Put(@, f, x)]
          ELSE [e EXCEPT !.all = all, !.seen = seen, !.notLabel = not, !.label = lab]
  BY <1>1, <1>2, <1>3, <1>4, <1>5 DEF UpdateDiscoveryClusters, Put
<1>7. /\ e.all \in Cluster /\ e.noLabel \in Cluster /\ e.seen \subseteq Keys
      /\ e.label \in [Keys \X Values -> Cluster] /\ e.notLabel \in [Keys -> Cluster]
  BY EntryTyping
<1>8. all \in Cluster /\ seen \subseteq Keys /\ Put(e.noLabel, f, x) \in Cluster
  BY <1>1, <1>2, <1>7, ListTyping
<1>9. start \in [Keys -> Cluster]
  BY <1>3, <1>7, <1>8
<1>10. not \in [Keys -> Cluster]
  BY <1>4, <1>9
<1>11. lab \in [Keys \X Values -> Cluster]
  <2>1. \A kv \in Keys \X Values : e.label[kv] \in Cluster
    BY <1>7
  <2> QED BY <1>5, <2>1
<1>12. CASE ls = <<>>
  <2>1. n = [e EXCEPT !.all = all, !.noLabel = Put(e.noLabel, f, x)]
    BY <1>6, <1>12 DEF Entry
  <2>2. /\ n \in Entry /\ n.all = all /\ n.noLabel = Put(e.noLabel, f, x)
        /\ n.label = e.label /\ n.notLabel = e.notLabel
    BY <1>7, <1>8, <2>1 DEF Entry
  <2>3. KeysOf(ls) = {}
    BY <1>12 DEF KeysOf
  <2> QED BY <1>1, <1>12, <2>2, <2>3
<1>13. CASE ls # <<>>
  <2>1. n = [e EXCEPT !.all = all, !.seen = seen, !.notLabel = not, !.label = lab]
    BY <1>6, <1>13
  <2>2. /\ n \in Entry /\ n.all = all /\ n.noLabel = e.noLabel
        /\ n.label = lab /\ n.notLabel = not
    BY <1>7, <1>8, <1>10, <1>11, <2>1 DEF Entry
  <2>3. \A k \in Keys, v \in Values :
          lab[<<k, v>>] = IF k \in KeysOf(ls) /\ TryFindLabelByKey(k, ls).value = v
                            THEN Put(e.label[<<k, v>>], f, x) ELSE e.label[<<k, v>>]
    BY <1>5
  <2>4. \A k \in Keys : not[k] \in {e.notLabel[k], Put(e.notLabel[k], f, x), Put(e.all, f, x),
                                    Put(Put(e.all, f, x), f, x)}
    <3>1. \A k \in Keys : start[k] = e.notLabel[k] \/ start[k] = Put(e.all, f, x)
      BY <1>1, <1>3
    <3>2. \A k \in Keys : not[k] = Put(start[k], f, x) \/ not[k] = start[k]
      BY <1>4
    <3> QED BY <3>1, <3>2
  <2> QED BY <1>1, <1>13, <2>2, <2>3, <2>4
<1> QED BY <1>12, <1>13

LEMMA InsertNode ==
  ASSUME TypeOK, NEW e \in Entry, NEW s \in Services, s \notin live, Exact(e, live, handlers),
         NEW n, n = UpdateDiscoveryClusters(e, labels[s], "nodes", s)
  PROVE  n \in Entry /\ Exact(n, live \cup {s}, handlers)
<1>1. PICK ls \in LabelLists : ls = labels[s]
  BY DEF TypeOK
<1>2. \A c \in Cluster : Put(c, "nodes", s) \in Cluster
  BY PutNode
<1>3. /\ n \in Entry /\ n.all = Put(e.all, "nodes", s)
      /\ n.noLabel = IF ls = <<>> THEN Put(e.noLabel, "nodes", s) ELSE e.noLabel
      /\ \A k \in Keys, v \in Values :
           n.label[<<k, v>>] =
             IF k \in KeysOf(ls) /\ TryFindLabelByKey(k, ls).value = v
               THEN Put(e.label[<<k, v>>], "nodes", s) ELSE e.label[<<k, v>>]
      /\ \A k \in Keys :
           n.notLabel[k] \in {e.notLabel[k], Put(e.notLabel[k], "nodes", s), Put(e.all, "nodes", s),
                              Put(Put(e.all, "nodes", s), "nodes", s)}
  BY <1>1, <1>2, UpdateIs
<1>4. /\ e.all \in Cluster /\ e.noLabel \in Cluster /\ e.notLabel \in [Keys -> Cluster]
      /\ \A k \in Keys, v \in Values : e.label[<<k, v>>] \in Cluster
  BY EntryTyping
<1>5. ASSUME NEW c \in Cluster, NEW X, FiledFor(c, X, live, handlers)
      PROVE  /\ s \in X => FiledFor(Put(c, "nodes", s), X, live \cup {s}, handlers)
             /\ s \notin X => FiledFor(c, X, live \cup {s}, handlers)
  BY <1>5, PutNode
<1>6. FiledFor(n.all, Services \cup Handlers, live \cup {s}, handlers)
  BY <1>3, <1>4, <1>5 DEF Exact
<1>7. FiledFor(n.noLabel, Unlabelled, live \cup {s}, handlers)
  <2>1. s \in Unlabelled <=> ls = <<>>
    BY <1>1 DEF Unlabelled
  <2>2. FiledFor(e.noLabel, Unlabelled, live, handlers)
    BY DEF Exact
  <2> QED BY <1>3, <1>4, <1>5, <2>1, <2>2
<1>8. ASSUME NEW k \in Keys, NEW v \in Values
      PROVE  FiledFor(n.label[<<k, v>>], Carriers(k, v), live \cup {s}, handlers)
  <2>1. s \in Carriers(k, v) <=> k \in KeysOf(ls) /\ TryFindLabelByKey(k, ls).value = v
    BY <1>1 DEF Carriers
  <2>2. FiledFor(e.label[<<k, v>>], Carriers(k, v), live, handlers)
    BY DEF Exact
  <2>3. e.label[<<k, v>>] \in Cluster
    BY <1>4
  <2>4. CASE s \in Carriers(k, v)
    <3>1. n.label[<<k, v>>] = Put(e.label[<<k, v>>], "nodes", s)
      BY <1>3, <2>1, <2>4
    <3> QED BY <1>5, <2>2, <2>3, <2>4, <3>1
  <2>5. CASE s \notin Carriers(k, v)
    <3>1. n.label[<<k, v>>] = e.label[<<k, v>>]
      BY <1>3, <2>1, <2>5
    <3> QED BY <1>5, <2>2, <2>3, <2>5, <3>1
  <2> QED BY <2>4, <2>5
<1>9. ASSUME NEW k \in Keys PROVE Elements(n.notLabel[k].nodes) \subseteq live \cup {s}
  <2>1. e.notLabel[k] \in Cluster /\ Elements(e.notLabel[k].nodes) \subseteq live
    BY <1>4 DEF Exact
  <2>2. Elements(e.all.nodes) \subseteq live
    BY ListsAre DEF Exact, FiledFor
  <2>3. ASSUME NEW c \in Cluster, Elements(c.nodes) \subseteq live \cup {s}
        PROVE  /\ Put(c, "nodes", s) \in Cluster
               /\ Elements(Put(c, "nodes", s).nodes) \subseteq live \cup {s}
    BY <2>3, PutNode
  <2>4. /\ Put(e.all, "nodes", s) \in Cluster
        /\ Elements(Put(e.all, "nodes", s).nodes) \subseteq live \cup {s}
    BY <1>4, <2>2, <2>3
  <2>5. Elements(Put(Put(e.all, "nodes", s), "nodes", s).nodes) \subseteq live \cup {s}
    BY <2>3, <2>4
  <2>6. Elements(Put(e.notLabel[k], "nodes", s).nodes) \subseteq live \cup {s}
    BY <2>1, <2>3
  <2> QED BY <1>3, <2>1, <2>4, <2>5, <2>6
<1> QED BY <1>3, <1>6, <1>7, <1>8, <1>9 DEF Exact

LEMMA InsertHandler ==
  ASSUME TypeOK, NEW e \in Entry, NEW h \in Handlers, h \notin handlers, Exact(e, live, handlers),
         NEW n, n = UpdateDiscoveryClusters(e, labels[h], "handlers", h)
  PROVE  n \in Entry /\ Exact(n, live, handlers \cup {h})
<1>1. PICK ls \in LabelLists : ls = labels[h]
  BY DEF TypeOK
<1>2. \A c \in Cluster : Put(c, "handlers", h) \in Cluster
  BY PutHandler
<1>3. /\ n \in Entry /\ n.all = Put(e.all, "handlers", h)
      /\ n.noLabel = IF ls = <<>> THEN Put(e.noLabel, "handlers", h) ELSE e.noLabel
      /\ \A k \in Keys, v \in Values :
           n.label[<<k, v>>] =
             IF k \in KeysOf(ls) /\ TryFindLabelByKey(k, ls).value = v
               THEN Put(e.label[<<k, v>>], "handlers", h) ELSE e.label[<<k, v>>]
      /\ \A k \in Keys :
           n.notLabel[k] \in {e.notLabel[k], Put(e.notLabel[k], "handlers", h), Put(e.all, "handlers", h),
                              Put(Put(e.all, "handlers", h), "handlers", h)}
  BY <1>1, <1>2, UpdateIs
<1>4. /\ e.all \in Cluster /\ e.noLabel \in Cluster /\ e.notLabel \in [Keys -> Cluster]
      /\ \A k \in Keys, v \in Values : e.label[<<k, v>>] \in Cluster
  BY EntryTyping
<1>5. ASSUME NEW c \in Cluster, NEW X, FiledFor(c, X, live, handlers)
      PROVE  /\ h \in X => FiledFor(Put(c, "handlers", h), X, live, handlers \cup {h})
             /\ h \notin X => FiledFor(c, X, live, handlers \cup {h})
  BY <1>5, PutHandler
<1>6. FiledFor(n.all, Services \cup Handlers, live, handlers \cup {h})
  BY <1>3, <1>4, <1>5 DEF Exact
<1>7. FiledFor(n.noLabel, Unlabelled, live, handlers \cup {h})
  <2>1. h \in Unlabelled <=> ls = <<>>
    BY <1>1 DEF Unlabelled
  <2>2. FiledFor(e.noLabel, Unlabelled, live, handlers)
    BY DEF Exact
  <2> QED BY <1>3, <1>4, <1>5, <2>1, <2>2
<1>8. ASSUME NEW k \in Keys, NEW v \in Values
      PROVE  FiledFor(n.label[<<k, v>>], Carriers(k, v), live, handlers \cup {h})
  <2>1. h \in Carriers(k, v) <=> k \in KeysOf(ls) /\ TryFindLabelByKey(k, ls).value = v
    BY <1>1 DEF Carriers
  <2>2. FiledFor(e.label[<<k, v>>], Carriers(k, v), live, handlers)
    BY DEF Exact
  <2>3. e.label[<<k, v>>] \in Cluster
    BY <1>4
  <2>4. CASE h \in Carriers(k, v)
    <3>1. n.label[<<k, v>>] = Put(e.label[<<k, v>>], "handlers", h)
      BY <1>3, <2>1, <2>4
    <3> QED BY <1>5, <2>2, <2>3, <2>4, <3>1
  <2>5. CASE h \notin Carriers(k, v)
    <3>1. n.label[<<k, v>>] = e.label[<<k, v>>]
      BY <1>3, <2>1, <2>5
    <3> QED BY <1>5, <2>2, <2>3, <2>5, <3>1
  <2> QED BY <2>4, <2>5
<1>9. ASSUME NEW k \in Keys PROVE Elements(n.notLabel[k].nodes) \subseteq live
  <2>1. e.notLabel[k] \in Cluster /\ Elements(e.notLabel[k].nodes) \subseteq live
    BY <1>4 DEF Exact
  <2>2. Elements(e.all.nodes) \subseteq live
    BY ListsAre DEF Exact, FiledFor
  <2>3. \A c \in Cluster : Put(c, "handlers", h) \in Cluster /\ Put(c, "handlers", h).nodes = c.nodes
    BY PutHandler
  <2> QED BY <1>3, <1>4, <2>1, <2>2, <2>3
<1> QED BY <1>3, <1>6, <1>7, <1>8, <1>9 DEF Exact

LEMMA RemoveNode ==
  ASSUME TypeOK, NEW e \in Entry, NEW s \in Services, Exact(e, live, handlers),
         NEW n, n = RemoveLookupNode(e, s)
  PROVE  n \in Entry /\ Exact(n, live \ {s}, handlers)
<1>1. PICK not : not = [k \in Keys |-> Drop(e.notLabel[k], s)]
  OBVIOUS
<1>2. PICK lab : lab = [kv \in Keys \X Values |-> Drop(e.label[kv], s)]
  OBVIOUS
<1>3. n = [e EXCEPT !.all = Drop(e.all, s), !.noLabel = Drop(e.noLabel, s),
                    !.notLabel = not, !.label = lab]
  BY <1>1, <1>2 DEF RemoveLookupNode, Drop, Entry
<1>4. /\ e.all \in Cluster /\ e.noLabel \in Cluster /\ e.seen \subseteq Keys
      /\ e.notLabel \in [Keys -> Cluster] /\ e.label \in [Keys \X Values -> Cluster]
      /\ \A k \in Keys, v \in Values : e.label[<<k, v>>] \in Cluster
  BY EntryTyping
<1>5. \A c \in Cluster :
        /\ Drop(c, s) \in Cluster /\ Elements(Drop(c, s).nodes) = Elements(c.nodes) \ {s}
        /\ \A X : FiledFor(c, X, live, handlers) => FiledFor(Drop(c, s), X, live \ {s}, handlers)
  BY DropNode
<1>6. not \in [Keys -> Cluster] /\ lab \in [Keys \X Values -> Cluster]
  <2>1. \A kv \in Keys \X Values : e.label[kv] \in Cluster
    BY <1>4
  <2> QED BY <1>1, <1>2, <1>4, <1>5, <2>1
<1>7. /\ n \in Entry /\ n.all = Drop(e.all, s) /\ n.noLabel = Drop(e.noLabel, s)
      /\ n.notLabel = not /\ n.label = lab
  BY <1>3, <1>4, <1>5, <1>6 DEF Entry
<1>8. /\ FiledFor(n.all, Services \cup Handlers, live \ {s}, handlers)
      /\ FiledFor(n.noLabel, Unlabelled, live \ {s}, handlers)
  BY <1>4, <1>5, <1>7 DEF Exact
<1>9. ASSUME NEW k \in Keys, NEW v \in Values
      PROVE  FiledFor(n.label[<<k, v>>], Carriers(k, v), live \ {s}, handlers)
  <2>1. n.label[<<k, v>>] = Drop(e.label[<<k, v>>], s)
    BY <1>2, <1>7
  <2>2. FiledFor(e.label[<<k, v>>], Carriers(k, v), live, handlers)
    BY DEF Exact
  <2>3. PICK c \in Cluster : c = e.label[<<k, v>>]
    BY <1>4
  <2>4. FiledFor(Drop(c, s), Carriers(k, v), live \ {s}, handlers)
    BY <1>5, <2>2, <2>3
  <2> QED BY <2>1, <2>3, <2>4
<1>10. ASSUME NEW k \in Keys PROVE Elements(n.notLabel[k].nodes) \subseteq live \ {s}
  <2>1. n.notLabel[k] = Drop(e.notLabel[k], s)
    BY <1>1, <1>7
  <2>2. Elements(e.notLabel[k].nodes) \subseteq live
    BY DEF Exact
  <2>3. PICK c \in Cluster : c = e.notLabel[k]
    BY <1>4
  <2>4. Elements(Drop(c, s).nodes) = Elements(c.nodes) \ {s}
    BY <1>5
  <2> QED BY <2>1, <2>2, <2>3, <2>4
<1> QED BY <1>7, <1>8, <1>9, <1>10 DEF Exact

-----------------------------------------------------------------------------
(* Who is called. *)

Fields == {"nodes", "handlers"}
Parties(f) == IF f = "nodes" THEN Services ELSE Handlers
Present(f) == IF f = "nodes" THEN live ELSE handlers

(* The candidates are everybody, or those of one label of the list.        *)
LEMMA CandidatesAre ==
  ASSUME NEW e, NEW ls, NEW f
  PROVE  \/ Candidates(e, ls, f) = e.all[f]
         \/ \E j \in DOMAIN ls :
              Candidates(e, ls, f) =
                (IF ls[j].kind = "Optional"
                   THEN e.notLabel[ls[j].key][f] \o e.noLabel[f] ELSE <<>>)
                \o e.label[<<ls[j].key, ls[j].value>>][f]
<1>1. GreedyLabel(e, ls, f) = <<>> \/ \E j \in DOMAIN ls : GreedyLabel(e, ls, f) = <<ls[j]>>
  <2> DEFINE Better == {j \in Counted(e, ls, f) : Count(e, ls[j], f) < Len(e.all[f])}
  <2> DEFINE Best == {j \in Better : \A i \in Better :
                        \/ Count(e, ls[j], f) < Count(e, ls[i], f)
                        \/ Count(e, ls[j], f) = Count(e, ls[i], f) /\ j <= i}
  <2>1. GreedyLabel(e, ls, f) = IF Best = {} THEN <<>> ELSE <<ls[CHOOSE j \in Best : TRUE]>>
    BY DEF GreedyLabel
  <2>2. Best \subseteq DOMAIN ls
    BY DEF Counted
  <2> HIDE DEF Best
  <2>3. CASE Best # {}
    <3>1. PICK j : j = CHOOSE i \in Best : TRUE
      OBVIOUS
    <3>2. j \in Best
      BY <2>3, <3>1
    <3>3. GreedyLabel(e, ls, f) = <<ls[j]>>
      BY <2>1, <2>3, <3>1
    <3> QED BY <2>2, <3>2, <3>3
  <2> QED BY <2>1, <2>3
<1>2. PICK greedy : greedy = GreedyLabel(e, ls, f)
  OBVIOUS
<1>3. CASE greedy = <<>>
  BY <1>2, <1>3 DEF Candidates
<1>4. ASSUME NEW j \in DOMAIN ls, greedy = <<ls[j]>>
      PROVE  Candidates(e, ls, f) =
               (IF ls[j].kind = "Optional"
                  THEN e.notLabel[ls[j].key][f] \o e.noLabel[f] ELSE <<>>)
               \o e.label[<<ls[j].key, ls[j].value>>][f]
  <2>1. GreedyLabel(e, ls, f) # <<>> /\ GreedyLabel(e, ls, f)[1] = ls[j]
    BY <1>2, <1>4
  <2>2. PICK l : l = ls[j]
    OBVIOUS
  <2>3. Candidates(e, ls, f) =
          (IF l.kind = "Optional" THEN e.notLabel[l.key][f] \o e.noLabel[f] ELSE <<>>)
          \o e.label[<<l.key, l.value>>][f]
    BY <2>1, <2>2, Zenon DEF Candidates
  <2> QED BY <2>2, <2>3
<1> QED BY <1>1, <1>2, <1>3, <1>4

LEMMA FieldTyping ==
  ASSUME NEW c \in Cluster, NEW f \in Fields
  PROVE  c[f] \in Seq(Parties(f))
BY DEF Cluster, Fields, Parties

LEMMA CandidatesType ==
  ASSUME NEW e \in Entry, NEW ls \in LabelLists, NEW f \in Fields
  PROVE  Candidates(e, ls, f) \in Seq(Parties(f))
<1>1. /\ e.all \in Cluster /\ e.noLabel \in Cluster /\ e.notLabel \in [Keys -> Cluster]
      /\ \A k \in Keys, v \in Values : e.label[<<k, v>>] \in Cluster
  BY EntryTyping
<1>2. e.all[f] \in Seq(Parties(f)) /\ e.noLabel[f] \in Seq(Parties(f))
  BY <1>1, FieldTyping
<1>3. ASSUME NEW j \in DOMAIN ls
      PROVE  /\ e.notLabel[ls[j].key][f] \in Seq(Parties(f))
             /\ e.label[<<ls[j].key, ls[j].value>>][f] \in Seq(Parties(f))
  <2>1. ls[j].key \in Keys /\ ls[j].value \in Values
    BY ListTyping
  <2>2. e.notLabel[ls[j].key] \in Cluster /\ e.label[<<ls[j].key, ls[j].value>>] \in Cluster
    BY <1>1, <2>1
  <2> QED BY <2>2, FieldTyping
<1>4. ASSUME NEW a \in Seq(Parties(f)), NEW b \in Seq(Parties(f))
      PROVE  a \o b \in Seq(Parties(f)) /\ <<>> \o b \in Seq(Parties(f))
  OBVIOUS
<1>5. ASSUME NEW j \in DOMAIN ls
      PROVE  (IF ls[j].kind = "Optional"
                THEN e.notLabel[ls[j].key][f] \o e.noLabel[f] ELSE <<>>)
             \o e.label[<<ls[j].key, ls[j].value>>][f] \in Seq(Parties(f))
  <2>1. e.notLabel[ls[j].key][f] \o e.noLabel[f] \in Seq(Parties(f))
    BY <1>2, <1>3, <1>4
  <2>2. CASE ls[j].kind = "Optional"
    BY <1>3, <1>4, <2>1, <2>2
  <2>3. CASE ls[j].kind # "Optional"
    BY <1>3, <1>4, <2>3
  <2> QED BY <2>2, <2>3
<1> QED BY <1>2, <1>5, CandidatesAre

(* A newcomer with mandatory labels only meets whoever it matches once.    *)
LEMMA MeetsOnce ==
  ASSUME TypeOK, ClustersExact, NEW f \in Fields, NEW x \in Services \cup Handlers,
         NEW y \in Present(f), MandatoryOnly(x),
         \A i \in DOMAIN labels[x] : LabelMatchesLabelList(labels[x][i], labels[y])
  PROVE  Occurrences(y, Candidates(entry, labels[x], f)) = 1
<1>1. entry \in Entry /\ labels[x] \in LabelLists
  BY DEF TypeOK, Entry
<1>2. PICK ls \in LabelLists : ls = labels[x]
  BY <1>1
<1>3. y \in Services \cup Handlers
  BY DEF TypeOK, Present
<1>4. /\ entry.all \in Cluster
      /\ \A k \in Keys, v \in Values : entry.label[<<k, v>>] \in Cluster
  BY <1>1, EntryTyping
<1>5. ASSUME NEW c \in Cluster, NEW X, Filed(c, X), y \in X
      PROVE  Occurrences(y, c[f]) = 1
  <2>1. Lists(c[f], Present(f) \cap X)
    BY <1>5 DEF Fields, Present, Filed
  <2>2. c[f] \in Seq(Parties(f))
    BY FieldTyping
  <2>3. y \in Present(f) \cap X
    BY <1>5
  <2> QED BY <2>1, <2>2, <2>3, OccursOnce
<1>6. Occurrences(y, entry.all[f]) = 1
  <2>1. Filed(entry.all, Services \cup Handlers)
    BY DEF ClustersExact
  <2> QED BY <1>3, <1>4, <1>5, <2>1
<1>7. ASSUME NEW j \in DOMAIN ls
      PROVE  /\ ls[j].kind # "Optional"
             /\ Occurrences(y, <<>> \o entry.label[<<ls[j].key, ls[j].value>>][f]) = 1
  <2>1. ls[j].key \in Keys /\ ls[j].value \in Values
    BY ListTyping
  <2>2. ls[j].kind = "Mandatory"
    BY <1>2 DEF MandatoryOnly
  <2>3. LabelMatchesLabelList(ls[j], labels[y])
    BY <1>2
  <2>4. ls[j].key \in KeysOf(labels[y]) /\ TryFindLabelByKey(ls[j].key, labels[y]).value = ls[j].value
    BY <2>2, <2>3 DEF LabelMatchesLabelList
  <2>5. y \in Carriers(ls[j].key, ls[j].value)
    BY <1>3, <2>4 DEF Carriers
  <2>6. PICK c \in Cluster : c = entry.label[<<ls[j].key, ls[j].value>>]
    BY <1>4, <2>1
  <2>7. Filed(c, Carriers(ls[j].key, ls[j].value))
    BY <2>1, <2>6 DEF ClustersExact
  <2>8. Occurrences(y, c[f]) = 1
    BY <1>5, <2>5, <2>7
  <2>9. <<>> \o c[f] = c[f]
    <3>1. c[f] \in Seq(Parties(f))
      BY FieldTyping
    <3> QED BY <3>1
  <2> QED BY <2>2, <2>6, <2>8, <2>9
<1>8. CASE Candidates(entry, ls, f) = entry.all[f]
  BY <1>2, <1>6, <1>8
<1>9. ASSUME NEW j \in DOMAIN ls,
             Candidates(entry, ls, f) =
               (IF ls[j].kind = "Optional"
                  THEN entry.notLabel[ls[j].key][f] \o entry.noLabel[f] ELSE <<>>)
               \o entry.label[<<ls[j].key, ls[j].value>>][f]
      PROVE  Occurrences(y, Candidates(entry, ls, f)) = 1
  <2>1. Candidates(entry, ls, f) = <<>> \o entry.label[<<ls[j].key, ls[j].value>>][f]
    BY <1>7, <1>9
  <2> QED BY <1>7, <2>1
<1> QED BY <1>2, <1>8, <1>9, CandidatesAre

-----------------------------------------------------------------------------
(* The steps. *)

Inv == TypeOK /\ ClustersExact

LEMMA InitInv == Init => Inv
<1> SUFFICES ASSUME Init PROVE Inv
  OBVIOUS
<1>1. EmptyCluster \in Cluster
  BY DEF EmptyCluster, Cluster
<1>2. entry = [all |-> EmptyCluster, noLabel |-> EmptyCluster, seen |-> {},
               label |-> [kv \in Keys \X Values |-> EmptyCluster],
               notLabel |-> [k \in Keys |-> EmptyCluster]]
  BY DEF Init, EmptyEntry
<1>3. /\ [kv \in Keys \X Values |-> EmptyCluster] \in [Keys \X Values -> Cluster]
      /\ [k \in Keys |-> EmptyCluster] \in [Keys -> Cluster]
  BY <1>1
<1>4. entry \in Entry
  BY <1>1, <1>2, <1>3 DEF Entry
<1>5. TypeOK
  BY <1>4 DEF Init, TypeOK, Entry
<1>6. \A X : Filed(EmptyCluster, X)
  BY DEF Filed, Lists, EmptyCluster, Init
<1>7. /\ entry.all = EmptyCluster /\ entry.noLabel = EmptyCluster
      /\ \A k \in Keys, v \in Values : entry.label[<<k, v>>] = EmptyCluster
      /\ \A k \in Keys : entry.notLabel[k].nodes = <<>>
  BY <1>2 DEF EmptyCluster
<1>8. ClustersExact
  BY <1>6, <1>7 DEF ClustersExact
<1> QED BY <1>5, <1>8 DEF Inv

(* The labels never change, so what the clusters must hold after a step is *)
(* said with the labels before it.                                         *)
LEMMA ExactAfter ==
  ASSUME labels' = labels, Exact(entry', live', handlers')
  PROVE  ClustersExact'
<1>1. Unlabelled' = Unlabelled /\ \A k, v : Carriers(k, v)' = Carriers(k, v)
  BY DEF Unlabelled, Carriers
<1>2. \A c, X : FiledFor(c, X, live', handlers') =>
        Lists(c.nodes, live' \cap X) /\ Lists(c.handlers, handlers' \cap X)
  BY DEF FiledFor
<1>3. Filed(entry.all, Services \cup Handlers)'
  BY <1>2 DEF Exact, Filed
<1>4. Filed(entry.noLabel, Unlabelled)'
  BY <1>1, <1>2 DEF Exact, Filed
<1>5. (\A k \in Keys, v \in Values : Filed(entry.label[<<k, v>>], Carriers(k, v)))'
  <2>1. \A k \in Keys, v \in Values :
          FiledFor(entry'.label[<<k, v>>], Carriers(k, v), live', handlers')
    BY DEF Exact
  <2> QED BY <1>1, <1>2, <2>1 DEF Filed
<1>6. (\A k \in Keys : \A i \in DOMAIN entry.notLabel[k].nodes : entry.notLabel[k].nodes[i] \in live)'
  BY DEF Exact, Elements
<1> QED BY <1>3, <1>4, <1>5, <1>6 DEF ClustersExact

LEMMA ExactLookedUp ==
  ASSUME TypeOK, ClustersExact, NEW ls \in LabelLists, NEW f,
         NEW e, e = LookedUp(entry, ls, f)
  PROVE  e \in Entry /\ Exact(e, live, handlers)
<1>1. entry \in Entry
  BY DEF TypeOK, Entry
<1>2. /\ e \in Entry /\ e.all = entry.all /\ e.noLabel = entry.noLabel
      /\ e.label = entry.label /\ e.notLabel = entry.notLabel
  BY <1>1, LookedUpIs
<1>3. Exact(entry, live, handlers)
  BY ExactIs
<1> QED BY <1>2, <1>3 DEF Exact

LEMMA CalledType ==
  ASSUME TypeOK, NEW x \in Services \cup Handlers, NEW f \in Fields, NEW y
  PROVE  Occurrences(y, Candidates(entry, labels[x], f)) \in Nat
<1>1. entry \in Entry /\ labels[x] \in LabelLists
  BY DEF TypeOK, Entry
<1>2. Candidates(entry, labels[x], f) \in Seq(Parties(f))
  BY <1>1, CandidatesType
<1> QED BY <1>2, OccurrencesType

LEMMA CreatedInv ==
  ASSUME Inv, NEW s \in Services, ServiceCreated(s)
  PROVE  Inv'
<1>1. TypeOK /\ ClustersExact
  BY DEF Inv
<1>2. labels[s] \in LabelLists /\ "handlers" \in Fields
  BY <1>1 DEF TypeOK, Fields
<1>3. PICK e : e = LookedUp(entry, labels[s], "handlers")
  OBVIOUS
<1>4. e \in Entry /\ Exact(e, live, handlers)
  BY <1>1, <1>2, <1>3, ExactLookedUp
<1>5. entry' = UpdateDiscoveryClusters(e, labels[s], "nodes", s)
  BY <1>3 DEF ServiceCreated
<1>6. s \notin live
  BY DEF ServiceCreated
<1>7. entry' \in Entry /\ Exact(entry', live \cup {s}, handlers)
  BY <1>1, <1>4, <1>5, <1>6, InsertNode
<1>8. live' = live \cup {s} /\ UNCHANGED <<labels, gone, handlers, untold>>
  BY DEF ServiceCreated
<1>9. ClustersExact'
  BY <1>7, <1>8, ExactAfter
<1>10. told' \in [Handlers -> [Services -> Nat]]
  <2>1. PICK n : n = [h \in Handlers |-> Occurrences(h, Candidates(entry, labels[s], "handlers"))]
    OBVIOUS
  <2>2. n \in [Handlers -> Nat]
    BY <1>1, <1>2, <2>1, CalledType
  <2>3. told' = [h \in Handlers |-> [told[h] EXCEPT ![s] = @ + n[h]]]
    BY <2>1 DEF ServiceCreated
  <2>4. told \in [Handlers -> [Services -> Nat]]
    BY <1>1 DEF TypeOK
  <2> QED BY <2>2, <2>3, <2>4
<1>11. TypeOK'
  BY <1>1, <1>7, <1>8, <1>10 DEF TypeOK, Entry
<1> QED BY <1>9, <1>11 DEF Inv

LEMMA RemovedInv ==
  ASSUME Inv, NEW s \in Services, ServiceRemoved(s)
  PROVE  Inv'
<1>1. TypeOK /\ ClustersExact
  BY DEF Inv
<1>2. labels[s] \in LabelLists /\ "handlers" \in Fields
  BY <1>1 DEF TypeOK, Fields
<1>3. PICK e : e = LookedUp(entry, labels[s], "handlers")
  OBVIOUS
<1>4. e \in Entry /\ Exact(e, live, handlers)
  BY <1>1, <1>2, <1>3, ExactLookedUp
<1>5. entry' = RemoveLookupNode(e, s)
  BY <1>3 DEF ServiceRemoved
<1>6. entry' \in Entry /\ Exact(entry', live \ {s}, handlers)
  BY <1>1, <1>4, <1>5, RemoveNode
<1>7. live' = live \ {s} /\ gone' = gone \cup {s} /\ UNCHANGED <<labels, handlers, told>>
  BY DEF ServiceRemoved
<1>8. ClustersExact'
  BY <1>6, <1>7, ExactAfter
<1>9. untold' \in [Handlers -> [Services -> Nat]]
  <2>1. PICK n : n = [h \in Handlers |-> Occurrences(h, Candidates(entry, labels[s], "handlers"))]
    OBVIOUS
  <2>2. n \in [Handlers -> Nat]
    BY <1>1, <1>2, <2>1, CalledType
  <2>3. untold' = [h \in Handlers |-> [untold[h] EXCEPT ![s] = @ + n[h]]]
    BY <2>1 DEF ServiceRemoved
  <2>4. untold \in [Handlers -> [Services -> Nat]]
    BY <1>1 DEF TypeOK
  <2> QED BY <2>2, <2>3, <2>4
<1>10. TypeOK'
  BY <1>1, <1>6, <1>7, <1>9 DEF TypeOK, Entry
<1> QED BY <1>8, <1>10 DEF Inv

LEMMA RegisteredInv ==
  ASSUME Inv, NEW h \in Handlers, RegisterSpecificServiceDiscoveryHandler(h)
  PROVE  Inv'
<1>1. TypeOK /\ ClustersExact
  BY DEF Inv
<1>2. labels[h] \in LabelLists /\ "nodes" \in Fields
  BY <1>1 DEF TypeOK, Fields
<1>3. PICK e : e = LookedUp(entry, labels[h], "nodes")
  OBVIOUS
<1>4. e \in Entry /\ Exact(e, live, handlers)
  BY <1>1, <1>2, <1>3, ExactLookedUp
<1>5. entry' = UpdateDiscoveryClusters(e, labels[h], "handlers", h)
  BY <1>3 DEF RegisterSpecificServiceDiscoveryHandler
<1>6. h \notin handlers
  BY DEF RegisterSpecificServiceDiscoveryHandler
<1>7. entry' \in Entry /\ Exact(entry', live, handlers \cup {h})
  BY <1>1, <1>4, <1>5, <1>6, InsertHandler
<1>8. handlers' = handlers \cup {h} /\ UNCHANGED <<labels, live, gone, untold>>
  BY DEF RegisterSpecificServiceDiscoveryHandler
<1>9. ClustersExact'
  BY <1>7, <1>8, ExactAfter
<1>10. told' \in [Handlers -> [Services -> Nat]]
  <2>1. PICK n : n = [s \in Services |-> Occurrences(s, Candidates(entry, labels[h], "nodes"))]
    OBVIOUS
  <2>2. n \in [Services -> Nat]
    BY <1>1, <1>2, <2>1, CalledType
  <2>3. told' = [told EXCEPT ![h] = [s \in Services |-> @[s] + n[s]]]
    BY <2>1 DEF RegisterSpecificServiceDiscoveryHandler
  <2>4. told \in [Handlers -> [Services -> Nat]]
    BY <1>1 DEF TypeOK
  <2> QED BY <2>2, <2>3, <2>4
<1>11. TypeOK'
  BY <1>1, <1>7, <1>8, <1>10 DEF TypeOK, Entry
<1> QED BY <1>9, <1>11 DEF Inv

LEMMA NextInv == Inv /\ [Next]_vars => Inv'
<1> SUFFICES ASSUME Inv, [Next]_vars PROVE Inv'
  OBVIOUS
<1>1. CASE UNCHANGED vars
  <2>1. TypeOK'
    BY <1>1 DEF Inv, TypeOK, vars
  <2>2. Exact(entry', live', handlers') /\ labels' = labels
    BY <1>1, ExactIs DEF Inv, vars
  <2> QED BY <2>1, <2>2, ExactAfter DEF Inv
<1>2. CASE Next
  BY <1>2, CreatedInv, RemovedInv, RegisteredInv DEF Next
<1> QED BY <1>1, <1>2

LEMMA InvHolds == Spec => []Inv
BY InitInv, NextInv, PTL DEF Spec

(* Every variable of the discovery store keeps its type, whatever services *)
(* come and go and whatever labels they have.                              *)
THEOREM TypeCorrect == Spec => []TypeOK
<1>1. Inv => TypeOK
  BY DEF Inv
<1> QED BY <1>1, InvHolds, PTL

(* The clusters stay exact: UpdateDiscoveryClusters and RemoveLookupNode   *)
(* never lose, double or leave behind a service or a handler in any        *)
(* cluster, for any number of them and any labels.                         *)
THEOREM ClustersStayExact == Spec => []ClustersExact
<1>1. Inv => ClustersExact
  BY DEF Inv
<1> QED BY <1>1, InvHolds, PTL

-----------------------------------------------------------------------------
(* Nobody is missed. *)

Meets ==
  /\ \A h \in handlers' \ handlers, s \in live :
       MandatoryOnly(h) /\ MatchLabels(labels[h], labels[s])
         => told'[h][s] = told[h][s] + 1
  /\ \A s \in live' \ live, h \in handlers :
       MandatoryOnly(s) /\ MatchLabels(labels[h], labels[s])
         => told'[h][s] = told[h][s] + 1
  /\ \A s \in live \ live', h \in handlers :
       MandatoryOnly(s) /\ MatchLabels(labels[h], labels[s])
         => untold'[h][s] = untold[h][s] + 1

LEMMA CreatedMeets ==
  ASSUME Inv, NEW s \in Services, ServiceCreated(s)
  PROVE  Meets
<1>1. TypeOK /\ ClustersExact
  BY DEF Inv
<1>2. handlers' = handlers /\ live' = live \cup {s}
  BY DEF ServiceCreated
<1>3. ASSUME NEW h \in handlers, MandatoryOnly(s), MatchLabels(labels[h], labels[s])
      PROVE  told'[h][s] = told[h][s] + 1
  <2>1. "handlers" \in Fields /\ h \in Present("handlers") /\ h \in Handlers
    BY <1>1 DEF Fields, Present, TypeOK
  <2>2. \A i \in DOMAIN labels[s] : LabelMatchesLabelList(labels[s][i], labels[h])
    BY <1>3 DEF MatchLabels
  <2>3. Occurrences(h, Candidates(entry, labels[s], "handlers")) = 1
    BY <1>1, <1>3, <2>1, <2>2, MeetsOnce
  <2>4. told' = [k \in Handlers |->
                   [told[k] EXCEPT ![s] = @ + Occurrences(k, Candidates(entry, labels[s], "handlers"))]]
    BY DEF ServiceCreated
  <2>5. told[h] \in [Services -> Nat]
    BY <1>1, <2>1 DEF TypeOK
  <2> QED BY <2>1, <2>3, <2>4, <2>5
<1> QED BY <1>2, <1>3 DEF Meets

LEMMA RemovedMeets ==
  ASSUME Inv, NEW s \in Services, ServiceRemoved(s)
  PROVE  Meets
<1>1. TypeOK /\ ClustersExact
  BY DEF Inv
<1>2. handlers' = handlers /\ live' = live \ {s}
  BY DEF ServiceRemoved
<1>3. ASSUME NEW h \in handlers, MandatoryOnly(s), MatchLabels(labels[h], labels[s])
      PROVE  untold'[h][s] = untold[h][s] + 1
  <2>1. "handlers" \in Fields /\ h \in Present("handlers") /\ h \in Handlers
    BY <1>1 DEF Fields, Present, TypeOK
  <2>2. \A i \in DOMAIN labels[s] : LabelMatchesLabelList(labels[s][i], labels[h])
    BY <1>3 DEF MatchLabels
  <2>3. Occurrences(h, Candidates(entry, labels[s], "handlers")) = 1
    BY <1>1, <1>3, <2>1, <2>2, MeetsOnce
  <2>4. untold' = [k \in Handlers |->
                     [untold[k] EXCEPT ![s] = @ + Occurrences(k, Candidates(entry, labels[s], "handlers"))]]
    BY DEF ServiceRemoved
  <2>5. untold[h] \in [Services -> Nat]
    BY <1>1, <2>1 DEF TypeOK
  <2> QED BY <2>1, <2>3, <2>4, <2>5
<1> QED BY <1>2, <1>3 DEF Meets

LEMMA RegisteredMeets ==
  ASSUME Inv, NEW h \in Handlers, RegisterSpecificServiceDiscoveryHandler(h)
  PROVE  Meets
<1>1. TypeOK /\ ClustersExact
  BY DEF Inv
<1>2. handlers' = handlers \cup {h} /\ live' = live
  BY DEF RegisterSpecificServiceDiscoveryHandler
<1>3. ASSUME NEW s \in live, MandatoryOnly(h), MatchLabels(labels[h], labels[s])
      PROVE  told'[h][s] = told[h][s] + 1
  <2>1. "nodes" \in Fields /\ s \in Present("nodes") /\ s \in Services
    BY <1>1 DEF Fields, Present, TypeOK
  <2>2. \A i \in DOMAIN labels[h] : LabelMatchesLabelList(labels[h][i], labels[s])
    BY <1>3 DEF MatchLabels
  <2>3. Occurrences(s, Candidates(entry, labels[h], "nodes")) = 1
    BY <1>1, <1>3, <2>1, <2>2, MeetsOnce
  <2>4. told' = [told EXCEPT ![h] =
                   [r \in Services |-> @[r] + Occurrences(r, Candidates(entry, labels[h], "nodes"))]]
    BY DEF RegisterSpecificServiceDiscoveryHandler
  <2>5. told \in [Handlers -> [Services -> Nat]]
    BY <1>1 DEF TypeOK
  <2> QED BY <2>1, <2>3, <2>4, <2>5
<1> QED BY <1>2, <1>3 DEF Meets

(* Whoever comes or goes with mandatory labels only meets every party that *)
(* it matches exactly once: choosing the candidates by one greedy label,   *)
(* with GetLabelWithMinimalHandlerSet and GetLabelWithMinimalNodeSet,      *)
(* loses no connection and makes none twice, for any number of parties.    *)
THEOREM MandatoryMeets == Spec => MandatoryMeetsAll
<1>1. Inv /\ [Next]_vars => [Meets]_vars
  BY CreatedMeets, RemovedMeets, RegisteredMeets DEF Next
<1> QED BY <1>1, InvHolds, PTL DEF Spec, MandatoryMeetsAll, Meets

-----------------------------------------------------------------------------
(* Creations and removals are told in pairs. *)

(* A party with mandatory labels only meets nobody who is not there.       *)
LEMMA AbsentIsNotMet ==
  ASSUME TypeOK, ClustersExact, NEW f \in Fields, NEW x \in Services \cup Handlers,
         NEW y, y \notin Present(f), MandatoryOnly(x)
  PROVE  Occurrences(y, Candidates(entry, labels[x], f)) = 0
<1>1. entry \in Entry /\ labels[x] \in LabelLists
  BY DEF TypeOK, Entry
<1>2. PICK ls \in LabelLists : ls = labels[x]
  BY <1>1
<1>3. /\ entry.all \in Cluster
      /\ \A k \in Keys, v \in Values : entry.label[<<k, v>>] \in Cluster
  BY <1>1, EntryTyping
<1>4. ASSUME NEW c \in Cluster, NEW X, Filed(c, X)
      PROVE  Occurrences(y, c[f]) = 0
  <2>1. Lists(c[f], Present(f) \cap X)
    BY <1>4 DEF Fields, Present, Filed
  <2>2. {i \in DOMAIN c[f] : c[f][i] = y} = {}
    BY <2>1 DEF Lists
  <2> QED BY <2>2, FS_EmptySet DEF Occurrences
<1>5. Occurrences(y, entry.all[f]) = 0
  <2>1. Filed(entry.all, Services \cup Handlers)
    BY DEF ClustersExact
  <2> QED BY <1>3, <1>4, <2>1
<1>6. ASSUME NEW j \in DOMAIN ls
      PROVE  /\ ls[j].kind # "Optional"
             /\ Occurrences(y, <<>> \o entry.label[<<ls[j].key, ls[j].value>>][f]) = 0
  <2>1. ls[j].key \in Keys /\ ls[j].value \in Values
    BY ListTyping
  <2>2. ls[j].kind = "Mandatory"
    BY <1>2 DEF MandatoryOnly
  <2>3. PICK c \in Cluster : c = entry.label[<<ls[j].key, ls[j].value>>]
    BY <1>3, <2>1
  <2>4. Filed(c, Carriers(ls[j].key, ls[j].value))
    BY <2>1, <2>3 DEF ClustersExact
  <2>5. Occurrences(y, c[f]) = 0
    BY <1>4, <2>4
  <2>6. <<>> \o c[f] = c[f]
    <3>1. c[f] \in Seq(Parties(f))
      BY FieldTyping
    <3> QED BY <3>1
  <2> QED BY <2>2, <2>3, <2>5, <2>6
<1>7. CASE Candidates(entry, ls, f) = entry.all[f]
  BY <1>2, <1>5, <1>7
<1>8. ASSUME NEW j \in DOMAIN ls,
             Candidates(entry, ls, f) =
               (IF ls[j].kind = "Optional"
                  THEN entry.notLabel[ls[j].key][f] \o entry.noLabel[f] ELSE <<>>)
               \o entry.label[<<ls[j].key, ls[j].value>>][f]
      PROVE  Occurrences(y, Candidates(entry, ls, f)) = 0
  <2>1. Candidates(entry, ls, f) = <<>> \o entry.label[<<ls[j].key, ls[j].value>>][f]
    BY <1>6, <1>8
  <2> QED BY <1>6, <2>1
<1> QED BY <1>2, <1>7, <1>8, CandidatesAre

(* The pairs that NoticesPair is about, and what it says of one of them.   *)
Fit(h, s) == MandatoryOnly(h) /\ MandatoryOnly(s) /\ MatchLabels(labels[h], labels[s])

Paired(t, u, there, over) ==
  t = u + (IF there THEN 1 ELSE 0) /\ u <= (IF over THEN 1 ELSE 0)

LEMMA PairIs ==
  NoticesPair <=> \A h \in Handlers, s \in Services :
    Fit(h, s) => Paired(told[h][s], untold[h][s], h \in handlers /\ s \in live, s \in gone)
BY DEF NoticesPair, Fit, Paired

LEMMA PairAfter ==
  ASSUME labels' = labels,
         \A h \in Handlers, s \in Services :
           Fit(h, s) => Paired(told'[h][s], untold'[h][s], h \in handlers' /\ s \in live', s \in gone')
  PROVE  NoticesPair'
<1>1. \A h, s : Fit(h, s)' <=> Fit(h, s)
  BY DEF Fit, MandatoryOnly
<1> QED BY <1>1 DEF NoticesPair, Fit, Paired

PairInv == NoticesPair /\ live \cap gone = {}

LEMMA CreatedPairs ==
  ASSUME Inv, PairInv, NEW z \in Services, ServiceCreated(z)
  PROVE  PairInv'
<1>1. TypeOK /\ ClustersExact
  BY DEF Inv
<1>2. /\ handlers' = handlers /\ live' = live \cup {z} /\ gone' = gone /\ untold' = untold
      /\ labels' = labels /\ z \notin live /\ z \notin gone
  BY DEF ServiceCreated
<1>3. ASSUME NEW h \in Handlers, NEW s \in Services, Fit(h, s)
      PROVE  Paired(told'[h][s], untold'[h][s], h \in handlers' /\ s \in live', s \in gone')
  <2>1. PICK n \in Nat : n = Occurrences(h, Candidates(entry, labels[z], "handlers"))
    BY <1>1, CalledType DEF Fields
  <2>2. told' = [k \in Handlers |->
                   [told[k] EXCEPT ![z] = @ + Occurrences(k, Candidates(entry, labels[z], "handlers"))]]
    BY DEF ServiceCreated
  <2>3. told[h] \in [Services -> Nat] /\ untold[h] \in [Services -> Nat]
    BY <1>1 DEF TypeOK
  <2>4. told'[h][s] = IF s = z THEN told[h][s] + n ELSE told[h][s]
    BY <2>1, <2>2, <2>3
  <2>5. Paired(told[h][s], untold[h][s], h \in handlers /\ s \in live, s \in gone)
    BY <1>3, PairIs DEF PairInv
  <2>6. told[h][s] \in Nat /\ untold[h][s] \in Nat
    BY <2>3
  <2>7. CASE s # z
    BY <1>2, <2>4, <2>5, <2>7
  <2>8. CASE s = z /\ h \in handlers
    <3>1. told'[h][s] = told[h][s] + 1
      <4>1. Meets
        BY CreatedMeets
      <4> QED BY <1>2, <1>3, <2>8, <4>1 DEF Meets, Fit
    <3> QED BY <1>2, <2>5, <2>6, <2>8, <3>1 DEF Paired
  <2>9. CASE s = z /\ h \notin handlers
    <3>1. n = 0
      BY <1>1, <1>3, <2>1, <2>9, AbsentIsNotMet DEF Fields, Present, Fit
    <3> QED BY <1>2, <2>4, <2>5, <2>6, <2>9, <3>1 DEF Paired
  <2> QED BY <2>7, <2>8, <2>9
<1>4. NoticesPair'
  BY <1>2, <1>3, PairAfter
<1> QED BY <1>2, <1>4 DEF PairInv

LEMMA RemovedPairs ==
  ASSUME Inv, PairInv, NEW z \in Services, ServiceRemoved(z)
  PROVE  PairInv'
<1>1. TypeOK /\ ClustersExact
  BY DEF Inv
<1>2. /\ handlers' = handlers /\ live' = live \ {z} /\ gone' = gone \cup {z} /\ told' = told
      /\ labels' = labels /\ z \in live /\ z \notin gone
  BY DEF ServiceRemoved, PairInv
<1>3. ASSUME NEW h \in Handlers, NEW s \in Services, Fit(h, s)
      PROVE  Paired(told'[h][s], untold'[h][s], h \in handlers' /\ s \in live', s \in gone')
  <2>1. PICK n \in Nat : n = Occurrences(h, Candidates(entry, labels[z], "handlers"))
    BY <1>1, CalledType DEF Fields
  <2>2. untold' = [k \in Handlers |->
                     [untold[k] EXCEPT ![z] = @ + Occurrences(k, Candidates(entry, labels[z], "handlers"))]]
    BY DEF ServiceRemoved
  <2>3. told[h] \in [Services -> Nat] /\ untold[h] \in [Services -> Nat]
    BY <1>1 DEF TypeOK
  <2>4. untold'[h][s] = IF s = z THEN untold[h][s] + n ELSE untold[h][s]
    BY <2>1, <2>2, <2>3
  <2>5. Paired(told[h][s], untold[h][s], h \in handlers /\ s \in live, s \in gone)
    BY <1>3, PairIs DEF PairInv
  <2>6. told[h][s] \in Nat /\ untold[h][s] \in Nat
    BY <2>3
  <2>7. CASE s # z
    BY <1>2, <2>4, <2>5, <2>7
  <2>8. CASE s = z /\ h \in handlers
    <3>1. untold'[h][s] = untold[h][s] + 1
      <4>1. Meets
        BY RemovedMeets
      <4> QED BY <1>2, <1>3, <2>8, <4>1 DEF Meets, Fit
    <3> QED BY <1>2, <2>5, <2>6, <2>8, <3>1 DEF Paired
  <2>9. CASE s = z /\ h \notin handlers
    <3>1. n = 0
      BY <1>1, <1>3, <2>1, <2>9, AbsentIsNotMet DEF Fields, Present, Fit
    <3> QED BY <1>2, <2>4, <2>5, <2>6, <2>9, <3>1 DEF Paired
  <2> QED BY <2>7, <2>8, <2>9
<1>4. NoticesPair'
  BY <1>2, <1>3, PairAfter
<1> QED BY <1>2, <1>4 DEF PairInv

LEMMA RegisteredPairs ==
  ASSUME Inv, PairInv, NEW z \in Handlers, RegisterSpecificServiceDiscoveryHandler(z)
  PROVE  PairInv'
<1>1. TypeOK /\ ClustersExact
  BY DEF Inv
<1>2. /\ handlers' = handlers \cup {z} /\ live' = live /\ gone' = gone /\ untold' = untold
      /\ labels' = labels /\ z \notin handlers
  BY DEF RegisterSpecificServiceDiscoveryHandler
<1>3. ASSUME NEW h \in Handlers, NEW s \in Services, Fit(h, s)
      PROVE  Paired(told'[h][s], untold'[h][s], h \in handlers' /\ s \in live', s \in gone')
  <2>1. PICK n \in Nat : n = Occurrences(s, Candidates(entry, labels[z], "nodes"))
    BY <1>1, CalledType DEF Fields
  <2>2. told' = [told EXCEPT ![z] =
                   [r \in Services |-> @[r] + Occurrences(r, Candidates(entry, labels[z], "nodes"))]]
    BY DEF RegisterSpecificServiceDiscoveryHandler
  <2>3. told \in [Handlers -> [Services -> Nat]] /\ untold[h] \in [Services -> Nat]
    BY <1>1 DEF TypeOK
  <2>4. told'[h][s] = IF h = z THEN told[h][s] + n ELSE told[h][s]
    BY <2>1, <2>2, <2>3
  <2>5. Paired(told[h][s], untold[h][s], h \in handlers /\ s \in live, s \in gone)
    BY <1>3, PairIs DEF PairInv
  <2>6. told[h][s] \in Nat /\ untold[h][s] \in Nat
    BY <2>3
  <2>7. CASE h # z
    BY <1>2, <2>4, <2>5, <2>7
  <2>8. CASE h = z /\ s \in live
    <3>1. told'[h][s] = told[h][s] + 1
      <4>1. Meets
        BY RegisteredMeets
      <4> QED BY <1>2, <1>3, <2>8, <4>1 DEF Meets, Fit
    <3> QED BY <1>2, <2>5, <2>6, <2>8, <3>1 DEF Paired
  <2>9. CASE h = z /\ s \notin live
    <3>1. n = 0
      BY <1>1, <1>3, <2>1, <2>9, AbsentIsNotMet DEF Fields, Present, Fit
    <3> QED BY <1>2, <2>4, <2>5, <2>6, <2>9, <3>1 DEF Paired
  <2> QED BY <2>7, <2>8, <2>9
<1>4. NoticesPair'
  BY <1>2, <1>3, PairAfter
<1> QED BY <1>2, <1>4 DEF PairInv

(* Of a service and a handler that match by mandatory labels, creation and *)
(* removal are told once each or not at all, whenever the handler          *)
(* registers and however the clusters change in between: RpcClient, which  *)
(* counts its servers with these calls, counts none down that it did not   *)
(* count up.                                                               *)
THEOREM NoticesComeInPairs == Spec => []NoticesPair
<1>1. Init => PairInv
  BY DEF Init, PairInv, NoticesPair
<1>2. ASSUME Inv, PairInv, [Next]_vars PROVE PairInv'
  <2>1. CASE Next
    BY <1>2, <2>1, CreatedPairs, RemovedPairs, RegisteredPairs DEF Next
  <2>2. CASE UNCHANGED vars
    <3>1. /\ labels' = labels /\ told' = told /\ untold' = untold
          /\ handlers' = handlers /\ live' = live /\ gone' = gone
      BY <2>2 DEF vars
    <3>2. NoticesPair'
      BY <1>2, <3>1, PairIs, PairAfter DEF PairInv
    <3> QED BY <1>2, <3>1, <3>2 DEF PairInv
  <2> QED BY <1>2, <2>1, <2>2
<1>3. PairInv => NoticesPair
  BY DEF PairInv
<1> QED BY <1>1, <1>2, <1>3, InvHolds, PTL DEF Spec
=============================================================================
