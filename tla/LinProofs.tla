------------------------------ MODULE LinProofs ------------------------------
(***************************************************************************)
(* Proofs about Lin, for any controllers, identifiers and configurations:  *)
(* types, that the copies of slaves catch up, and that the identifiers     *)
(* slaves respond to are exact.                                            *)
(*                                                                         *)
(* The copies are described by a fold over the messages on their way.      *)
(* First it is shown that the fold follows the path of nodes that arises   *)
(* when the messages are handled one by one; the rest of the proof speaks  *)
(* of paths only.                                                          *)
(***************************************************************************)
EXTENDS Lin, WellFoundedInduction, TLAPS

-----------------------------------------------------------------------------
(* Folds and paths. *)

(* Induction, with a set in place of a predicate.                          *)
LEMMA SetInduction ==
  ASSUME NEW S \in SUBSET Nat, 0 \in S, \A n \in S : n + 1 \in S
  PROVE  S = Nat
<1>1. SUFFICES ASSUME Nat \ S # {} PROVE FALSE
  OBVIOUS
<1>2. PICK x \in Nat \ S : \A y \in Nat \ S : ~ (<<y, x>> \in OpToRel(<, Nat))
  BY <1>1, NatLessThanWellFounded, WFMin
<1>3. \A y \in Nat : y < x => y \in S
  <2> SUFFICES ASSUME NEW y \in Nat, y < x, y \notin S PROVE FALSE
    OBVIOUS
  <2>1. <<y, x>> \in OpToRel(<, Nat)
    BY DEF OpToRel
  <2> QED BY <2>1, <1>2
<1>4. x # 0
  OBVIOUS
<1>5. x - 1 \in Nat /\ x - 1 < x
  BY <1>4
<1>6. x - 1 \in S
  BY <1>3, <1>5
<1>7. (x - 1) + 1 \in S
  BY <1>6
<1>8. (x - 1) + 1 = x
  OBVIOUS
<1> QED BY <1>7, <1>8


(* One message changes a node as NodeAfter says, and what it makes of a    *)
(* node is a node again.                                                   *)
LEMMA NodeAfterType ==
  ASSUME NEW node \in Node, NEW m \in Messages
  PROVE  NodeAfter(node, m) \in Node
<1>1. CASE m.kind = "config"
  BY <1>1 DEF NodeAfter, Node, Messages
<1>2. CASE m.kind = "response"
  <2>1. m.id \in Ids /\ m.response \in Response
    BY <1>2 DEF Messages
  <2>2. NodeAfter(node, m) = [node EXCEPT !.responses[m.id] = m.response]
    BY <1>2 DEF NodeAfter
  <2> QED BY <2>1, <2>2 DEF Node
<1>3. CASE m.kind = "status"
  BY <1>3 DEF NodeAfter, Node, Messages
<1>4. CASE m.kind \notin {"config", "response", "status"}
  BY <1>4 DEF NodeAfter
<1> QED BY <1>1, <1>2, <1>3, <1>4

(* h are the nodes that node becomes by one message of ms after the other. *)
Path(node, ms, h) ==
  /\ h \in [0..Len(ms) -> Node] /\ h[0] = node
  /\ \A i \in 1..Len(ms) : h[i] = NodeAfter(h[i - 1], ms[i])

(* FoldLeft recurs over the sets of indices, taking away the greatest: f   *)
(* is that recursion over the subsets of 1..n.                             *)
Recursion(node, ms, n, f) ==
  /\ f \in [SUBSET (1..n) -> Node]
  /\ \A s \in SUBSET (1..n) :
       f[s] = IF s = {} THEN node ELSE NodeAfter(f[s \ {Max(s)}], ms[Max(s)])

LEMMA GreatestOfAll ==
  ASSUME NEW n \in Nat, NEW s \in SUBSET (1..(n + 1)), n + 1 \in s
  PROVE  Max(s) = n + 1
<1>1. \A y \in s : n + 1 >= y
  OBVIOUS
<1>2. \A x \in s : (\A y \in s : x >= y) => x = n + 1
  OBVIOUS
<1> QED BY <1>1, <1>2 DEF Max

LEMMA RecursionExtends ==
  ASSUME NEW node \in Node, NEW ms \in Seq(Messages), NEW n \in Nat, n < Len(ms),
         NEW g, Recursion(node, ms, n, g)
  PROVE  \E f : Recursion(node, ms, n + 1, f)
<1> DEFINE f == [s \in SUBSET (1..(n + 1)) |->
                  IF n + 1 \in s THEN NodeAfter(g[s \ {n + 1}], ms[n + 1]) ELSE g[s]]
<1>1. ms[n + 1] \in Messages
  OBVIOUS
<1>2. ASSUME NEW s \in SUBSET (1..(n + 1))
      PROVE  (s \ {n + 1}) \in SUBSET (1..n) /\ (n + 1 \notin s => s \in SUBSET (1..n))
  OBVIOUS
<1>3. f \in [SUBSET (1..(n + 1)) -> Node]
  BY <1>1, <1>2, NodeAfterType DEF Recursion
<1>4. ASSUME NEW s \in SUBSET (1..(n + 1))
      PROVE  f[s] = IF s = {} THEN node ELSE NodeAfter(f[s \ {Max(s)}], ms[Max(s)])
  <2>1. CASE n + 1 \in s
    <3>1. Max(s) = n + 1
      BY <2>1, GreatestOfAll
    <3>2. f[s] = NodeAfter(g[s \ {n + 1}], ms[n + 1])
      BY <2>1
    <3>3. f[s \ {n + 1}] = g[s \ {n + 1}]
      OBVIOUS
    <3> HIDE DEF f
    <3> QED BY <2>1, <3>1, <3>2, <3>3
  <2>2. CASE n + 1 \notin s
    <3>1. f[s] = g[s] /\ s \in SUBSET (1..n)
      BY <2>2, <1>2
    <3>2. f[s \ {Max(s)}] = g[s \ {Max(s)}]
      BY <2>2
    <3> HIDE DEF f
    <3> QED BY <3>1, <3>2 DEF Recursion
  <2> QED BY <2>1, <2>2
<1> HIDE DEF f
<1> QED BY <1>3, <1>4 DEF Recursion

LEMMA RecursionExists ==
  ASSUME NEW node \in Node, NEW ms \in Seq(Messages)
  PROVE  \E f : Recursion(node, ms, Len(ms), f)
<1> DEFINE S == {n \in Nat : n <= Len(ms) => \E f : Recursion(node, ms, n, f)}
<1>1. 0 \in S
  <2> DEFINE f == [s \in SUBSET (1..0) |-> node]
  <2>1. \A s \in SUBSET (1..0) : s = {}
    OBVIOUS
  <2>2. Recursion(node, ms, 0, f)
    BY <2>1 DEF Recursion
  <2> QED BY <2>2
<1>2. ASSUME NEW n \in S PROVE n + 1 \in S
  BY <1>2, RecursionExtends
<1>3. S = Nat
  <2> HIDE DEF S
  <2>1. S \in SUBSET Nat
    BY DEF S
  <2> QED BY <1>1, <1>2, <2>1, SetInduction
<1> QED BY <1>3
LEMMA FoldDef ==
  ASSUME NEW b, NEW ms
  PROVE  FoldLeft(NodeAfter, b, ms)
           = (CHOOSE f : f = [s \in SUBSET DOMAIN ms |->
                IF s = {} THEN b ELSE NodeAfter(f[s \ {Max(s)}], ms[Max(s)])])[DOMAIN ms]
BY DEF FoldLeft, MapThenFoldSet

(* The fold follows a path, and every path leads to the fold.              *)
LEMMA FoldFollowsPath ==
  ASSUME NEW node \in Node, NEW ms \in Seq(Messages)
  PROVE  \E h : Path(node, ms, h) /\ FoldLeft(NodeAfter, node, ms) = h[Len(ms)]
<1> DEFINE Is(f) == f = [s \in SUBSET DOMAIN ms |->
                     IF s = {} THEN node ELSE NodeAfter(f[s \ {Max(s)}], ms[Max(s)])]
<1>1. PICK g : Recursion(node, ms, Len(ms), g)
  BY RecursionExists
<1>2. DOMAIN ms = 1..Len(ms)
  OBVIOUS
<1>3. Is(g)
  BY <1>1, <1>2 DEF Recursion
<1>4. PICK f : f = CHOOSE x : Is(x)
  OBVIOUS
<1>5. Is(f)
  BY <1>3, <1>4
<1>6. FoldLeft(NodeAfter, node, ms) = f[1..Len(ms)]
  BY <1>2, <1>4, FoldDef
<1>7. \A s \in SUBSET (1..Len(ms)) :
        f[s] = IF s = {} THEN node ELSE NodeAfter(f[s \ {Max(s)}], ms[Max(s)])
  BY <1>2, <1>5
<1> HIDE DEF Is
<1>8. ASSUME NEW i \in 1..Len(ms) PROVE f[1..i] = NodeAfter(f[1..(i - 1)], ms[i])
  <2>1. Max(1..i) = i
    <3>1. \A n \in Nat : Max(1..(n + 1)) = n + 1
      BY GreatestOfAll
    <3>2. i - 1 \in Nat /\ (i - 1) + 1 = i
      OBVIOUS
    <3> QED BY <3>1, <3>2
  <2>2. (1..i) \ {i} = 1..(i - 1)
    OBVIOUS
  <2>3. i \in 1..i
    OBVIOUS
  <2>4. (1..i) \in SUBSET (1..Len(ms))
    OBVIOUS
  <2> QED BY <1>7, <2>1, <2>2, <2>3, <2>4
<1>9. f[1..0] = node
  <2>1. 1..0 = {}
    OBVIOUS
  <2> QED BY <1>7, <2>1
<1>10. ASSUME NEW i \in 0..Len(ms) PROVE f[1..i] \in Node
  <2> DEFINE S == {n \in Nat : n <= Len(ms) => f[1..n] \in Node}
  <2>1. 0 \in S
    BY <1>9
  <2>2. ASSUME NEW n \in S PROVE n + 1 \in S
    <3> SUFFICES ASSUME n + 1 <= Len(ms) PROVE f[1..(n + 1)] \in Node
      OBVIOUS
    <3>1. ms[n + 1] \in Messages /\ n + 1 \in 1..Len(ms) /\ (n + 1) - 1 = n
      OBVIOUS
    <3>2. f[1..n] \in Node
      OBVIOUS
    <3> QED BY <3>1, <3>2, <1>8, NodeAfterType
  <2>3. S = Nat
    <3> HIDE DEF S
    <3>1. S \in SUBSET Nat
      BY DEF S
    <3> QED BY <2>1, <2>2, <3>1, SetInduction
  <2> QED BY <2>3
<1> DEFINE h == [i \in 0..Len(ms) |-> f[1..i]]
<1>11. Path(node, ms, h)
  <2>1. \A i \in 1..Len(ms) : i - 1 \in 0..Len(ms) /\ i \in 0..Len(ms)
    OBVIOUS
  <2> QED BY <2>1, <1>8, <1>9, <1>10 DEF Path
<1> QED BY <1>6, <1>11

LEMMA PathsAgree ==
  ASSUME NEW node \in Node, NEW ms \in Seq(Messages), NEW g, NEW h,
         Path(node, ms, g), Path(node, ms, h)
  PROVE  g[Len(ms)] = h[Len(ms)]
<1> DEFINE S == {n \in Nat : n <= Len(ms) => g[n] = h[n]}
<1>1. 0 \in S
  BY DEF Path
<1>2. ASSUME NEW n \in S PROVE n + 1 \in S
  <2> SUFFICES ASSUME n + 1 <= Len(ms) PROVE g[n + 1] = h[n + 1]
    OBVIOUS
  <2>1. n + 1 \in 1..Len(ms) /\ (n + 1) - 1 = n /\ g[n] = h[n]
    OBVIOUS
  <2> QED BY <2>1 DEF Path
<1>3. S = Nat
  <2> HIDE DEF S
  <2>1. S \in SUBSET Nat
    BY DEF S
  <2> QED BY <1>1, <1>2, <2>1, SetInduction
<1> QED BY <1>3

LEMMA FoldOfPath ==
  ASSUME NEW node \in Node, NEW ms \in Seq(Messages), NEW h, Path(node, ms, h)
  PROVE  FoldLeft(NodeAfter, node, ms) = h[Len(ms)]
BY FoldFollowsPath, PathsAgree

-----------------------------------------------------------------------------
(* The invariant. *)

(* Message m is one that a controller sends when the others should see it  *)
(* as n: a configuration comes first, a response afterwards, and neither   *)
(* takes an unconditional response back.                                   *)
Fits(n, m) ==
  /\ m.kind = "config" => n.mode # "Slave"
  /\ m.kind = "response" =>
       /\ n.mode = "Slave"
       /\ n.responses[m.id].mode = "TxUnconditional" => m.response.mode = "TxUnconditional"

(* The messages ms, each of which fits, lead from node to goal.            *)
Leads(node, ms, goal) ==
  \E h : /\ Path(node, ms, h) /\ h[Len(ms)] = goal
         /\ \A i \in 1..Len(ms) : Fits(h[i - 1], ms[i])

(* Nothing in q comes from a slave's configuration. *)
Quiet(q) == \A i \in 1..Len(q) : q[i].kind \notin {"config", "response"}

(* The calls that messages in q speak of have been made. *)
Made(q, n) == \A i \in 1..Len(q) : q[i].kind \in {"header", "transmission"} => q[i].call <= n

NodeKinds == {"config", "response", "status"}

Role(d) == IF d = Master THEN "Master" ELSE "Slave"

Started(d) ==
  /\ chan[d][d] = <<>>
  /\ status[d] = "Unknown" =>
       /\ mode[d] = "Inactive"
       /\ \A c \in Controllers : nodes[c][d] = NoNode /\ chan[d][c] = <<>>
  /\ status[d] # "Unknown" => mode[d] = Role(d) /\ nodes[d][d].mode = Role(d)

CallsAreMade == \A c, d \in Controllers : Made(chan[c][d], sends)

FromMaster ==
  \A c \in Slaves : Quiet(chan[Master][c]) /\ nodes[c][Master].mode = "Inactive"

FromSlaves ==
  \A c \in Controllers, d \in Slaves : c # d => Leads(nodes[c][d], chan[d][c], Actual(d))

Inv ==
  /\ TypeOK /\ CallsAreMade
  /\ \A d \in Controllers : Started(d)
  /\ FromMaster /\ FromSlaves /\ RespondedIsExact

-----------------------------------------------------------------------------
(* Lemmas about queues. *)

LEMMA Joined ==
  ASSUME NEW q \in Seq(Messages), NEW r \in Seq(Messages)
  PROVE  /\ q \o r \in Seq(Messages) /\ Len(q \o r) = Len(q) + Len(r)
         /\ \A i \in 1..Len(q) : (q \o r)[i] = q[i]
         /\ \A i \in 1..Len(r) : (q \o r)[Len(q) + i] = r[i]
OBVIOUS

LEMMA JoinedIndex ==
  ASSUME NEW q \in Seq(Messages), NEW r \in Seq(Messages), NEW i \in 1..Len(q \o r)
  PROVE  \/ i \in 1..Len(q) /\ (q \o r)[i] = q[i]
         \/ i - Len(q) \in 1..Len(r) /\ (q \o r)[i] = r[i - Len(q)]
OBVIOUS

LEMMA Rest ==
  ASSUME NEW q \in Seq(Messages), q # <<>>
  PROVE  /\ Tail(q) \in Seq(Messages) /\ Len(Tail(q)) = Len(q) - 1 /\ Len(q) > 0
         /\ \A i \in 1..Len(Tail(q)) : Tail(q)[i] = q[i + 1]
         /\ Head(q) = q[1] /\ Head(q) \in Messages
OBVIOUS

LEMMA QuietQueue ==
  ASSUME NEW q \in Seq(Messages), Quiet(q)
  PROVE  /\ \A r \in Seq(Messages) : Quiet(r) => Quiet(q \o r)
         /\ q # <<>> => Quiet(Tail(q)) /\ Head(q).kind \notin {"config", "response"}
<1>1. ASSUME NEW r \in Seq(Messages), Quiet(r) PROVE Quiet(q \o r)
  BY <1>1, JoinedIndex DEF Quiet
<1>2. ASSUME q # <<>> PROVE Quiet(Tail(q)) /\ Head(q).kind \notin {"config", "response"}
  <2>1. \A i \in 1..Len(Tail(q)) : i + 1 \in 1..Len(q)
    BY <1>2, Rest
  <2>2. 1 \in 1..Len(q)
    BY <1>2, Rest
  <2> QED BY <1>2, <2>1, <2>2, Rest DEF Quiet
<1> QED BY <1>1, <1>2

LEMMA MadeQueue ==
  ASSUME NEW q \in Seq(Messages), NEW n \in Nat, Made(q, n)
  PROVE  /\ \A r \in Seq(Messages), k \in Nat : Made(r, k) /\ n <= k => Made(q \o r, k)
         /\ q # <<>> => Made(Tail(q), n)
         /\ q # <<>> /\ Head(q).kind \in {"header", "transmission"} => Head(q).call <= n
<1>1. ASSUME NEW r \in Seq(Messages), NEW k \in Nat, Made(r, k), n <= k
      PROVE  Made(q \o r, k)
  <2> SUFFICES ASSUME NEW i \in 1..Len(q \o r), (q \o r)[i].kind \in {"header", "transmission"}
               PROVE  (q \o r)[i].call <= k
    BY DEF Made
  <2>1. (q \o r)[i] \in Messages
    BY Joined
  <2>2. (q \o r)[i].call \in Nat
    BY <2>1, LinAssumption DEF Messages
  <2>3. CASE i \in 1..Len(q) /\ (q \o r)[i] = q[i]
    <3>1. q[i].call <= n
      BY <2>3 DEF Made
    <3> QED BY <2>2, <2>3, <3>1, <1>1
  <2>4. CASE i - Len(q) \in 1..Len(r) /\ (q \o r)[i] = r[i - Len(q)]
    BY <2>4, <1>1 DEF Made
  <2> QED BY <2>3, <2>4, JoinedIndex
<1>2. ASSUME q # <<>> PROVE Made(Tail(q), n)
  <2>1. \A i \in 1..Len(Tail(q)) : i + 1 \in 1..Len(q)
    BY <1>2, Rest
  <2> QED BY <1>2, <2>1, Rest DEF Made
<1>3. ASSUME q # <<>>, Head(q).kind \in {"header", "transmission"} PROVE Head(q).call <= n
  <2>2. 1 \in 1..Len(q)
    BY <1>3, Rest
  <2> QED BY <1>3, <2>2, Rest DEF Made
<1> QED BY <1>1, <1>2, <1>3

(* No messages lead nowhere else, and what leads from a to b may follow    *)
(* what leads to a.                                                        *)
LEMMA LeadsNowhere ==
  ASSUME NEW node \in Node
  PROVE  Leads(node, <<>>, node)
<1>1. Path(node, <<>>, [i \in 0..0 |-> node])
  BY DEF Path
<1> QED BY <1>1 DEF Leads

LEMMA LeadsOneStep ==
  ASSUME NEW node \in Node, NEW m \in Messages, Fits(node, m)
  PROVE  Leads(node, <<m>>, NodeAfter(node, m))
<1>1. NodeAfter(node, m) \in Node
  BY NodeAfterType
<1>2. PICK h : h = [i \in 0..1 |-> IF i = 0 THEN node ELSE NodeAfter(node, m)]
  OBVIOUS
<1>3. Len(<<m>>) = 1 /\ <<m>>[1] = m
  OBVIOUS
<1>4. h \in [0..1 -> Node] /\ h[0] = node /\ h[1] = NodeAfter(node, m)
  BY <1>1, <1>2
<1>5. \A i \in 1..1 : i = 1 /\ i - 1 = 0
  OBVIOUS
<1>6. Path(node, <<m>>, h)
  BY <1>3, <1>4, <1>5 DEF Path
<1> QED BY <1>3, <1>4, <1>5, <1>6 DEF Leads

LEMMA LeadsOn ==
  ASSUME NEW node \in Node, NEW q \in Seq(Messages), NEW a \in Node,
         NEW r \in Seq(Messages), NEW b \in Node, Leads(node, q, a), Leads(a, r, b)
  PROVE  Leads(node, q \o r, b)
<1>1. PICK g : /\ Path(node, q, g) /\ g[Len(q)] = a
               /\ \A i \in 1..Len(q) : Fits(g[i - 1], q[i])
  BY DEF Leads
<1>2. PICK h : /\ Path(a, r, h) /\ h[Len(r)] = b
               /\ \A i \in 1..Len(r) : Fits(h[i - 1], r[i])
  BY DEF Leads
<1>3. PICK n \in Nat : n = Len(q)
  OBVIOUS
<1>4. PICK k \in Nat : k = Len(r)
  OBVIOUS
<1>5. PICK p : p = q \o r
  OBVIOUS
<1>6. /\ p \in Seq(Messages) /\ Len(p) = n + k
      /\ \A i \in 1..n : p[i] = q[i]
      /\ \A i \in 1..k : p[n + i] = r[i]
  BY <1>3, <1>4, <1>5, Joined
<1>7. PICK f : f = [i \in 0..(n + k) |-> IF i <= n THEN g[i] ELSE h[i - n]]
  OBVIOUS
<1>8. /\ g \in [0..n -> Node] /\ g[0] = node /\ g[n] = a
      /\ \A i \in 1..n : g[i] = NodeAfter(g[i - 1], q[i]) /\ Fits(g[i - 1], q[i])
  BY <1>1, <1>3 DEF Path
<1>9. /\ h \in [0..k -> Node] /\ h[0] = a /\ h[k] = b
      /\ \A i \in 1..k : h[i] = NodeAfter(h[i - 1], r[i]) /\ Fits(h[i - 1], r[i])
  BY <1>2, <1>4 DEF Path
<1>10. f \in [0..(n + k) -> Node] /\ f[0] = node
  BY <1>7, <1>8, <1>9
<1>11. \A i \in 0..k : f[n + i] = h[i]
  <2> SUFFICES ASSUME NEW i \in 0..k PROVE f[n + i] = h[i]
    OBVIOUS
  <2>1. CASE i = 0
    BY <2>1, <1>7, <1>8, <1>9
  <2>2. CASE i # 0
    BY <2>2, <1>7
  <2> QED BY <2>1, <2>2
<1>12. \A i \in 0..n : f[i] = g[i]
  BY <1>7
<1>13. ASSUME NEW i \in 1..(n + k)
       PROVE  f[i] = NodeAfter(f[i - 1], p[i]) /\ Fits(f[i - 1], p[i])
  <2>1. CASE i \in 1..n
    <3>1. i \in 0..n /\ i - 1 \in 0..n
      BY <2>1
    <3> QED BY <2>1, <3>1, <1>6, <1>8, <1>12
  <2>2. CASE i \notin 1..n
    <3>1. PICK j \in 1..k : i = n + j
      <4>1. i - n \in 1..k /\ i = n + (i - n)
        BY <2>2
      <4> QED BY <4>1
    <3>2. j \in 0..k /\ j - 1 \in 0..k /\ i - 1 = n + (j - 1)
      BY <3>1
    <3>3. f[i] = h[j] /\ f[i - 1] = h[j - 1] /\ p[i] = r[j]
      BY <3>1, <3>2, <1>6, <1>11
    <3> QED BY <3>3, <1>9
  <2> QED BY <2>1, <2>2
<1>14. Path(node, p, f) /\ f[n + k] = b
  <2>1. f[n + k] = h[k]
    BY <1>11
  <2> QED BY <2>1, <1>6, <1>9, <1>10, <1>13 DEF Path
<1> QED BY <1>5, <1>6, <1>13, <1>14 DEF Leads

(* Once the first message has been handled, the rest leads to the same.    *)
LEMMA LeadsRest ==
  ASSUME NEW node \in Node, NEW q \in Seq(Messages), NEW goal, Leads(node, q, goal), q # <<>>
  PROVE  /\ Leads(NodeAfter(node, Head(q)), Tail(q), goal)
         /\ Fits(node, Head(q))
<1>1. PICK h : /\ Path(node, q, h) /\ h[Len(q)] = goal
               /\ \A i \in 1..Len(q) : Fits(h[i - 1], q[i])
  BY DEF Leads
<1>2. PICK rest : rest = Tail(q)
  OBVIOUS
<1>3. /\ rest \in Seq(Messages) /\ Len(rest) = Len(q) - 1 /\ Len(q) > 0
      /\ \A i \in 1..Len(rest) : rest[i] = q[i + 1]
      /\ Head(q) = q[1] /\ Head(q) \in Messages
  BY <1>2, Rest
<1>5. PICK g : g = [i \in 0..Len(rest) |-> h[i + 1]]
  OBVIOUS
<1>6. g \in [0..Len(rest) -> Node] /\ g[0] = NodeAfter(node, Head(q))
  BY <1>1, <1>3, <1>5 DEF Path
<1>7. ASSUME NEW i \in 1..Len(rest)
      PROVE  g[i] = NodeAfter(g[i - 1], rest[i]) /\ Fits(g[i - 1], rest[i])
  <2>1. i + 1 \in 1..Len(q) /\ (i + 1) - 1 = i /\ (i - 1) + 1 = i /\ i - 1 \in 0..Len(rest)
    BY <1>3
  <2>2. g[i] = h[i + 1] /\ g[i - 1] = h[i]
    BY <2>1, <1>5
  <2> QED BY <2>1, <2>2, <1>1, <1>3 DEF Path
<1>8. Path(NodeAfter(node, Head(q)), rest, g)
  BY <1>6, <1>7 DEF Path
<1>9. g[Len(rest)] = h[Len(q)]
  BY <1>3, <1>5
<1>10. Fits(node, Head(q))
  <2>1. 1 \in 1..Len(q) /\ 1 - 1 = 0
    BY <1>3
  <2> QED BY <2>1, <1>1, <1>3 DEF Path
<1> QED BY <1>1, <1>2, <1>7, <1>8, <1>9, <1>10 DEF Leads

LEMMA LeadsFold ==
  ASSUME NEW node \in Node, NEW q \in Seq(Messages), NEW goal, Leads(node, q, goal)
  PROVE  FoldLeft(NodeAfter, node, q) = goal
BY FoldOfPath DEF Leads

-----------------------------------------------------------------------------
(* Lemmas about messages and nodes. *)

LEMMA MessageTypes ==
  /\ \A dynamic \in BOOLEAN, r \in [Ids -> Response] : ConfigMsg(dynamic, r) \in Messages
  /\ \A id \in Ids, r \in Response : ResponseMsg(id, r) \in Messages
  /\ \A s \in {"Operational", "Sleep"} : StatusMsg(s) \in Messages
  /\ \A id \in Ids, n \in 1..MaxSends : HeaderMsg(id, n) \in Messages
  /\ \A id \in Ids, f \in Forms \cup {AnyForm}, s \in {"RX_OK", "RX_ERROR", "RX_NO_RESPONSE"},
        n \in 1..MaxSends : Transmission(id, f, s, n) \in Messages
  /\ \A k \in {"sleep", "wakeup"} : Signal(k) \in Messages
BY DEF Messages, ConfigMsg, ResponseMsg, StatusMsg, HeaderMsg, Transmission, Signal

LEMMA MessageKinds ==
  ASSUME NEW m \in Messages
  PROVE  /\ m.kind = "config" => m.dynamic \in BOOLEAN /\ m.responses \in [Ids -> Response]
         /\ m.kind = "response" => m.id \in Ids /\ m.response \in Response
         /\ m.kind = "status" => m.status \in {"Operational", "Sleep"}
         /\ m.kind \in {"header", "transmission"} => m.id \in Ids /\ m.call \in 1..MaxSends
         /\ m.kind \in {"config", "response", "status", "header", "transmission", "sleep", "wakeup"}
BY DEF Messages

LEMMA NoNodeType == NoNode \in Node /\ NoResponses \in [Ids -> Response]
BY DEF NoNode, Node, NoResponses, Response

(* What answers a header: nothing, or one transmission for that call.      *)
LEMMA AnswerType ==
  ASSUME NEW r \in Response, NEW id \in Ids, NEW n \in 1..MaxSends
  PROVE  /\ Answer(r, id, n) \in Seq(Messages) /\ Quiet(Answer(r, id, n))
         /\ Made(Answer(r, id, n), n)
         /\ \A node \in Node : Leads(node, Answer(r, id, n), node)
<1>1. CASE Answers(r)
  <2>1. r.form \in Forms \cup {AnyForm}
    BY DEF Response
  <2>2. PICK m \in Messages : m = Transmission(id, r.form, "RX_OK", n)
    BY <2>1, MessageTypes
  <2>3. Answer(r, id, n) = <<m>>
    BY <1>1, <2>2 DEF Answer
  <2>4. m.kind = "transmission" /\ m.call = n
    BY <2>2 DEF Transmission
  <2>5. Quiet(<<m>>) /\ Made(<<m>>, n)
    BY <2>4 DEF Quiet, Made
  <2>6. ASSUME NEW node \in Node PROVE Leads(node, <<m>>, node)
    <3>1. Fits(node, m) /\ NodeAfter(node, m) = node
      BY <2>4 DEF Fits, NodeAfter
    <3> QED BY <3>1, LeadsOneStep
  <2> QED BY <2>3, <2>5, <2>6
<1>2. CASE ~Answers(r)
  <2>1. Answer(r, id, n) = <<>>
    BY <1>2 DEF Answer
  <2> QED BY <2>1, LeadsNowhere DEF Quiet, Made
<1> QED BY <1>1, <1>2

(* A message that speaks of no node changes none. *)
LEMMA OtherMessages ==
  ASSUME NEW node, NEW m, m.kind \notin NodeKinds
  PROVE  NodeAfter(node, m) = node /\ Fits(node, m)
BY DEF NodeAfter, Fits, NodeKinds

-----------------------------------------------------------------------------
(* A step of the controller c that changes only what c keeps of itself,    *)
(* handles at most one message, which speaks of no node, and sends ms.     *)
Takes(q, r) == q # <<>> /\ Head(q).kind \notin NodeKinds /\ r = Tail(q)

OwnStep(c, ms) ==
  /\ \A x \in Controllers : x # c => mode'[x] = mode[x] /\ status'[x] = status[x]
  /\ \A x, y \in Controllers : x # c \/ y # c => nodes'[x][y] = nodes[x][y]
  /\ \A x, y \in Controllers :
       IF x = c /\ y # c THEN chan'[x][y] = chan[x][y] \o ms
       ELSE chan'[x][y] = chan[x][y] \/ (x # y /\ Takes(chan[x][y], chan'[x][y]))
  /\ responded' = responded

LEMMA OwnStepKeeps ==
  ASSUME Inv, NEW c \in Controllers, NEW ms \in Seq(Messages), OwnStep(c, ms), TypeOK',
         Made(ms, sends'), sends <= sends',
         status'[c] # "Unknown" => mode'[c] = Role(c) /\ nodes'[c][c].mode = Role(c),
         status'[c] = "Unknown" => /\ status[c] = "Unknown" /\ mode'[c] = mode[c]
                                   /\ nodes'[c][c] = nodes[c][c] /\ ms = <<>>,
         c = Master => Quiet(ms),
         c \in Slaves => Leads(Actual(c), ms, Actual(c)')
  PROVE  Inv'
<1> USE DEF Inv
<1>1. /\ nodes \in [Controllers -> [Controllers -> Node]] /\ Master \in Controllers
      /\ chan \in [Controllers -> [Controllers -> Seq(Messages)]]
      /\ sends \in Nat /\ sends' \in Nat
      /\ responded \in [Controllers -> SUBSET Ids]
  BY LinAssumption DEF TypeOK
<1>2. CallsAreMade'
  <2> SUFFICES ASSUME NEW x \in Controllers, NEW y \in Controllers PROVE Made(chan'[x][y], sends')
    BY DEF CallsAreMade
  <2>1. Made(chan[x][y], sends) /\ chan[x][y] \in Seq(Messages)
    BY <1>1 DEF CallsAreMade
  <2>2. Made(<<>>, sends') /\ <<>> \in Seq(Messages) /\ chan[x][y] \o <<>> = chan[x][y]
    BY <2>1 DEF Made
  <2>6. \A r \in Seq(Messages), k \in Nat :
          Made(r, k) /\ sends <= k => Made(chan[x][y] \o r, k)
    BY <1>1, <2>1, MadeQueue
  <2>3. Made(chan[x][y], sends')
    BY <1>1, <2>2, <2>6
  <2>4. CASE chan'[x][y] = chan[x][y] \o ms
    BY <2>4, <1>1, <2>6
  <2>5. CASE Takes(chan[x][y], chan'[x][y])
    BY <2>5, <2>1, <2>3, <1>1, MadeQueue DEF Takes
  <2> QED BY <2>3, <2>4, <2>5 DEF OwnStep
<1>3. ASSUME NEW d \in Controllers PROVE Started(d)'
  <2>1. chan'[d][d] = <<>>
    BY DEF OwnStep, Started
  <2>2. CASE status'[d] = "Unknown"
    <3>1. status[d] = "Unknown" /\ mode'[d] = mode[d]
      BY <2>2 DEF OwnStep
    <3>2. \A x \in Controllers : nodes[x][d] = NoNode /\ chan[d][x] = <<>>
      BY <3>1 DEF Started
    <3>3. ASSUME NEW x \in Controllers PROVE nodes'[x][d] = NoNode /\ chan'[d][x] = <<>>
      <4>1. nodes'[x][d] = NoNode
        BY <2>2, <3>2 DEF OwnStep
      <4>2. chan'[d][x] = <<>>
        <5>1. CASE d = c /\ x # c
          <6>1. ms = <<>>
            BY <5>1, <2>2
          <6> QED BY <5>1, <6>1, <3>2 DEF OwnStep
        <5>2. CASE ~(d = c /\ x # c)
          BY <5>2, <3>2 DEF OwnStep, Takes
        <5> QED BY <5>1, <5>2
      <4> QED BY <4>1, <4>2
    <3> QED BY <2>1, <2>2, <3>1, <3>3 DEF Started
  <2>3. CASE status'[d] # "Unknown" /\ d # c
    <3>1. status[d] # "Unknown" /\ mode'[d] = mode[d] /\ nodes'[d][d] = nodes[d][d]
      BY <2>3 DEF OwnStep
    <3> QED BY <2>1, <2>3, <3>1 DEF Started, Role
  <2>4. CASE status'[d] # "Unknown" /\ d = c
    BY <2>1, <2>4 DEF Started, Role
  <2> QED BY <2>2, <2>3, <2>4
<1>4. FromMaster'
  <2> SUFFICES ASSUME NEW x \in Slaves
               PROVE  Quiet(chan'[Master][x]) /\ nodes'[x][Master].mode = "Inactive"
    BY DEF FromMaster
  <2>1. x \in Controllers /\ x # Master
    BY DEF Slaves
  <2>2. Quiet(chan[Master][x]) /\ chan[Master][x] \in Seq(Messages)
    BY <1>1, <2>1 DEF FromMaster
  <2>3. nodes'[x][Master] = nodes[x][Master]
    BY <1>1, <2>1 DEF OwnStep
  <2>4. Quiet(chan'[Master][x])
    <3>1. CASE chan'[Master][x] = chan[Master][x] \o ms /\ c = Master
      BY <3>1, <2>2, QuietQueue
    <3>2. CASE Takes(chan[Master][x], chan'[Master][x])
      BY <3>2, <2>2, QuietQueue DEF Takes
    <3>3. CASE chan'[Master][x] = chan[Master][x]
      BY <3>3, <2>2
    <3> QED BY <3>1, <3>2, <3>3, <1>1, <2>1 DEF OwnStep
  <2> QED BY <2>3, <2>4 DEF FromMaster
<1>5. FromSlaves'
  <2> SUFFICES ASSUME NEW x \in Controllers, NEW d \in Slaves, x # d
               PROVE  Leads(nodes'[x][d], chan'[d][x], Actual(d)')
    BY DEF FromSlaves
  <2>1. Leads(nodes[x][d], chan[d][x], Actual(d)) /\ d \in Controllers
    BY DEF FromSlaves, Slaves
  <2>2. nodes'[x][d] = nodes[x][d] /\ nodes[x][d] \in Node /\ chan[d][x] \in Seq(Messages)
    BY <1>1, <2>1 DEF OwnStep
  <2>3. CASE d = c
    <3>1. chan'[d][x] = chan[d][x] \o ms
      BY <2>1, <2>3 DEF OwnStep
    <3>2. Actual(c) \in Node /\ Actual(c)' \in Node
      <4>1. ASSUME NEW n \in Node, NEW t \in {"Unknown", "Operational", "Sleep"}
            PROVE  [n EXCEPT !.status = t] \in Node
        BY DEF Node
      <4>2. /\ nodes[c][c] \in Node /\ nodes'[c][c] \in Node
            /\ status[c] \in {"Unknown", "Operational", "Sleep"}
            /\ status'[c] \in {"Unknown", "Operational", "Sleep"}
        BY DEF TypeOK
      <4> QED BY <4>1, <4>2, NoNodeType DEF Actual
    <3> QED BY <2>1, <2>2, <2>3, <3>1, <3>2, LeadsOn
  <2>4. CASE d # c
    <3>1. Actual(d)' = Actual(d)
      BY <2>1, <2>4 DEF Actual, OwnStep
    <3>2. CASE chan'[d][x] = chan[d][x]
      BY <3>1, <3>2, <2>1, <2>2
    <3>3. CASE Takes(chan[d][x], chan'[d][x])
      <4>1. NodeAfter(nodes[x][d], Head(chan[d][x])) = nodes[x][d]
        BY <3>3, OtherMessages DEF Takes
      <4> QED BY <4>1, <3>1, <3>3, <2>1, <2>2, LeadsRest DEF Takes
    <3> QED BY <3>2, <3>3, <2>1, <2>4 DEF OwnStep
  <2> QED BY <2>3, <2>4
<1>6. RespondedIsExact'
  <2>1. \A x, d \in Controllers : x # d => nodes'[x][d] = nodes[x][d]
    BY DEF OwnStep
  <2>2. ASSUME NEW x \in Controllers
        PROVE  responded'[x] = {id \in Ids : \E d \in Controllers \ {x} :
                      nodes'[x][d].mode = "Slave"
                        /\ nodes'[x][d].responses[id].mode = "TxUnconditional"}
    BY <2>1 DEF OwnStep, RespondedIsExact
  <2> QED BY <2>2 DEF RespondedIsExact
<1> QED BY <1>2, <1>3, <1>4, <1>5, <1>6

-----------------------------------------------------------------------------
(* The effect on the queues of sending, and of handling a message. *)

Statuses == {"Unknown", "Operational", "Sleep"}

LEMMA Typing ==
  ASSUME TypeOK
  PROVE  /\ mode \in [Controllers -> {"Inactive", "Master", "Slave"}]
         /\ status \in [Controllers -> Statuses]
         /\ nodes \in [Controllers -> [Controllers -> Node]]
         /\ responded \in [Controllers -> SUBSET Ids]
         /\ chan \in [Controllers -> [Controllers -> Seq(Messages)]]
         /\ sends \in 0..MaxSends /\ awaited \subseteq 1..sends /\ told \subseteq 1..sends
         /\ changes \in 0..MaxChanges
         /\ Master \in Controllers /\ Slaves \subseteq Controllers
         /\ MaxSends \in Nat /\ MaxChanges \in Nat
BY LinAssumption DEF TypeOK, Statuses, Slaves

LEMMA NodeTyping ==
  ASSUME NEW n \in Node
  PROVE  /\ n.mode \in {"Inactive", "Master", "Slave"} /\ n.status \in Statuses
         /\ n.dynamic \in BOOLEAN /\ n.responses \in [Ids -> Response]
         /\ \A s \in Statuses : [n EXCEPT !.status = s] \in Node
         /\ \A r \in [Ids -> Response] : [n EXCEPT !.responses = r] \in Node
         /\ \A id \in Ids, r \in Response : [n EXCEPT !.responses[id] = r] \in Node
BY DEF Node, Statuses

LEMMA ActualType ==
  ASSUME TypeOK, NEW c \in Controllers
  PROVE  Actual(c) \in Node
<1>1. nodes[c][c] \in Node /\ status[c] \in Statuses
  BY Typing
<1> QED BY <1>1, NodeTyping, NoNodeType DEF Actual

LEMMA SendEffect ==
  ASSUME TypeOK, NEW c \in Controllers, NEW ms \in Seq(Messages), SendMsg(c, ms)
  PROVE  /\ chan' \in [Controllers -> [Controllers -> Seq(Messages)]]
         /\ \A x, y \in Controllers :
              IF x = c /\ y # c THEN chan'[x][y] = chan[x][y] \o ms
              ELSE chan'[x][y] = chan[x][y]
<1>1. chan \in [Controllers -> [Controllers -> Seq(Messages)]]
  BY Typing
<1>2. \A y \in Controllers : chan[c][y] \o ms \in Seq(Messages)
  BY <1>1, Joined
<1> QED BY <1>1, <1>2 DEF SendMsg

LEMMA ReceiveEffect ==
  ASSUME TypeOK, NEW c \in Controllers, NEW d \in Controllers, Started(c), NEW kinds,
         Incoming(c, d, kinds), NEW ms \in Seq(Messages), ReceiveAndSend(c, d, ms)
  PROVE  /\ chan' \in [Controllers -> [Controllers -> Seq(Messages)]]
         /\ c # d /\ chan[d][c] # <<>> /\ Head(chan[d][c]).kind \in kinds
         /\ Head(chan[d][c]) \in Messages
         /\ chan'[d][c] = Tail(chan[d][c])
         /\ \A x, y \in Controllers :
              IF x = c /\ y # c THEN chan'[x][y] = chan[x][y] \o ms
              ELSE (x # d \/ y # c) => chan'[x][y] = chan[x][y]
<1>1. chan \in [Controllers -> [Controllers -> Seq(Messages)]]
  BY Typing
<1>2. \A y \in Controllers : chan[c][y] \o ms \in Seq(Messages)
  BY <1>1, Joined
<1>3. chan[d][c] # <<>> /\ Head(chan[d][c]).kind \in kinds
  BY DEF Incoming
<1>4. c # d
  BY <1>3 DEF Started
<1>5. Tail(chan[d][c]) \in Seq(Messages) /\ Head(chan[d][c]) \in Messages
  BY <1>1, <1>3, Rest
<1>6. chan' \in [Controllers -> [Controllers -> Seq(Messages)]]
  BY <1>1, <1>2, <1>5 DEF ReceiveAndSend
<1>7. chan'[d][c] = Tail(chan[d][c])
  BY DEF ReceiveAndSend
<1>8. \A x, y \in Controllers :
        IF x = c /\ y # c THEN chan'[x][y] = chan[x][y] \o ms
        ELSE (x # d \/ y # c) => chan'[x][y] = chan[x][y]
  BY <1>4 DEF ReceiveAndSend
<1> QED BY <1>3, <1>4, <1>5, <1>6, <1>7, <1>8

(* Only c changes, and only what it keeps of itself. *)
OwnChange(c) ==
  /\ \A x \in Controllers : x # c => mode'[x] = mode[x] /\ status'[x] = status[x]
  /\ \A x, y \in Controllers : x # c \/ y # c => nodes'[x][y] = nodes[x][y]
  /\ responded' = responded

LEMMA SendIsOwn ==
  ASSUME TypeOK, NEW c \in Controllers, NEW ms \in Seq(Messages), SendMsg(c, ms), OwnChange(c)
  PROVE  OwnStep(c, ms)
<1>1. \A x, y \in Controllers :
        IF x = c /\ y # c THEN chan'[x][y] = chan[x][y] \o ms ELSE chan'[x][y] = chan[x][y]
  BY SendEffect
<1>2. \A x, y \in Controllers :
        IF x = c /\ y # c THEN chan'[x][y] = chan[x][y] \o ms
        ELSE chan'[x][y] = chan[x][y] \/ (x # y /\ Takes(chan[x][y], chan'[x][y]))
  BY <1>1
<1> QED BY <1>2 DEF OwnStep, OwnChange

LEMMA ReceiveIsOwn ==
  ASSUME TypeOK, NEW c \in Controllers, NEW d \in Controllers, Started(c), NEW kinds,
         Incoming(c, d, kinds), kinds \cap NodeKinds = {},
         NEW ms \in Seq(Messages), ReceiveAndSend(c, d, ms), OwnChange(c)
  PROVE  OwnStep(c, ms)
<1>1. /\ c # d /\ chan[d][c] # <<>> /\ Head(chan[d][c]).kind \in kinds
      /\ chan'[d][c] = Tail(chan[d][c])
      /\ \A x, y \in Controllers :
              IF x = c /\ y # c THEN chan'[x][y] = chan[x][y] \o ms
              ELSE (x # d \/ y # c) => chan'[x][y] = chan[x][y]
  BY ReceiveEffect
<1>2. Takes(chan[d][c], chan'[d][c])
  BY <1>1 DEF Takes
<1>3. \A x, y \in Controllers :
        IF x = c /\ y # c THEN chan'[x][y] = chan[x][y] \o ms
        ELSE chan'[x][y] = chan[x][y] \/ (x # y /\ Takes(chan[x][y], chan'[x][y]))
  BY <1>1, <1>2
<1> QED BY <1>3 DEF OwnStep, OwnChange

LEMMA NodesEffect ==
  ASSUME TypeOK, NEW c \in Controllers, NEW n \in Node, nodes' = [nodes EXCEPT ![c][c] = n]
  PROVE  /\ nodes' \in [Controllers -> [Controllers -> Node]] /\ nodes'[c][c] = n
         /\ \A x, y \in Controllers : x # c \/ y # c => nodes'[x][y] = nodes[x][y]
BY Typing

(* A message with nothing of a node in it leads nowhere. *)
LEMMA SignalsLeadNowhere ==
  ASSUME NEW m \in Messages, m.kind \notin NodeKinds, NEW node \in Node
  PROVE  Leads(node, <<m>>, node)
BY OtherMessages, LeadsOneStep

-----------------------------------------------------------------------------
(* Init, and one lemma for each action. *)

LEMMA InitInv ==
  ASSUME Init
  PROVE  Inv
<1> USE DEF Init
<1>1. TypeOK
  BY NoNodeType, LinAssumption DEF TypeOK
<1>2. CallsAreMade
  BY DEF CallsAreMade, Made
<1>3. \A d \in Controllers : Started(d)
  BY DEF Started
<1>4. FromMaster
  BY LinAssumption DEF FromMaster, Quiet, NoNode, Slaves
<1>5. FromSlaves
  <2>1. \A d \in Slaves : Actual(d) = NoNode
    BY DEF Actual, Slaves
  <2> QED BY <2>1, NoNodeType, LeadsNowhere DEF FromSlaves, Slaves
<1>6. RespondedIsExact
  BY DEF RespondedIsExact, NoNode
<1> QED BY <1>1, <1>2, <1>3, <1>4, <1>5, <1>6 DEF Inv

LEMMA InitWithInv ==
  ASSUME Inv, NEW c \in Controllers, NEW dynamic \in BOOLEAN, NEW r \in [Ids -> Response],
         InitWith(c, dynamic, r)
  PROVE  Inv'
<1>1. TypeOK
  BY DEF Inv
<1>2. PICK ms : ms = IF c = Master THEN <<>> ELSE <<ConfigMsg(dynamic, r)>>
  OBVIOUS
<1>3. ms \in Seq(Messages) /\ Made(ms, sends) /\ (c = Master => Quiet(ms))
  <2>1. CASE c = Master
    BY <2>1, <1>2 DEF Made, Quiet
  <2>2. CASE c # Master
    <3>1. PICK m \in Messages : m = ConfigMsg(dynamic, r)
      BY MessageTypes
    <3>2. m.kind = "config" /\ ms = <<m>>
      BY <3>1, <1>2, <2>2 DEF ConfigMsg
    <3> QED BY <2>2, <3>2 DEF Made
  <2> QED BY <2>1, <2>2
<1>4. SendMsg(c, ms)
  BY <1>2 DEF InitWith
<1>5. mode' = [mode EXCEPT ![c] = Role(c)] /\ status' = [status EXCEPT ![c] = "Operational"]
  BY DEF InitWith, Role
<1>6. PICK n : n = [mode |-> Role(c), status |-> "Operational", dynamic |-> dynamic, responses |-> r]
  OBVIOUS
<1>7. n \in Node
  BY <1>6 DEF Node, Role
<1>8. nodes' = [nodes EXCEPT ![c][c] = n]
  <2>1. mode'[c] = Role(c)
    BY <1>1, <1>5, Typing
  <2> QED BY <1>6, <2>1 DEF InitWith
<1>9. UNCHANGED <<responded, sends, awaited, told, changes>>
  BY DEF InitWith, busVars
<1>10. TypeOK'
  BY <1>1, <1>3, <1>4, <1>5, <1>7, <1>8, <1>9, SendEffect, Typing DEF TypeOK, Role
<1>11. OwnStep(c, ms)
  <2>1. OwnChange(c)
    BY <1>1, <1>5, <1>7, <1>8, <1>9, NodesEffect, Typing DEF OwnChange
  <2> QED BY <2>1, <1>1, <1>3, <1>4, SendIsOwn
<1>12. /\ status[c] = "Unknown" /\ status'[c] = "Operational"
       /\ mode'[c] = Role(c) /\ nodes'[c][c] = n
  BY <1>1, <1>5, <1>8, Typing DEF InitWith
<1>13. ASSUME c \in Slaves PROVE Leads(Actual(c), ms, Actual(c)')
  <2>1. c # Master /\ ms = <<ConfigMsg(dynamic, r)>>
    BY <1>2, <1>13 DEF Slaves
  <2>2. Actual(c) = NoNode
    BY <1>12 DEF Actual
  <2>3. PICK m \in Messages : m = ConfigMsg(dynamic, r)
    BY MessageTypes
  <2>4. m.kind = "config" /\ m.dynamic = dynamic /\ m.responses = r
    BY <2>3 DEF ConfigMsg
  <2>5. NodeAfter(NoNode, m) = n
    BY <1>6, <2>1, <2>4 DEF NodeAfter, Role
  <2>6. Fits(NoNode, m)
    BY <2>4 DEF Fits, NoNode
  <2>7. Actual(c)' = [n EXCEPT !.status = "Operational"]
    BY <1>12 DEF Actual
  <2>8. Actual(c)' = n
    BY <1>6, <2>7
  <2> QED BY <2>1, <2>2, <2>3, <2>5, <2>6, <2>8, NoNodeType, LeadsOneStep
<1>14. n.mode = Role(c) /\ sends' = sends /\ sends \in Nat
  BY <1>1, <1>6, <1>9, Typing
<1> QED BY <1>3, <1>10, <1>11, <1>12, <1>13, <1>14, OwnStepKeeps

LEMMA SetFrameResponseInv ==
  ASSUME Inv, NEW c \in Controllers, NEW id \in Ids, NEW r \in Response,
         SetFrameResponse(c, id, r)
  PROVE  Inv'
<1>1. TypeOK /\ Started(c)
  BY DEF Inv
<1>2. status[c] # "Unknown" /\ mode[c] = Role(c) /\ nodes[c][c].mode = Role(c)
  BY <1>1 DEF SetFrameResponse, Started
<1>3. PICK ms : ms = Distribution(c, <<ResponseMsg(id, r)>>)
  OBVIOUS
<1>4. PICK m \in Messages : m = ResponseMsg(id, r)
  BY MessageTypes
<1>5. m.kind = "response" /\ m.id = id /\ m.response = r
  BY <1>4 DEF ResponseMsg
<1>6. ms = IF c = Master THEN <<>> ELSE <<m>>
  BY <1>2, <1>3, <1>4 DEF Distribution, Role
<1>7. ms \in Seq(Messages) /\ Made(ms, sends) /\ (c = Master => Quiet(ms))
  BY <1>5, <1>6 DEF Made, Quiet
<1>8. SendMsg(c, ms) /\ nodes' = [nodes EXCEPT ![c][c].responses[id] = r]
  BY <1>3 DEF SetFrameResponse
<1>9. UNCHANGED <<mode, status, responded, sends, awaited, told>>
  BY DEF SetFrameResponse, busVars
<1>10. PICK n : n = [nodes[c][c] EXCEPT !.responses[id] = r]
  OBVIOUS
<1>11. nodes[c][c] \in Node /\ n \in Node
  BY <1>1, <1>10, Typing, NodeTyping
<1>12. nodes' = [nodes EXCEPT ![c][c] = n]
  BY <1>1, <1>8, <1>10, Typing
<1>18. /\ nodes' \in [Controllers -> [Controllers -> Node]] /\ nodes'[c][c] = n
       /\ \A x, y \in Controllers : x # c \/ y # c => nodes'[x][y] = nodes[x][y]
  BY <1>1, <1>11, <1>12, NodesEffect
<1>13. changes' \in 0..MaxChanges
  BY <1>1, Typing DEF SetFrameResponse
<1>19. chan' \in [Controllers -> [Controllers -> Seq(Messages)]]
  BY <1>1, <1>7, <1>8, SendEffect
<1>14. TypeOK'
  BY <1>1, <1>9, <1>13, <1>18, <1>19 DEF TypeOK
<1>15. OwnStep(c, ms)
  <2>1. OwnChange(c)
    BY <1>9, <1>18 DEF OwnChange
  <2> QED BY <2>1, <1>1, <1>7, <1>8, SendIsOwn
<1>16. nodes'[c][c] = n /\ n.mode = Role(c) /\ sends' = sends /\ sends \in Nat
  <2>1. n.mode = nodes[c][c].mode
    BY <1>10, <1>11 DEF Node
  <2> QED BY <1>1, <1>2, <1>9, <1>18, <2>1, Typing
<1>17. ASSUME c \in Slaves PROVE Leads(Actual(c), ms, Actual(c)')
  <2>1. c # Master /\ ms = <<m>>
    BY <1>6, <1>17 DEF Slaves
  <2>2. PICK s \in Statuses : s = status[c]
    BY <1>1, Typing
  <2>3. Actual(c) = [nodes[c][c] EXCEPT !.status = s] /\ Actual(c)' = [n EXCEPT !.status = s]
    BY <1>2, <1>9, <1>16, <2>2 DEF Actual
  <2>4. PICK a \in Node : a = Actual(c)
    BY <1>1, ActualType
  <2>5. NodeAfter(a, m) = Actual(c)'
    <3>1. NodeAfter(a, m) = [a EXCEPT !.responses[id] = r]
      BY <1>5 DEF NodeAfter
    <3>2. PICK e \in Node : e = nodes[c][c]
      BY <1>11
    <3>3. n = [e EXCEPT !.responses[id] = r] /\ a = [e EXCEPT !.status = s]
      BY <3>2, <1>10, <2>3, <2>4
    <3>4. [a EXCEPT !.responses[id] = r] = [n EXCEPT !.status = s]
      BY <3>3 DEF Node
    <3> QED BY <3>1, <3>4, <2>3
  <2>6. a.mode = "Slave" /\ a.responses[id].mode = "Unused"
    BY <1>2, <1>11, <2>1, <2>3, <2>4 DEF Node, Role, SetFrameResponse
  <2>7. Fits(a, m)
    BY <1>5, <2>6 DEF Fits
  <2> QED BY <2>1, <2>4, <2>5, <2>7, LeadsOneStep
<1> QED BY <1>2, <1>7, <1>9, <1>14, <1>15, <1>16, <1>17, OwnStepKeeps

(* Steps that change nothing but the queues, the outcomes and their count. *)
LEMMA BusStepInv ==
  ASSUME Inv, NEW c \in Controllers, NEW ms \in Seq(Messages), OwnStep(c, ms), TypeOK',
         UNCHANGED <<mode, status, nodes>>, Made(ms, sends'), sends <= sends', Quiet(ms),
         \A node \in Node : Leads(node, ms, node),
         status[c] = "Unknown" => ms = <<>>
  PROVE  Inv'
<1>1. TypeOK /\ Started(c)
  BY DEF Inv
<1>2. Actual(c)' = Actual(c) /\ Actual(c) \in Node
  BY <1>1, ActualType DEF Actual
<1>3. Leads(Actual(c), ms, Actual(c)')
  BY <1>2
<1>4. status'[c] # "Unknown" => mode'[c] = Role(c) /\ nodes'[c][c].mode = Role(c)
  BY <1>1 DEF Started, Role
<1> QED BY <1>3, <1>4, OwnStepKeeps

(* What the master answers to itself, or reports as an error, and what it  *)
(* keeps of its own responses.                                             *)
LEMMA SendHeaderInv ==
  ASSUME Inv, NEW id \in Ids, NEW own \in [Ids -> Response], NEW reported \in BOOLEAN,
         MayCall(Master), SendHeader(id, own, reported),
         UNCHANGED <<mode, status, responded, changes>>
  PROVE  Inv'
<1>1. TypeOK /\ Master \in Controllers /\ Started(Master)
  BY LinAssumption DEF Inv
<1>2. PICK n \in 1..MaxSends : n = sends + 1
  <2>1. sends \in 0..MaxSends /\ sends < MaxSends /\ MaxSends \in Nat
    BY <1>1, Typing DEF MayCall
  <2>2. sends + 1 \in 1..MaxSends
    BY <2>1
  <2> QED BY <2>2
<1>3. PICK v : v = [nodes[Master] EXCEPT ![Master].responses = own]
  OBVIOUS
<1>4. PICK e \in Node : e = [nodes[Master][Master] EXCEPT !.responses = own]
  <2>1. nodes[Master][Master] \in Node
    BY <1>1, Typing
  <2> QED BY <2>1, NodeTyping
<1>5. v = [nodes[Master] EXCEPT ![Master] = e] /\ v \in [Controllers -> Node]
  BY <1>1, <1>3, <1>4, Typing
<1>6. PICK header \in BOOLEAN :
        header = (\/ Cardinality(Responders(v, id)) = 1
                  \/ Cardinality(Responders(v, id)) = 0 /\ HasDynamicNode(Master))
  OBVIOUS
<1>7. PICK ms : ms = IF header THEN <<HeaderMsg(id, n)>> \o Answer(own[id], id, n)
                     ELSE LET d == CHOOSE d \in Responders(v, id) \cup {Master} : TRUE
                          IN  <<Transmission(id,
                                  IF Cardinality(Responders(v, id)) = 0 THEN AnyForm
                                    ELSE v[d].responses[id].form,
                                  IF Cardinality(Responders(v, id)) = 0 THEN "RX_NO_RESPONSE"
                                    ELSE "RX_ERROR", n)>>
  OBVIOUS
<1>8. /\ nodes' = [nodes EXCEPT ![Master] = v] /\ SendMsg(Master, ms) /\ sends' = n
      /\ told' = told \/ told' = told \cup {n}
      /\ awaited' = awaited \/ awaited' = awaited \cup {n}
  BY <1>2, <1>3, <1>6, <1>7 DEF SendHeader
<1>9. nodes' = [nodes EXCEPT ![Master][Master] = e]
  BY <1>1, <1>5, <1>8, Typing
<1>10. own[id] \in Response
  OBVIOUS
<1>11. ms \in Seq(Messages) /\ Quiet(ms) /\ Made(ms, n)
  <2>1. CASE header
    <3>1. PICK m \in Messages : m = HeaderMsg(id, n)
      BY MessageTypes
    <3>2. PICK a : a = Answer(own[id], id, n)
      OBVIOUS
    <3>3. a \in Seq(Messages) /\ Quiet(a) /\ Made(a, n)
      BY <1>10, <3>2, AnswerType
    <3>4. m.kind = "header" /\ m.call = n
      BY <3>1 DEF HeaderMsg
    <3>5. <<m>> \in Seq(Messages) /\ Quiet(<<m>>) /\ Made(<<m>>, n) /\ n \in Nat
      BY <3>4 DEF Quiet, Made
    <3>6. ms = <<m>> \o a
      BY <1>7, <2>1, <3>1, <3>2
    <3>7. ms \in Seq(Messages) /\ Quiet(ms)
      BY <3>3, <3>5, <3>6, Joined, QuietQueue
    <3>8. \A r \in Seq(Messages), k \in Nat : Made(r, k) /\ n <= k => Made(<<m>> \o r, k)
      BY <3>5, MadeQueue
    <3> QED BY <3>3, <3>5, <3>6, <3>7, <3>8
  <2>2. CASE ~header
    <3>1. PICK d : d = CHOOSE x \in Responders(v, id) \cup {Master} : TRUE
      OBVIOUS
    <3>2. d \in Controllers
      BY <1>1, <3>1 DEF Responders
    <3>3. v[d].responses[id].form \in Forms \cup {AnyForm}
      BY <1>5, <3>2 DEF Node, Response
    <3>4. PICK m \in Messages :
            m = Transmission(id, IF Cardinality(Responders(v, id)) = 0 THEN AnyForm
                                   ELSE v[d].responses[id].form,
                                 IF Cardinality(Responders(v, id)) = 0 THEN "RX_NO_RESPONSE"
                                   ELSE "RX_ERROR", n)
      BY <3>3, MessageTypes
    <3>5. m.kind = "transmission" /\ m.call = n
      BY <3>4 DEF Transmission
    <3>6. ms = <<m>>
      BY <1>7, <2>2, <3>1, <3>4
    <3> QED BY <3>5, <3>6 DEF Quiet, Made
  <2> QED BY <2>1, <2>2
<1>12. /\ nodes' \in [Controllers -> [Controllers -> Node]] /\ nodes'[Master][Master] = e
       /\ \A x, y \in Controllers : x # Master \/ y # Master => nodes'[x][y] = nodes[x][y]
  BY <1>1, <1>4, <1>9, NodesEffect
<1>13. chan' \in [Controllers -> [Controllers -> Seq(Messages)]]
  BY <1>1, <1>8, <1>11, SendEffect
<1>14. sends' \in 0..MaxSends /\ awaited' \subseteq 1..sends' /\ told' \subseteq 1..sends'
  BY <1>1, <1>2, <1>8, Typing
<1>15. TypeOK'
  BY <1>1, <1>12, <1>13, <1>14 DEF TypeOK
<1>16. OwnStep(Master, ms)
  <2>1. OwnChange(Master)
    BY <1>12 DEF OwnChange
  <2> QED BY <2>1, <1>1, <1>8, <1>11, SendIsOwn
<1>17. status'[Master] # "Unknown" /\ mode'[Master] = Role(Master) /\ e.mode = Role(Master)
  <2>1. status[Master] # "Unknown"
    BY DEF MayCall
  <2>2. nodes[Master][Master].mode = Role(Master) /\ mode[Master] = Role(Master)
    BY <1>1, <2>1 DEF Started
  <2>3. nodes[Master][Master] \in Node
    BY <1>1, Typing
  <2> QED BY <1>4, <2>1, <2>2, <2>3 DEF Role, Node
<1>18. Master \notin Slaves /\ sends <= sends' /\ Made(ms, sends')
  BY <1>1, <1>2, <1>8, <1>11, Typing DEF Slaves
<1> QED BY <1>1, <1>11, <1>12, <1>15, <1>16, <1>17, <1>18, OwnStepKeeps

LEMMA SendWithoutSlaveInv ==
  ASSUME Inv, SendWithoutSlave
  PROVE  Inv'
<1>1. TypeOK /\ Master \in Controllers
  BY LinAssumption DEF Inv
<1>2. sends' \in 0..MaxSends /\ awaited' \subseteq 1..sends' /\ told' \subseteq 1..sends'
      /\ sends <= sends'
  BY <1>1, Typing DEF SendWithoutSlave, MayCall
<1>3. TypeOK'
  BY <1>1, <1>2 DEF TypeOK, SendWithoutSlave
<1>4. OwnStep(Master, <<>>)
  <2>1. \A x, y \in Controllers : chan[x][y] \o <<>> = chan[x][y]
    BY <1>1, Typing
  <2> QED BY <2>1 DEF SendWithoutSlave, OwnStep
<1>5. <<>> \in Seq(Messages) /\ Made(<<>>, sends') /\ Quiet(<<>>)
  BY DEF Made, Quiet
<1>6. UNCHANGED <<mode, status, nodes>>
  BY DEF SendWithoutSlave
<1> QED BY <1>1, <1>2, <1>3, <1>4, <1>5, <1>6, LeadsNowhere, BusStepInv

(* A controller that sets its status and tells the others. *)
LEMMA StatusStepInv ==
  ASSUME Inv, NEW c \in Controllers, NEW s \in {"Operational", "Sleep"}, status[c] # "Unknown",
         status' = [status EXCEPT ![c] = s], UNCHANGED <<mode, nodes>>,
         NEW ms \in Seq(Messages), OwnStep(c, ms), TypeOK', sends' = sends,
         NEW before \in Seq(Messages), Quiet(before), Made(before, sends),
         \A node \in Node : Leads(node, before, node),
         ms = before \o <<StatusMsg(s)>>
  PROVE  Inv'
<1>1. TypeOK /\ Started(c) /\ sends \in Nat
  BY Typing DEF Inv
<1>2. PICK m \in Messages : m = StatusMsg(s)
  BY MessageTypes
<1>3. m.kind = "status" /\ m.status = s
  BY <1>2 DEF StatusMsg
<1>4. <<m>> \in Seq(Messages) /\ Quiet(<<m>>) /\ Made(<<m>>, sends)
  BY <1>3 DEF Quiet, Made
<1>5. Quiet(ms) /\ Made(ms, sends)
  <2>1. \A r \in Seq(Messages), k \in Nat : Made(r, k) /\ sends <= k => Made(before \o r, k)
    BY <1>1, MadeQueue
  <2>2. ms = before \o <<m>> /\ sends <= sends
    BY <1>1, <1>2
  <2>3. Quiet(ms)
    BY <1>4, <2>2, QuietQueue
  <2> QED BY <1>1, <1>4, <2>1, <2>2, <2>3
<1>6. PICK a \in Node : a = Actual(c)
  BY <1>1, ActualType
<1>7. NodeAfter(a, m) = Actual(c)'
  <2>1. NodeAfter(a, m) = [a EXCEPT !.status = s]
    BY <1>3 DEF NodeAfter
  <2>2. PICK n \in Node : n = nodes[c][c]
    BY <1>1, Typing
  <2>3. PICK t \in Statuses : t = status[c]
    BY <1>1, Typing
  <2>4. a = [n EXCEPT !.status = t]
    BY <1>6, <2>2, <2>3 DEF Actual
  <2>5. status'[c] = s
    BY <1>1, Typing
  <2>6. Actual(c)' = [n EXCEPT !.status = s]
    BY <2>2, <2>5 DEF Actual
  <2>7. [a EXCEPT !.status = s] = [n EXCEPT !.status = s]
    BY <2>4 DEF Node
  <2> QED BY <2>1, <2>6, <2>7
<1>8. Fits(a, m)
  BY <1>3 DEF Fits
<1>9. Actual(c)' \in Node
  BY <1>6, <1>7, NodeAfterType
<1>10. Leads(a, <<m>>, Actual(c)')
  BY <1>7, <1>8, LeadsOneStep
<1>11. Leads(Actual(c), ms, Actual(c)')
  BY <1>2, <1>4, <1>6, <1>9, <1>10, LeadsOn
<1>12. status'[c] # "Unknown" /\ mode'[c] = Role(c) /\ nodes'[c][c].mode = Role(c)
  <2>1. status'[c] = s
    BY <1>1, Typing
  <2> QED BY <2>1, <1>1 DEF Started, Role
<1>13. Made(ms, sends') /\ sends <= sends'
  BY <1>1, <1>5
<1> QED BY <1>5, <1>11, <1>12, <1>13, OwnStepKeeps

LEMMA SetControllerStatusInv ==
  ASSUME Inv, NEW c \in Controllers, NEW s \in {"Operational", "Sleep"}, status[c] # "Unknown",
         NEW before \in Seq(Messages), Quiet(before), Made(before, sends),
         \A node \in Node : Leads(node, before, node),
         SetControllerStatusInternal(c, s, before), changes < MaxChanges, changes' = changes + 1,
         UNCHANGED <<mode, nodes, responded, busVars>>
  PROVE  Inv'
<1>1. TypeOK
  BY DEF Inv
<1>2. PICK ms : ms = before \o <<StatusMsg(s)>>
  OBVIOUS
<1>3. ms \in Seq(Messages)
  <2>1. <<StatusMsg(s)>> \in Seq(Messages)
    BY MessageTypes
  <2> QED BY <1>2, <2>1, Joined
<1>4. SendMsg(c, ms) /\ status' = [status EXCEPT ![c] = s]
  BY <1>2 DEF SetControllerStatusInternal
<1>5. UNCHANGED <<mode, nodes, responded, sends, awaited, told>>
  BY DEF busVars
<1>6. OwnStep(c, ms)
  <2>1. OwnChange(c)
    BY <1>1, <1>4, <1>5, Typing DEF OwnChange
  <2> QED BY <2>1, <1>1, <1>3, <1>4, SendIsOwn
<1>7. TypeOK'
  <2>1. chan' \in [Controllers -> [Controllers -> Seq(Messages)]]
    BY <1>1, <1>3, <1>4, SendEffect
  <2>2. changes' \in 0..MaxChanges
    BY <1>1, Typing
  <2> QED BY <1>1, <1>4, <1>5, <2>1, <2>2 DEF TypeOK
<1> QED BY <1>2, <1>3, <1>4, <1>5, <1>6, <1>7, StatusStepInv

LEMMA SleepAndWakeupInv ==
  ASSUME Inv, NEW c \in Controllers, GoToSleepInternal(c) \/ Wakeup(c) \/ GoToSleep
  PROVE  Inv'
<1>1. ASSUME NEW k \in {"sleep", "wakeup"}
      PROVE  /\ <<Signal(k)>> \in Seq(Messages) /\ Quiet(<<Signal(k)>>)
             /\ Made(<<Signal(k)>>, sends)
             /\ \A node \in Node : Leads(node, <<Signal(k)>>, node)
  <2>1. PICK m \in Messages : m = Signal(k)
    BY MessageTypes
  <2>2. m.kind = k
    BY <2>1 DEF Signal
  <2>3. m.kind \notin NodeKinds
    BY <2>2 DEF NodeKinds
  <2>4. Quiet(<<m>>) /\ Made(<<m>>, sends)
    BY <2>2 DEF Quiet, Made
  <2> QED BY <2>1, <2>3, <2>4, SignalsLeadNowhere
<1>2. CASE GoToSleepInternal(c)
  <2>1. <<>> \in Seq(Messages) /\ Quiet(<<>>) /\ Made(<<>>, sends)
    BY DEF Quiet, Made
  <2> QED BY <1>2, <2>1, LeadsNowhere, SetControllerStatusInv DEF GoToSleepInternal
<1>3. CASE Wakeup(c)
  BY <1>1, <1>3, SetControllerStatusInv DEF Wakeup
<1>4. CASE GoToSleep
  BY <1>1, <1>4, LinAssumption, SetControllerStatusInv DEF GoToSleep
<1> QED BY <1>2, <1>3, <1>4

-----------------------------------------------------------------------------
(* What a controller receives. *)

LEMMA ReceiveHeaderInv ==
  ASSUME Inv, NEW c \in Controllers, NEW d \in Controllers, ReceiveHeader(c, d)
  PROVE  Inv'
<1>1. TypeOK /\ Started(c) /\ sends \in Nat /\ Made(chan[d][c], sends)
  BY Typing DEF Inv, CallsAreMade
<1>2. PICK m : m = Head(chan[d][c])
  OBVIOUS
<1>3. Incoming(c, d, {"header"}) /\ {"header"} \cap NodeKinds = {}
  BY DEF ReceiveHeader, NodeKinds
<1>4. m \in Messages /\ m.kind = "header" /\ m.call <= sends
  <2>1. chan[d][c] # <<>> /\ m.kind = "header" /\ chan[d][c] \in Seq(Messages)
    BY <1>1, <1>2, <1>3, Typing DEF Incoming
  <2> QED BY <1>1, <1>2, <2>1, Rest, MadeQueue
<1>5. m.id \in Ids /\ m.call \in 1..MaxSends
  BY <1>4, MessageKinds
<1>6. PICK r \in Response : r = nodes[c][c].responses[m.id]
  <2>1. nodes[c][c] \in Node
    BY <1>1, Typing
  <2> QED BY <2>1, <1>5, NodeTyping
<1>7. PICK ms : ms = Answer(r, m.id, m.call)
  OBVIOUS
<1>8. /\ ms \in Seq(Messages) /\ Quiet(ms) /\ Made(ms, m.call)
      /\ \A node \in Node : Leads(node, ms, node)
  BY <1>5, <1>7, AnswerType
<1>9. Made(ms, sends)
  <2>1. \A i \in 1..Len(ms) : ms[i].kind \in {"header", "transmission"} => ms[i].call \in 1..MaxSends
    BY <1>8, MessageKinds
  <2>2. m.call \in Nat /\ MaxSends \in Nat
    BY <1>5, LinAssumption
  <2> QED BY <1>1, <1>4, <1>8, <2>1, <2>2 DEF Made
<1>10. ReceiveAndSend(c, d, ms) /\ UNCHANGED <<mode, status, nodes, responded, sends, awaited, told, changes>>
  BY <1>2, <1>6, <1>7 DEF ReceiveHeader, busVars
<1>11. OwnStep(c, ms)
  <2>1. OwnChange(c)
    BY <1>10 DEF OwnChange
  <2> QED BY <2>1, <1>1, <1>3, <1>8, <1>10, ReceiveIsOwn
<1>12. TypeOK'
  <2>1. chan' \in [Controllers -> [Controllers -> Seq(Messages)]]
    BY <1>1, <1>3, <1>8, <1>10, ReceiveEffect
  <2> QED BY <1>1, <1>10, <2>1 DEF TypeOK
<1>13. status[c] = "Unknown" => ms = <<>>
  <2>1. NoNode.responses[m.id].mode = "Unused"
    BY <1>5 DEF NoNode, NoResponses
  <2> QED BY <1>1, <1>6, <1>7, <2>1 DEF Started, Answer, Answers
<1>14. Made(ms, sends') /\ sends <= sends'
  BY <1>1, <1>9, <1>10
<1> QED BY <1>8, <1>10, <1>11, <1>12, <1>13, <1>14, BusStepInv

LEMMA ReceiveTransmissionInv ==
  ASSUME Inv, NEW c \in Controllers, NEW d \in Controllers, ReceiveTransmission(c, d)
  PROVE  Inv'
<1>1. TypeOK /\ Started(c) /\ sends \in Nat /\ Made(chan[d][c], sends)
  BY Typing DEF Inv, CallsAreMade
<1>2. PICK m : m = Head(chan[d][c])
  OBVIOUS
<1>3. Incoming(c, d, {"transmission"}) /\ {"transmission"} \cap NodeKinds = {}
  BY DEF ReceiveTransmission, NodeKinds
<1>4. m \in Messages /\ m.kind = "transmission" /\ m.call <= sends
  <2>1. chan[d][c] # <<>> /\ m.kind = "transmission" /\ chan[d][c] \in Seq(Messages)
    BY <1>1, <1>2, <1>3, Typing DEF Incoming
  <2> QED BY <1>1, <1>2, <2>1, Rest, MadeQueue
<1>5. m.call \in 1..sends
  <2>1. m.call \in 1..MaxSends /\ MaxSends \in Nat
    BY <1>4, MessageKinds, LinAssumption
  <2> QED BY <1>1, <1>4, <2>1
<1>6. told' = told \/ told' = told \cup {m.call}
  BY <1>2 DEF ReceiveTransmission
<1>7. ReceiveAndSend(c, d, <<>>) /\ UNCHANGED <<mode, status, nodes, responded, sends, awaited, changes>>
  BY DEF ReceiveTransmission
<1>8. <<>> \in Seq(Messages) /\ Quiet(<<>>) /\ Made(<<>>, sends') /\ sends <= sends'
  BY <1>1, <1>7 DEF Quiet, Made
<1>9. OwnStep(c, <<>>)
  <2>1. OwnChange(c)
    BY <1>7 DEF OwnChange
  <2> QED BY <2>1, <1>1, <1>3, <1>7, <1>8, ReceiveIsOwn
<1>10. TypeOK'
  <2>1. chan' \in [Controllers -> [Controllers -> Seq(Messages)]]
    BY <1>1, <1>3, <1>7, <1>8, ReceiveEffect
  <2>2. told' \subseteq 1..sends'
    BY <1>1, <1>5, <1>6, <1>7, Typing
  <2> QED BY <1>1, <1>7, <2>1, <2>2 DEF TypeOK
<1> QED BY <1>7, <1>8, <1>9, <1>10, LeadsNowhere, BusStepInv

LEMMA ReceiveSignalInv ==
  ASSUME Inv, NEW c \in Controllers, NEW d \in Controllers, ReceiveSignal(c, d)
  PROVE  Inv'
<1>1. TypeOK /\ Started(c) /\ sends \in Nat
  BY Typing DEF Inv
<1>2. Incoming(c, d, {"sleep", "wakeup"}) /\ {"sleep", "wakeup"} \cap NodeKinds = {}
  BY DEF ReceiveSignal, NodeKinds
<1>3. UNCHANGED <<mode, nodes, responded, sends, awaited, told, changes>>
  BY DEF ReceiveSignal, busVars
<1>4. <<>> \in Seq(Messages) /\ Quiet(<<>>) /\ Made(<<>>, sends') /\ Made(<<>>, sends)
      /\ sends <= sends'
  BY <1>1, <1>3 DEF Quiet, Made
<1>5. CASE ReceiveAndSend(c, d, <<>>) /\ UNCHANGED status
  <2>1. OwnChange(c)
    BY <1>3, <1>5 DEF OwnChange
  <2>2. OwnStep(c, <<>>)
    BY <2>1, <1>1, <1>2, <1>4, <1>5, ReceiveIsOwn
  <2>3. chan' \in [Controllers -> [Controllers -> Seq(Messages)]]
    BY <1>1, <1>2, <1>4, <1>5, ReceiveEffect
  <2>4. TypeOK'
    BY <1>1, <1>3, <1>5, <2>3 DEF TypeOK
  <2> QED BY <1>3, <1>4, <1>5, <2>2, <2>4, LeadsNowhere, BusStepInv
<1>6. ASSUME NEW s \in {"Operational", "Sleep"}, status[c] # "Unknown",
             status' = [status EXCEPT ![c] = s], ReceiveAndSend(c, d, <<StatusMsg(s)>>)
      PROVE  Inv'
  <2>1. PICK ms : ms = <<StatusMsg(s)>>
    OBVIOUS
  <2>2. ms \in Seq(Messages) /\ ms = <<>> \o <<StatusMsg(s)>>
    BY <2>1, MessageTypes
  <2>3. OwnChange(c)
    BY <1>1, <1>3, <1>6, Typing DEF OwnChange
  <2>4. OwnStep(c, ms)
    BY <2>1, <2>2, <2>3, <1>1, <1>2, <1>6, ReceiveIsOwn
  <2>5. chan' \in [Controllers -> [Controllers -> Seq(Messages)]]
    BY <2>1, <2>2, <1>1, <1>2, <1>6, ReceiveEffect
  <2>6. TypeOK'
    BY <1>1, <1>3, <1>6, <2>5 DEF TypeOK
  <2> QED BY <1>3, <1>4, <1>6, <2>2, <2>4, <2>6, LeadsNowhere, StatusStepInv
<1> QED BY <1>5, <1>6 DEF ReceiveSignal

LEMMA ReceiveHeaderDynamicInv ==
  ASSUME Inv, NEW c \in Controllers, NEW d \in Controllers, ReceiveHeaderDynamic(c, d)
  PROVE  Inv'
<1>1. TypeOK /\ Started(c) /\ sends \in Nat /\ Made(chan[d][c], sends)
  BY Typing DEF Inv, CallsAreMade
<1>2. PICK m : m = Head(chan[d][c])
  OBVIOUS
<1>3. Incoming(c, d, {"header"}) /\ {"header"} \cap NodeKinds = {}
  BY DEF ReceiveHeaderDynamic, NodeKinds
<1>4. m \in Messages /\ m.kind = "header" /\ m.call <= sends
  <2>1. chan[d][c] # <<>> /\ m.kind = "header" /\ chan[d][c] \in Seq(Messages)
    BY <1>1, <1>2, <1>3, Typing DEF Incoming
  <2> QED BY <1>1, <1>2, <2>1, Rest, MadeQueue
<1>5. m.id \in Ids /\ m.call \in 1..MaxSends
  BY <1>4, MessageKinds
<1>6. UNCHANGED <<mode, status, responded, sends, awaited, told, changes>>
  BY DEF ReceiveHeaderDynamic, busVars
<1>7. status[c] # "Unknown" /\ mode[c] = Role(c) /\ nodes[c][c].mode = Role(c)
  <2>1. nodes[c][c].dynamic
    BY DEF ReceiveHeaderDynamic
  <2>2. NoNode.dynamic = FALSE
    BY DEF NoNode
  <2> QED BY <1>1, <2>1, <2>2 DEF Started
<1>8. CASE ReceiveAndSend(c, d, <<>>) /\ UNCHANGED nodes
  <2>1. <<>> \in Seq(Messages) /\ Quiet(<<>>) /\ Made(<<>>, sends') /\ sends <= sends'
    BY <1>1, <1>6 DEF Quiet, Made
  <2>2. OwnChange(c)
    BY <1>6, <1>8 DEF OwnChange
  <2>3. OwnStep(c, <<>>)
    BY <2>1, <2>2, <1>1, <1>3, <1>8, ReceiveIsOwn
  <2>4. chan' \in [Controllers -> [Controllers -> Seq(Messages)]]
    BY <2>1, <1>1, <1>3, <1>8, ReceiveEffect
  <2>5. TypeOK'
    BY <1>1, <1>6, <1>8, <2>4 DEF TypeOK
  <2> QED BY <1>6, <1>7, <1>8, <2>1, <2>3, <2>5, LeadsNowhere, BusStepInv
<1>9. ASSUME NEW form \in Forms, NEW r, r = [mode |-> "TxUnconditional", form |-> form],
             nodes' = [nodes EXCEPT ![c][c].responses[m.id] = r],
             ReceiveAndSend(c, d, Distribution(c, <<ResponseMsg(m.id, r)>>) \o Answer(r, m.id, m.call))
      PROVE  Inv'
  <2>1. r \in Response
    BY <1>9 DEF Response
  <2>2. PICK b : b = Distribution(c, <<ResponseMsg(m.id, r)>>)
    OBVIOUS
  <2>3. PICK t : t = Answer(r, m.id, m.call)
    OBVIOUS
  <2>4. PICK ms : ms = b \o t
    OBVIOUS
  <2>5. PICK w \in Messages : w = ResponseMsg(m.id, r)
    BY <1>5, <2>1, MessageTypes
  <2>6. w.kind = "response" /\ w.id = m.id /\ w.response = r
    BY <2>5 DEF ResponseMsg
  <2>7. b = IF c = Master THEN <<>> ELSE <<w>>
    BY <1>7, <2>2, <2>5 DEF Distribution, Role
  <2>8. b \in Seq(Messages) /\ Made(b, sends) /\ (c = Master => Quiet(b))
    BY <2>6, <2>7 DEF Made, Quiet
  <2>9. /\ t \in Seq(Messages) /\ Quiet(t) /\ Made(t, m.call)
        /\ \A node \in Node : Leads(node, t, node)
    BY <1>5, <2>1, <2>3, AnswerType
  <2>10. Made(t, sends)
    <3>1. \A i \in 1..Len(t) : t[i].kind \in {"header", "transmission"} => t[i].call \in 1..MaxSends
      BY <2>9, MessageKinds
    <3>2. m.call \in Nat /\ MaxSends \in Nat
      BY <1>5, LinAssumption
    <3> QED BY <1>1, <1>4, <2>9, <3>1, <3>2 DEF Made
  <2>11. ms \in Seq(Messages) /\ Made(ms, sends') /\ (c = Master => Quiet(ms)) /\ sends <= sends'
    <3>1. \A q \in Seq(Messages), k \in Nat : Made(q, k) /\ sends <= k => Made(b \o q, k)
      BY <1>1, <2>8, MadeQueue
    <3>2. sends <= sends /\ sends' = sends
      BY <1>1, <1>6
    <3>3. Made(ms, sends)
      BY <1>1, <2>4, <2>9, <2>10, <3>1, <3>2
    <3>4. c = Master => Quiet(ms)
      BY <2>4, <2>8, <2>9, QuietQueue
    <3> QED BY <2>4, <2>8, <2>9, <3>2, <3>3, <3>4, Joined
  <2>12. PICK n : n = [nodes[c][c] EXCEPT !.responses[m.id] = r]
    OBVIOUS
  <2>13. nodes[c][c] \in Node /\ n \in Node
    BY <1>1, <1>5, <2>1, <2>12, Typing, NodeTyping
  <2>14. nodes' = [nodes EXCEPT ![c][c] = n]
    BY <1>1, <1>9, <2>12, Typing
  <2>15. /\ nodes' \in [Controllers -> [Controllers -> Node]] /\ nodes'[c][c] = n
         /\ \A x, y \in Controllers : x # c \/ y # c => nodes'[x][y] = nodes[x][y]
    BY <1>1, <2>13, <2>14, NodesEffect
  <2>16. ReceiveAndSend(c, d, ms)
    BY <1>9, <2>2, <2>3, <2>4
  <2>17. OwnStep(c, ms)
    <3>1. OwnChange(c)
      BY <1>6, <2>15 DEF OwnChange
    <3> QED BY <3>1, <1>1, <1>3, <2>11, <2>16, ReceiveIsOwn
  <2>18. chan' \in [Controllers -> [Controllers -> Seq(Messages)]]
    BY <1>1, <1>3, <2>11, <2>16, ReceiveEffect
  <2>19. TypeOK'
    BY <1>1, <1>6, <2>15, <2>18 DEF TypeOK
  <2>20. n.mode = Role(c)
    <3>1. n.mode = nodes[c][c].mode
      BY <2>12, <2>13 DEF Node
    <3> QED BY <3>1, <1>7
  <2>21. ASSUME c \in Slaves PROVE Leads(Actual(c), ms, Actual(c)')
    <3>1. c # Master /\ b = <<w>>
      BY <2>7, <2>21 DEF Slaves
    <3>2. PICK s \in Statuses : s = status[c]
      BY <1>1, Typing
    <3>3. Actual(c) = [nodes[c][c] EXCEPT !.status = s] /\ Actual(c)' = [n EXCEPT !.status = s]
      BY <1>6, <1>7, <2>15, <3>2 DEF Actual
    <3>4. PICK a \in Node : a = Actual(c)
      BY <1>1, ActualType
    <3>5. NodeAfter(a, w) = Actual(c)'
      <4>1. NodeAfter(a, w) = [a EXCEPT !.responses[m.id] = r]
        BY <2>6 DEF NodeAfter
      <4>2. PICK e \in Node : e = nodes[c][c]
        BY <2>13
      <4>3. PICK id \in Ids : id = m.id
        BY <1>5
      <4>4. n = [e EXCEPT !.responses[id] = r] /\ a = [e EXCEPT !.status = s]
        BY <2>12, <3>3, <3>4, <4>2, <4>3
      <4>5. [a EXCEPT !.responses[id] = r] = [n EXCEPT !.status = s]
        BY <4>4 DEF Node
      <4> QED BY <4>1, <4>3, <4>5, <3>3
    <3>6. Fits(a, w)
      <4>1. a.mode = "Slave"
        BY <1>7, <2>13, <3>1, <3>3, <3>4 DEF Node, Role
      <4> QED BY <2>6, <1>9, <4>1 DEF Fits
    <3>7. Leads(a, b, Actual(c)')
      BY <3>1, <3>4, <3>5, <3>6, LeadsOneStep
    <3>8. Actual(c)' \in Node
      BY <3>4, <3>5, NodeAfterType
    <3> QED BY <2>4, <2>8, <2>9, <3>4, <3>7, <3>8, LeadsOn
  <2> QED BY <1>6, <1>7, <2>11, <2>15, <2>17, <2>19, <2>20, <2>21, OwnStepKeeps
<1> QED BY <1>2, <1>8, <1>9 DEF ReceiveHeaderDynamic

LEMMA ReceiveNodeUpdateInv ==
  ASSUME Inv, NEW c \in Controllers, NEW d \in Controllers, ReceiveNodeUpdate(c, d)
  PROVE  Inv'
<1>1. TypeOK /\ Started(c) /\ sends \in Nat /\ Made(chan[d][c], sends) /\ Started(d)
  BY Typing DEF Inv, CallsAreMade
<1>2. PICK m : m = Head(chan[d][c])
  OBVIOUS
<1>3. Incoming(c, d, NodeKinds) /\ ReceiveAndSend(c, d, <<>>)
  BY DEF ReceiveNodeUpdate, NodeKinds
<1>4. UNCHANGED <<mode, status, sends, awaited, told, changes>>
  BY DEF ReceiveNodeUpdate, busVars
<1>5. /\ chan' \in [Controllers -> [Controllers -> Seq(Messages)]]
      /\ c # d /\ chan[d][c] # <<>> /\ m.kind \in NodeKinds /\ m \in Messages
      /\ chan'[d][c] = Tail(chan[d][c])
      /\ \A x, y \in Controllers :
           IF x = c /\ y # c THEN chan'[x][y] = chan[x][y] \o <<>>
           ELSE (x # d \/ y # c) => chan'[x][y] = chan[x][y]
  <2>1. <<>> \in Seq(Messages)
    OBVIOUS
  <2>2. PICK ms \in Seq(Messages) : ms = <<>>
    BY <2>1
  <2>3. ReceiveAndSend(c, d, ms)
    BY <1>3, <2>2
  <2>4. /\ chan' \in [Controllers -> [Controllers -> Seq(Messages)]]
        /\ c # d /\ chan[d][c] # <<>> /\ Head(chan[d][c]).kind \in NodeKinds
        /\ Head(chan[d][c]) \in Messages
        /\ chan'[d][c] = Tail(chan[d][c])
        /\ \A x, y \in Controllers :
             IF x = c /\ y # c THEN chan'[x][y] = chan[x][y] \o ms
             ELSE (x # d \/ y # c) => chan'[x][y] = chan[x][y]
    BY <2>3, <1>1, <1>3, ReceiveEffect, SMTT(30)
  <2> QED BY <1>2, <2>2, <2>4
<1>6. \A x, y \in Controllers : x # d \/ y # c => chan'[x][y] = chan[x][y]
  <2>1. \A x, y \in Controllers : chan[x][y] \o <<>> = chan[x][y]
    BY <1>1, Typing
  <2> QED BY <1>5, <2>1
<1>7. chan[d][c] \in Seq(Messages) /\ nodes[c][d] \in Node /\ status[d] # "Unknown"
  BY <1>1, <1>5, Typing DEF Started
<1>8. PICK n \in Node : n = NodeAfter(nodes[c][d], m)
  BY <1>5, <1>7, NodeAfterType
<1>9. nodes' = [nodes EXCEPT ![c][d] = n]
  BY <1>2, <1>8 DEF ReceiveNodeUpdate
<1>10. /\ nodes' \in [Controllers -> [Controllers -> Node]] /\ nodes'[c][d] = n
       /\ \A x, y \in Controllers : x # c \/ y # d => nodes'[x][y] = nodes[x][y]
  BY <1>1, <1>9, Typing
<1>11. responded' = [responded EXCEPT ![c] =
                       IF n.mode = "Slave" THEN @ \cup RespondedBy(m) ELSE @]
  BY <1>2, <1>10 DEF ReceiveNodeUpdate
<1>12. RespondedBy(m) \subseteq Ids
  BY <1>5, MessageKinds DEF RespondedBy, NodeKinds
<1>13. TypeOK'
  BY <1>1, <1>4, <1>5, <1>10, <1>11, <1>12 DEF TypeOK
<1>14. CallsAreMade'
  <2>1. Made(Tail(chan[d][c]), sends)
    BY <1>1, <1>5, <1>7, MadeQueue
  <2> QED BY <1>4, <1>5, <1>6, <2>1, ZenonT(30) DEF Inv, CallsAreMade
<1>15. ASSUME NEW x \in Controllers PROVE Started(x)'
  <2>1. Started(x)
    BY DEF Inv
  <2>2. chan'[x][x] = <<>> /\ nodes'[x][x] = nodes[x][x]
    BY <1>5, <1>6, <1>10, <2>1 DEF Started
  <2>3. CASE status[x] # "Unknown"
    BY <1>4, <2>1, <2>2, <2>3 DEF Started, Role
  <2>4. CASE status[x] = "Unknown"
    <3>1. x # d
      BY <1>7, <2>4
    <3>2. \A y \in Controllers : nodes'[y][x] = nodes[y][x] /\ chan'[x][y] = chan[x][y]
      BY <3>1, <1>6, <1>10
    <3> QED BY <1>4, <2>1, <2>2, <2>4, <3>2 DEF Started
  <2> QED BY <2>3, <2>4
<1>16. FromMaster'
  <2> SUFFICES ASSUME NEW x \in Slaves
               PROVE  Quiet(chan'[Master][x]) /\ nodes'[x][Master].mode = "Inactive"
    BY DEF FromMaster
  <2>1. x \in Controllers /\ x # Master /\ Master \in Controllers
    BY LinAssumption DEF Slaves
  <2>2. Quiet(chan[Master][x]) /\ nodes[x][Master].mode = "Inactive"
    BY DEF Inv, FromMaster
  <2>3. CASE x = c /\ d = Master
    <3>1. Quiet(Tail(chan[d][c])) /\ m.kind \notin {"config", "response"}
      BY <1>2, <1>5, <1>7, <2>2, <2>3, QuietQueue
    <3>2. n = [nodes[c][d] EXCEPT !.status = m.status]
      BY <1>5, <1>8, <3>1 DEF NodeAfter, NodeKinds
    <3>3. n.mode = nodes[c][d].mode
      BY <1>7, <3>2 DEF Node
    <3> QED BY <1>5, <1>10, <2>2, <2>3, <3>1, <3>3
  <2>4. CASE ~(x = c /\ d = Master)
    BY <1>6, <1>10, <2>1, <2>2, <2>4
  <2> QED BY <2>3, <2>4
<1>17. FromSlaves'
  <2> SUFFICES ASSUME NEW x \in Controllers, NEW y \in Slaves, x # y
               PROVE  Leads(nodes'[x][y], chan'[y][x], Actual(y)')
    BY DEF FromSlaves
  <2>1. y \in Controllers /\ Leads(nodes[x][y], chan[y][x], Actual(y))
    BY DEF Inv, FromSlaves, Slaves
  <2>2. nodes'[y][y] = nodes[y][y]
    BY <1>5, <1>10, <2>1
  <2>3. Actual(y)' = Actual(y)
    BY <1>4, <2>2 DEF Actual
  <2>4. CASE x = c /\ y = d
    BY <1>2, <1>5, <1>7, <1>8, <1>10, <2>1, <2>3, <2>4, LeadsRest
  <2>5. CASE ~(x = c /\ y = d)
    BY <1>6, <1>10, <2>1, <2>3, <2>5
  <2> QED BY <2>4, <2>5
<1>18. RespondedIsExact'
  <2> DEFINE By(node) == {id \in Ids : node.mode = "Slave"
                             /\ node.responses[id].mode = "TxUnconditional"}
  <2>1. By(n) = By(nodes[c][d]) \cup (IF n.mode = "Slave" THEN RespondedBy(m) ELSE {})
    <3>1. CASE d = Master
      <4>1. c \in Slaves
        BY <1>5, <3>1 DEF Slaves
      <4>2. n.mode = "Inactive" /\ nodes[c][d].mode = "Inactive"
        BY <1>10, <1>16, <3>1, <4>1 DEF Inv, FromMaster
      <4> QED BY <4>2
    <3>2. CASE d # Master
      <4>1. Fits(nodes[c][d], m)
        BY <1>2, <1>5, <1>7, <3>2, LeadsRest DEF Inv, FromSlaves, Slaves
      <4>2. CASE m.kind = "config"
        <5>1. n.mode = "Slave" /\ n.responses = m.responses
          BY <1>8, <4>2 DEF NodeAfter
        <5>2. nodes[c][d].mode # "Slave"
          BY <4>1, <4>2 DEF Fits
        <5>3. RespondedBy(m) = {id \in Ids : m.responses[id].mode = "TxUnconditional"}
          BY <4>2 DEF RespondedBy
        <5> QED BY <5>1, <5>2, <5>3
      <4>3. CASE m.kind = "response"
        <5>1. m.id \in Ids /\ m.response \in Response
          BY <1>5, <4>3, MessageKinds
        <5>2. PICK e \in Node : e = nodes[c][d]
          BY <1>7
        <5>3. n = [e EXCEPT !.responses[m.id] = m.response]
          BY <1>8, <4>3, <5>2 DEF NodeAfter
        <5>4. /\ n.mode = e.mode /\ n.responses[m.id] = m.response
              /\ \A id \in Ids : id # m.id => n.responses[id] = e.responses[id]
          BY <5>1, <5>3 DEF Node
        <5>5. /\ e.mode = "Slave"
              /\ e.responses[m.id].mode = "TxUnconditional" => m.response.mode = "TxUnconditional"
          BY <4>1, <4>3, <5>2 DEF Fits
        <5>6. RespondedBy(m) = IF m.response.mode = "TxUnconditional" THEN {m.id} ELSE {}
          BY <4>3 DEF RespondedBy
        <5>7. By(n) = By(e) \cup RespondedBy(m)
          BY <5>1, <5>4, <5>5, <5>6
        <5> QED BY <5>2, <5>4, <5>5, <5>7
      <4>4. CASE m.kind = "status"
        <5>1. n = [nodes[c][d] EXCEPT !.status = m.status]
          BY <1>8, <4>4 DEF NodeAfter
        <5>2. n.mode = nodes[c][d].mode /\ n.responses = nodes[c][d].responses
          BY <1>7, <5>1 DEF Node
        <5>3. RespondedBy(m) = {}
          BY <4>4 DEF RespondedBy
        <5> QED BY <5>2, <5>3
      <4> QED BY <1>5, <4>2, <4>3, <4>4 DEF NodeKinds
    <3> QED BY <3>1, <3>2
  <2>2. \A x \in Controllers : responded[x] = UNION {By(nodes[x][y]) : y \in Controllers \ {x}}
    BY DEF Inv, RespondedIsExact
  <2>3. responded \in [Controllers -> SUBSET Ids]
    BY <1>1, Typing
  <2>4. ASSUME NEW x \in Controllers
        PROVE  responded'[x] = UNION {By(nodes'[x][y]) : y \in Controllers \ {x}}
    <3>1. CASE x # c
      <4>1. \A y \in Controllers : nodes'[x][y] = nodes[x][y]
        BY <1>10, <3>1
      <4>2. responded'[x] = responded[x]
        BY <1>11, <2>3, <3>1
      <4> QED BY <2>2, <4>1, <4>2
    <3>2. CASE x = c
      <4>1. responded'[c] = responded[c] \cup (IF n.mode = "Slave" THEN RespondedBy(m) ELSE {})
        BY <1>11, <2>3
      <4> HIDE DEF By
      <4>2. \A y \in Controllers \ {c, d} : nodes'[c][y] = nodes[c][y]
        BY <1>10
      <4>3. responded[c] = UNION {By(nodes[c][y]) : y \in Controllers \ {c}}
        BY <2>2
      <4>4. d \in Controllers \ {c} /\ nodes'[c][d] = n
        BY <1>5, <1>10
      <4>5. ASSUME NEW id PROVE id \in responded'[c]
                              <=> id \in UNION {By(nodes'[c][y]) : y \in Controllers \ {c}}
        BY <2>1, <4>1, <4>2, <4>3, <4>4
      <4> QED BY <3>2, <4>5
    <3> QED BY <3>1, <3>2
  <2> QED BY <2>4 DEF RespondedIsExact
<1> QED BY <1>13, <1>14, <1>15, <1>16, <1>17, <1>18 DEF Inv

-----------------------------------------------------------------------------
LEMMA NextInv ==
  ASSUME Inv, Next
  PROVE  Inv'
<1>1. ASSUME NEW c \in Controllers, User(c) PROVE Inv'
  <2>1. CASE InitStatic(c)
    <3>1. PICK r \in Configs[c] : InitWith(c, FALSE, r)
      BY <2>1 DEF InitStatic
    <3>2. r \in [Ids -> Response]
      BY LinAssumption
    <3> QED BY <3>1, <3>2, InitWithInv
  <2>2. CASE InitDynamic(c)
    BY <2>2, NoNodeType, InitWithInv DEF InitDynamic
  <2>3. CASE GoToSleepInternal(c) \/ Wakeup(c)
    BY <2>3, SleepAndWakeupInv
  <2>4. ASSUME NEW id \in Ids, NEW s \in Settings, SetFrameResponse(c, id, s[id]) PROVE Inv'
    <3>1. s[id] \in Response
      BY LinAssumption
    <3> QED BY <2>4, <3>1, SetFrameResponseInv
  <2> QED BY <1>1, <2>1, <2>2, <2>3, <2>4 DEF User
<1>2. ASSUME MasterUser PROVE Inv'
  <2>1. PICK own \in [Ids -> Response] : own = nodes[Master][Master].responses
    <3>1. nodes[Master][Master] \in Node
      BY Typing DEF Inv
    <3> QED BY <3>1, NodeTyping
  <2>2. ASSUME NEW form \in Forms, NEW k \in {"Rx", "TxUnconditional"}
        PROVE  [mode |-> k, form |-> form] \in Response
    BY DEF Response
  <2>3. CASE GoToSleep
    BY <2>3, LinAssumption, SleepAndWakeupInv
  <2>4. CASE SendWithoutSlave
    BY <2>4, SendWithoutSlaveInv
  <2>5. ASSUME NEW id \in Ids, SendFrameHeader(id) PROVE Inv'
    BY <2>1, <2>5, SendHeaderInv DEF SendFrameHeader
  <2>6. ASSUME NEW id \in Ids, SendSlaveToSlave(id) PROVE Inv'
    BY <2>1, <2>6, SendHeaderInv DEF SendSlaveToSlave
  <2>7. ASSUME NEW id \in Ids, NEW form \in Forms, SendMasterResponse(id, form) PROVE Inv'
    <3>1. PICK o : o = [own EXCEPT ![id] = [mode |-> "TxUnconditional", form |-> form]]
      OBVIOUS
    <3>2. o \in [Ids -> Response]
      BY <2>2, <3>1
    <3> QED BY <2>1, <2>7, <3>1, <3>2, SendHeaderInv DEF SendMasterResponse
  <2>8. ASSUME NEW id \in Ids, NEW form \in Forms, SendSlaveResponse(id, form) PROVE Inv'
    <3>1. PICK o : o = IF own[id].mode = "Unused"
                         THEN [own EXCEPT ![id] = [mode |-> "Rx", form |-> form]] ELSE own
      OBVIOUS
    <3>2. o \in [Ids -> Response]
      BY <2>2, <3>1
    <3> QED BY <2>1, <2>8, <3>1, <3>2, SendHeaderInv DEF SendSlaveResponse
  <2> QED BY <1>2, <2>3, <2>4, <2>5, <2>6, <2>7, <2>8 DEF MasterUser
<1>3. ASSUME NEW c \in Controllers, NEW d \in Controllers, ReceiveMsg(c, d) PROVE Inv'
  BY <1>3, ReceiveNodeUpdateInv, ReceiveHeaderInv, ReceiveHeaderDynamicInv,
     ReceiveTransmissionInv, ReceiveSignalInv DEF ReceiveMsg
<1> QED BY <1>1, <1>2, <1>3 DEF Next

LEMMA StutterInv ==
  ASSUME Inv, UNCHANGED vars
  PROVE  Inv'
<1>1. UNCHANGED <<mode, status, nodes, responded, chan, sends, awaited, told, changes>>
  BY DEF vars, busVars
<1>2. TypeOK' /\ CallsAreMade' /\ FromMaster' /\ RespondedIsExact'
  BY <1>1 DEF Inv, TypeOK, CallsAreMade, FromMaster, RespondedIsExact
<1>3. \A d \in Controllers : Started(d)'
  BY <1>1 DEF Inv, Started
<1>4. FromSlaves'
  BY <1>1 DEF Inv, FromSlaves, Actual
<1> QED BY <1>2, <1>3, <1>4 DEF Inv

(* The inductive invariant: on their way are only messages that lead the   *)
(* copy of a slave, by steps that fit, to what the slave actually is.      *)
THEOREM InvHolds == Spec => []Inv
<1>1. Inv /\ [Next]_vars => Inv'
  BY NextInv, StutterInv
<1> QED BY <1>1, InitInv, PTL DEF Spec

(* Every variable of the LIN controllers has its type.                     *)
THEOREM TypeCorrect == Spec => []TypeOK
<1>1. Inv => TypeOK
  BY DEF Inv
<1> QED BY <1>1, InvHolds, PTL

(* The copies that ReceiveMsg keeps in _linNodes catch up with the slaves, *)
(* whatever the order in which configurations, responses and statuses are  *)
(* set and received.                                                       *)
THEOREM CopiesCatchUp == Spec => []ViewsCatchUp
<1>1. Inv => ViewsCatchUp
  <2> SUFFICES ASSUME Inv, NEW c \in Controllers, NEW d \in Slaves, c # d
               PROVE  FoldLeft(NodeAfter, nodes[c][d], chan[d][c]) = Actual(d)
    BY DEF ViewsCatchUp
  <2>1. nodes[c][d] \in Node /\ chan[d][c] \in Seq(Messages)
    BY Typing DEF Inv
  <2>2. Leads(nodes[c][d], chan[d][c], Actual(d))
    BY DEF Inv, FromSlaves
  <2> QED BY <2>1, <2>2, LeadsFold
<1> QED BY <1>1, InvHolds, PTL

(* _linIdsRespondedBySlaves, which UpdateLinIdsRespondedBySlaves only ever *)
(* enlarges, is exactly the set of identifiers that slaves respond to.     *)
THEOREM RespondedStaysExact == Spec => []RespondedIsExact
<1>1. Inv => RespondedIsExact
  BY DEF Inv
<1> QED BY <1>1, InvHolds, PTL
=============================================================================
