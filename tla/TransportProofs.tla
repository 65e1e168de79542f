-------------------------- MODULE TransportProofs --------------------------
(***************************************************************************)
(* Theorems about Transport, for messages of any lengths, writes and reads *)
(* of any sizes and a ring buffer of any capacity: its positions stay      *)
(* consistent, it never runs full while the receiver waits, every message  *)
(* is delivered whole, and the two peers implement a channel of whole      *)
(* messages.  Which messages bytes complete is computed by a recursion; it *)
(* is shown to be a concatenation of what the single bytes complete, and   *)
(* the rest of the proof speaks of concatenations only.                    *)
(***************************************************************************)
EXTENDS Transport, NaturalsInduction, WellFoundedInduction, TLAPS

-----------------------------------------------------------------------------
(* Sequences. *)

LEMMA SetInduction ==
  ASSUME NEW S \in SUBSET Nat, 0 \in S, \A n \in S : n + 1 \in S
  PROVE  S = Nat
<1>1. SUFFICES ASSUME Nat \ S # {} PROVE FALSE
  OBVIOUS
<1>2. PICK x \in Nat \ S : \A y \in Nat \ S : ~ (<<y, x>> \in OpToRel(<, Nat))
  BY <1>1, NatLessThanWellFounded, WFMin
<1>3. \A y \in Nat : y < x => y \in S
  <2> SUFFICES ASSUME NEW y \in Nat, y < x, y \notin S PROVE FALSE
    OBVIOUS
  <2>1. <<y, x>> \in OpToRel(<, Nat)
    BY DEF OpToRel
  <2> QED BY <2>1, <1>2
<1>4. x - 1 \in Nat /\ x - 1 < x /\ (x - 1) + 1 = x
  OBVIOUS
<1> QED BY <1>3, <1>4

LEMMA SameElements ==
  ASSUME NEW S, NEW s \in Seq(S), NEW t \in Seq(S), Len(s) = Len(t), \A i \in 1..Len(s) : s[i] = t[i]
  PROVE  s = t
OBVIOUS

LEMMA NoElements ==
  ASSUME NEW S, NEW s \in Seq(S), Len(s) = 0
  PROVE  s = <<>>
OBVIOUS

LEMMA OneElement ==
  ASSUME NEW S, NEW e \in S
  PROVE  <<e>> \in Seq(S) /\ Len(<<e>>) = 1 /\ <<e>>[1] = e
OBVIOUS

LEMMA ElementIn ==
  ASSUME NEW S, NEW s \in Seq(S), NEW i \in 1..Len(s)
  PROVE  s[i] \in S
OBVIOUS

LEMMA TableIsSequence ==
  ASSUME NEW S, NEW n \in Nat, NEW s \in [1..n -> S]
  PROVE  s \in Seq(S) /\ Len(s) = n
OBVIOUS

LEMMA Concatenation ==
  ASSUME NEW S, NEW s \in Seq(S), NEW t \in Seq(S)
  PROVE  /\ s \o t \in Seq(S) /\ Len(s \o t) = Len(s) + Len(t)
         /\ \A i \in 1..Len(s) : (s \o t)[i] = s[i]
         /\ \A i \in 1..Len(t) : (s \o t)[Len(s) + i] = t[i]
OBVIOUS

(* h are the concatenations of the first sequences of q, up to the n-th. *)
Flat(S, q, n, h) ==
  /\ h \in [0..n -> Seq(S)] /\ h[0] = <<>>
  /\ \A i \in 1..n : h[i] = h[i - 1] \o q[i]

(* They exist, are unique, and FlattenSeq is the last of them. *)
LEMMA FlatExtends ==
  ASSUME NEW S, NEW q \in Seq(Seq(S)), NEW n \in Nat, n + 1 <= Len(q), NEW g, Flat(S, q, n, g)
  PROVE  \E h : Flat(S, q, n + 1, h)
<1>1. g \in [0..n -> Seq(S)] /\ g[0] = <<>> /\ \A i \in 1..n : g[i] = g[i - 1] \o q[i]
  BY DEF Flat
<1>2. PICK x : x = g[n] \o q[n + 1]
  OBVIOUS
<1>3. x \in Seq(S)
  <2>1. n \in 0..n /\ n + 1 \in 1..Len(q)
    OBVIOUS
  <2>2. g[n] \in Seq(S) /\ q[n + 1] \in Seq(S)
    BY <1>1, <2>1
  <2> QED BY <1>2, <2>2, Concatenation
<1>4. PICK h : h = [i \in 0..(n + 1) |-> IF i <= n THEN g[i] ELSE x]
  OBVIOUS
<1>5. h \in [0..(n + 1) -> Seq(S)]
  <2>1. ASSUME NEW i \in 0..(n + 1), i <= n PROVE g[i] \in Seq(S)
    <3>1. i \in 0..n
      BY <2>1
    <3> QED BY <1>1, <3>1
  <2> QED BY <1>3, <1>4, <2>1
<1>6. h[0] = <<>>
  BY <1>1, <1>4
<1>7. ASSUME NEW i \in 1..(n + 1) PROVE h[i] = h[i - 1] \o q[i]
  <2>1. i \in 0..(n + 1) /\ i - 1 \in 0..(n + 1) /\ i - 1 <= n
    OBVIOUS
  <2>2. h[i - 1] = g[i - 1]
    BY <1>4, <2>1
  <2>3. CASE i <= n
    <3>1. i \in 1..n /\ h[i] = g[i]
      BY <1>4, <2>1, <2>3
    <3> QED BY <1>1, <2>2, <3>1
  <2>4. CASE i = n + 1
    <3>1. h[i] = x /\ i - 1 = n
      BY <1>4, <2>1, <2>4
    <3> QED BY <1>2, <2>2, <2>4, <3>1
  <2>5. i <= n \/ i = n + 1
    OBVIOUS
  <2> QED BY <2>3, <2>4, <2>5
<1> QED BY <1>5, <1>6, <1>7 DEF Flat

LEMMA FlatExists ==
  ASSUME NEW S, NEW q \in Seq(Seq(S))
  PROVE  \E h : Flat(S, q, Len(q), h)
<1> DEFINE N == {n \in Nat : n <= Len(q) => \E h : Flat(S, q, n, h)}
<1>1. 0 \in N
  <2>1. PICK h : h = [i \in 0..0 |-> <<>>]
    OBVIOUS
  <2>2. h \in [0..0 -> Seq(S)] /\ h[0] = <<>>
    BY <2>1
  <2>3. Flat(S, q, 0, h)
    BY <2>2 DEF Flat
  <2> QED BY <2>3
<1>2. ASSUME NEW n \in N PROVE n + 1 \in N
  <2> SUFFICES ASSUME n + 1 <= Len(q) PROVE \E h : Flat(S, q, n + 1, h)
    OBVIOUS
  <2>1. n \in Nat /\ n <= Len(q)
    OBVIOUS
  <2>2. PICK g : Flat(S, q, n, g)
    BY <2>1
  <2> QED BY <2>1, <2>2, FlatExtends
<1>3. N \in SUBSET Nat
  OBVIOUS
<1>4. Len(q) \in Nat
  OBVIOUS
<1> HIDE DEF N
<1>5. N = Nat
  BY <1>1, <1>2, <1>3, SetInduction
<1>6. Len(q) \in N
  BY <1>4, <1>5
<1> QED BY <1>4, <1>6 DEF N

LEMMA FlattenFollows ==
  ASSUME NEW S, NEW q \in Seq(Seq(S)), NEW g, Flat(S, q, Len(q), g)
  PROVE  FlattenSeq(q) = g[Len(q)] /\ g[Len(q)] \in Seq(S)
<1>1. PICK k \in Nat : k = Len(q)
  OBVIOUS
<1>2. g \in [0..k -> Seq(S)] /\ g[0] = <<>> /\ \A i \in 1..k : g[i] = g[i - 1] \o q[i]
  BY <1>1 DEF Flat
<1>3. CASE k = 0
  <2>1. FlattenSeq(q) = q
    BY <1>1, <1>3 DEF FlattenSeq
  <2>2. q = <<>>
    BY <1>1, <1>3, NoElements
  <2> QED BY <1>1, <1>2, <1>3, <2>1, <2>2
<1>4. CASE k > 0
  <2> DEFINE Is(f) == f = [i \in 1..Len(q) |-> IF i = 1 THEN q[i] ELSE f[i - 1] \o q[i]]
  <2>1. PICK e : e = [i \in 1..k |-> g[i]]
    OBVIOUS
  <2>2. g[1] = q[1]
    <3>1. 1 \in 1..k /\ 1 - 1 = 0 /\ q[1] \in Seq(S)
      BY <1>1, <1>4
    <3>2. g[1] = <<>> \o q[1]
      BY <1>2, <3>1
    <3> QED BY <3>1, <3>2
  <2>3. ASSUME NEW i \in 1..k PROVE e[i] = IF i = 1 THEN q[i] ELSE e[i - 1] \o q[i]
    <3>1. e[i] = g[i] /\ g[i] = g[i - 1] \o q[i]
      BY <1>2, <2>1
    <3>2. i # 1 => i - 1 \in 1..k
      OBVIOUS
    <3>3. i # 1 => e[i - 1] = g[i - 1]
      BY <2>1, <3>2
    <3> QED BY <2>2, <3>1, <3>3
  <2>4. Is(e)
    BY <1>1, <2>1, <2>3
  <2>5. PICK f : f = CHOOSE x : Is(x)
    OBVIOUS
  <2>6. Is(f)
    BY <2>4, <2>5
  <2>7. FlattenSeq(q) = f[k]
    BY <1>1, <1>4, <2>5 DEF FlattenSeq
  <2>8. \A i \in 1..k : f[i] = IF i = 1 THEN q[i] ELSE f[i - 1] \o q[i]
    BY <1>1, <2>6
  <2> HIDE DEF Is
  <2> DEFINE N == {n \in Nat : n + 1 <= k => f[n + 1] = e[n + 1]}
  <2>9. 0 \in N
    <3>1. 1 \in 1..k
      BY <1>4
    <3>2. f[1] = e[1]
      BY <2>3, <2>8, <3>1
    <3> QED BY <3>2
  <2>10. ASSUME NEW n \in N PROVE n + 1 \in N
    <3> SUFFICES ASSUME (n + 1) + 1 <= k PROVE f[(n + 1) + 1] = e[(n + 1) + 1]
      OBVIOUS
    <3>1. n \in Nat /\ f[n + 1] = e[n + 1]
      OBVIOUS
    <3>2. (n + 1) + 1 \in 1..k /\ (n + 1) + 1 # 1 /\ ((n + 1) + 1) - 1 = n + 1
      BY <3>1
    <3> QED BY <2>3, <2>8, <3>1, <3>2
  <2>11. N \in SUBSET Nat
    OBVIOUS
  <2> HIDE DEF N
  <2>12. N = Nat
    BY <2>9, <2>10, <2>11, SetInduction
  <2>13. k - 1 \in N /\ (k - 1) + 1 = k
    BY <1>4, <2>12
  <2>14. f[k] = e[k]
    BY <2>13 DEF N
  <2>15. k \in 1..k /\ k \in 0..k
    BY <1>4
  <2> QED BY <1>1, <1>2, <2>1, <2>7, <2>14, <2>15
<1>5. k = 0 \/ k > 0
  OBVIOUS
<1> QED BY <1>3, <1>4, <1>5

LEMMA FlattenEmpty == FlattenSeq(<<>>) = <<>>
BY DEF FlattenSeq

LEMMA FlattenOne ==
  ASSUME NEW S, NEW s \in Seq(S)
  PROVE  FlattenSeq(<<s>>) = s
<1>1. PICK q : q = <<s>>
  OBVIOUS
<1>2. q \in Seq(Seq(S)) /\ Len(q) = 1 /\ q[1] = s
  BY <1>1, OneElement
<1>3. PICK h : h = [i \in 0..1 |-> IF i = 0 THEN <<>> ELSE s]
  OBVIOUS
<1>4. h \in [0..1 -> Seq(S)] /\ h[0] = <<>> /\ h[1] = s
  BY <1>3
<1>5. ASSUME NEW i \in 1..1 PROVE h[i] = h[i - 1] \o q[i]
  <2>1. i = 1 /\ i - 1 = 0
    OBVIOUS
  <2>2. <<>> \o s = s
    OBVIOUS
  <2> QED BY <1>2, <1>4, <2>1, <2>2
<1>6. Flat(S, q, Len(q), h)
  BY <1>2, <1>4, <1>5 DEF Flat
<1> QED BY <1>1, <1>2, <1>4, <1>6, FlattenFollows

Associates(a, b, c) == a \o (b \o c) = (a \o b) \o c

LEMMA Regroup ==
  ASSUME NEW S, NEW a \in Seq(S), NEW b \in Seq(S), NEW c \in Seq(S)
  PROVE  Associates(a, b, c)
<1>1. PICK k \in Nat : k = Len(a)
  OBVIOUS
<1>2. PICK l \in Nat : l = Len(b)
  OBVIOUS
<1>3. PICK n \in Nat : n = Len(c)
  OBVIOUS
<1>4. PICK ab : ab = a \o b
  OBVIOUS
<1>5. /\ ab \in Seq(S) /\ Len(ab) = k + l
      /\ \A i \in 1..(k + l) : ab[i] = IF i <= k THEN a[i] ELSE b[i - k]
  BY <1>1, <1>2, <1>4
<1>6. PICK bc \in Seq(S) : bc = b \o c
  <2>1. b \o c \in Seq(S)
    OBVIOUS
  <2> QED BY <2>1
<1>7. /\ bc \in Seq(S) /\ Len(bc) = l + n
      /\ \A i \in 1..(l + n) : bc[i] = IF i <= l THEN b[i] ELSE c[i - l]
  BY <1>2, <1>3, <1>6
<1>8. PICK s : s = a \o bc
  OBVIOUS
<1>9. /\ s \in Seq(S) /\ Len(s) = k + (l + n)
      /\ \A i \in 1..(k + (l + n)) : s[i] = IF i <= k THEN a[i] ELSE bc[i - k]
  <2>1. PICK m \in Nat : m = l + n
    OBVIOUS
  <2>2. Len(bc) = m /\ bc \in Seq(S)
    BY <1>7, <2>1
  <2>3. /\ s \in Seq(S) /\ Len(s) = k + m
        /\ \A i \in 1..k : s[i] = a[i]
        /\ \A i \in 1..m : s[k + i] = bc[i]
    <3>1. /\ a \o bc \in Seq(S) /\ Len(a \o bc) = Len(a) + Len(bc)
          /\ \A i \in 1..Len(a) : (a \o bc)[i] = a[i]
          /\ \A i \in 1..Len(bc) : (a \o bc)[Len(a) + i] = bc[i]
      BY Concatenation
    <3> QED BY <1>1, <1>8, <2>2, <3>1
  <2>4. ASSUME NEW i \in 1..(k + m) PROVE s[i] = IF i <= k THEN a[i] ELSE bc[i - k]
    <3>1. CASE i <= k
      BY <2>3, <3>1
    <3>2. CASE i > k
      <4>1. i - k \in 1..m /\ k + (i - k) = i
        BY <3>2
      <4> QED BY <2>3, <3>2, <4>1
    <3> QED BY <3>1, <3>2
  <2> QED BY <2>1, <2>3, <2>4
<1>10. PICK t : t = ab \o c
  OBVIOUS
<1>11. /\ t \in Seq(S) /\ Len(t) = (k + l) + n
       /\ \A i \in 1..((k + l) + n) : t[i] = IF i <= k + l THEN ab[i] ELSE c[i - (k + l)]
  BY <1>3, <1>5, <1>10
<1>12. ASSUME NEW i \in 1..Len(s) PROVE s[i] = t[i]
  <2>1. i \in 1..(k + (l + n)) /\ i \in 1..((k + l) + n)
    BY <1>9
  <2>2. CASE i <= k
    <3>1. i \in 1..(k + l) /\ i <= k + l
      BY <2>1, <2>2
    <3> QED BY <1>5, <1>9, <1>11, <2>1, <2>2, <3>1
  <2>3. CASE i > k /\ i <= k + l
    <3>1. i \in 1..(k + l) /\ i - k \in 1..(l + n) /\ i - k <= l
      BY <2>1, <2>3
    <3>2. s[i] = b[i - k]
      <4>1. s[i] = bc[i - k]
        BY <1>9, <2>1, <2>3
      <4>2. bc[i - k] = b[i - k]
        BY <1>7, <3>1
      <4> QED BY <4>1, <4>2
    <3>3. t[i] = b[i - k]
      BY <1>5, <1>11, <2>1, <2>3, <3>1
    <3> QED BY <3>2, <3>3
  <2>4. CASE i > k + l
    <3>1. i - k \in 1..(l + n) /\ ~(i - k <= l) /\ (i - k) - l = i - (k + l) /\ ~(i <= k)
      BY <2>1, <2>4
    <3>2. s[i] = c[i - (k + l)]
      BY <1>7, <1>9, <2>1, <3>1
    <3>3. t[i] = c[i - (k + l)]
      BY <1>11, <2>1, <2>4
    <3> QED BY <3>2, <3>3
  <2> QED BY <2>1, <2>2, <2>3, <2>4
<1>13. s = t
  BY <1>9, <1>11, <1>12, SameElements
<1> QED BY <1>4, <1>6, <1>8, <1>10, <1>13 DEF Associates


(* Flattening is a homomorphism. *)
LEMMA FlattenConcat ==
  ASSUME NEW S, NEW q \in Seq(Seq(S)), NEW r \in Seq(Seq(S))
  PROVE  /\ FlattenSeq(q) \in Seq(S) /\ FlattenSeq(r) \in Seq(S)
         /\ FlattenSeq(q \o r) = FlattenSeq(q) \o FlattenSeq(r)
<1>1. PICK n \in Nat : n = Len(q)
  OBVIOUS
<1>2. PICK k \in Nat : k = Len(r)
  OBVIOUS
<1>3. PICK g : Flat(S, q, n, g)
  BY <1>1, FlatExists
<1>4. PICK e : Flat(S, r, k, e)
  BY <1>2, FlatExists
<1>5. PICK a : a = g[n]
  OBVIOUS
<1>6. PICK b : b = e[k]
  OBVIOUS
<1>7. FlattenSeq(q) = a /\ a \in Seq(S) /\ FlattenSeq(r) = b /\ b \in Seq(S)
  BY <1>1, <1>2, <1>3, <1>4, <1>5, <1>6, FlattenFollows
<1>8. /\ g \in [0..n -> Seq(S)] /\ g[0] = <<>> /\ \A i \in 1..n : g[i] = g[i - 1] \o q[i]
      /\ e \in [0..k -> Seq(S)] /\ e[0] = <<>> /\ \A i \in 1..k : e[i] = e[i - 1] \o r[i]
  BY <1>3, <1>4 DEF Flat
<1>9. PICK w : w = q \o r
  OBVIOUS
<1>10. /\ w \in Seq(Seq(S)) /\ Len(w) = n + k
       /\ \A i \in 1..n : w[i] = q[i]
       /\ \A i \in 1..k : w[n + i] = r[i]
  BY <1>1, <1>2, <1>9, Concatenation
<1>11. PICK h : h = [i \in 0..(n + k) |-> IF i <= n THEN g[i] ELSE a \o e[i - n]]
  OBVIOUS
<1>12. ASSUME NEW i \in 0..k PROVE h[n + i] = a \o e[i] /\ e[i] \in Seq(S) /\ h[n + i] \in Seq(S)
  <2>1. n + i \in 0..(n + k) /\ (n + i) - n = i
    OBVIOUS
  <2>2. e[i] \in Seq(S)
    BY <1>8
  <2>3. CASE i = 0
    <3>1. n + i <= n /\ n + i = n
      BY <2>3
    <3>2. h[n + i] = a
      BY <1>5, <1>11, <2>1, <3>1
    <3>3. a \o <<>> = a
      BY <1>7
    <3> QED BY <1>7, <1>8, <2>2, <2>3, <3>2, <3>3
  <2>4. CASE i # 0
    <3>1. ~(n + i <= n)
      BY <2>4
    <3>2. h[n + i] = a \o e[(n + i) - n]
      BY <1>11, <2>1, <3>1
    <3>3. a \o e[i] \in Seq(S)
      BY <1>7, <2>2, Concatenation
    <3> QED BY <2>1, <2>2, <3>2, <3>3
  <2> QED BY <2>3, <2>4
<1>13. ASSUME NEW i \in 0..n PROVE h[i] = g[i] /\ h[i] \in Seq(S)
  <2>1. i \in 0..(n + k) /\ i <= n
    OBVIOUS
  <2> QED BY <1>8, <1>11, <2>1
<1>14. h \in [0..(n + k) -> Seq(S)]
  <2>1. ASSUME NEW i \in 0..(n + k) PROVE h[i] \in Seq(S)
    <3>1. CASE i <= n
      BY <1>13, <3>1
    <3>2. CASE i > n
      <4>1. i - n \in 0..k /\ n + (i - n) = i
        BY <3>2
      <4> QED BY <1>12, <4>1
    <3>3. i <= n \/ i > n
      OBVIOUS
    <3> QED BY <3>1, <3>2, <3>3
  <2>2. h = [i \in 0..(n + k) |-> h[i]]
    BY <1>11
  <2> QED BY <2>1, <2>2
<1>15. ASSUME NEW i \in 1..(n + k) PROVE h[i] = h[i - 1] \o w[i]
  <2>1. CASE i <= n
    <3>1. i \in 0..n /\ i - 1 \in 0..n /\ i \in 1..n
      BY <2>1
    <3>2. h[i] = g[i] /\ h[i - 1] = g[i - 1] /\ w[i] = q[i]
      BY <1>10, <1>13, <3>1
    <3> QED BY <1>8, <3>1, <3>2
  <2>2. CASE i > n
    <3>1. PICK j \in 1..k : i = n + j /\ i - 1 = n + (j - 1) /\ j - 1 \in 0..k /\ j \in 0..k
      <4>1. i - n \in 1..k /\ i = n + (i - n) /\ i - 1 = n + ((i - n) - 1) /\ (i - n) - 1 \in 0..k
            /\ i - n \in 0..k
        BY <2>2
      <4> QED BY <4>1
    <3>2. h[i] = a \o e[j] /\ h[i - 1] = a \o e[j - 1] /\ w[i] = r[j] /\ e[j - 1] \in Seq(S)
      <4>1. h[n + j] = a \o e[j] /\ h[n + (j - 1)] = a \o e[j - 1] /\ e[j - 1] \in Seq(S)
        BY <1>12, <3>1
      <4>2. w[n + j] = r[j]
        BY <1>10
      <4> QED BY <3>1, <4>1, <4>2
    <3>3. e[j] = e[j - 1] \o r[j] /\ r[j] \in Seq(S)
      <4>1. j \in 1..Len(r)
        BY <1>2
      <4>2. r[j] \in Seq(S)
        BY <4>1, ElementIn
      <4> QED BY <1>8, <4>2
    <3>4. Associates(a, e[j - 1], r[j])
      BY <1>7, <3>2, <3>3, Regroup
    <3>5. a \o (e[j - 1] \o r[j]) = (a \o e[j - 1]) \o r[j]
      BY <3>4 DEF Associates
    <3> QED BY <3>2, <3>3, <3>5
  <2>3. i <= n \/ i > n
    OBVIOUS
  <2> QED BY <2>1, <2>2, <2>3
<1>16. h[0] = <<>>
  <2>1. 0 \in 0..n
    OBVIOUS
  <2> QED BY <1>8, <1>13, <2>1
<1>17. Flat(S, w, Len(w), h)
  BY <1>10, <1>14, <1>15, <1>16 DEF Flat
<1>18. FlattenSeq(w) = h[n + k]
  BY <1>10, <1>17, FlattenFollows
<1>19. h[n + k] = a \o b
  <2>1. k \in 0..k
    OBVIOUS
  <2> QED BY <1>6, <1>12, <2>1
<1> QED BY <1>7, <1>9, <1>18, <1>19

(* What a byte says of the message it belongs to. *)
Names == {b[1] : b \in Byte}

(* What the bytes of s complete, one by one, and together. *)
Ends(L, s) == [i \in 1..Len(s) |-> IF s[i][2] = L[s[i][1]] THEN <<s[i][1]>> ELSE <<>>]

Done(L, s) == FlattenSeq(Ends(L, s))

LEMMA EndsFacts ==
  ASSUME NEW L, NEW s \in Seq(Byte)
  PROVE  /\ Ends(L, s) \in Seq(Seq(Names)) /\ Len(Ends(L, s)) = Len(s)
         /\ \A i \in 1..Len(s) : Ends(L, s)[i] = IF s[i][2] = L[s[i][1]] THEN <<s[i][1]>> ELSE <<>>
<1>1. PICK n \in Nat : n = Len(s)
  OBVIOUS
<1>2. PICK e : e = Ends(L, s)
  OBVIOUS
<1>3. e = [i \in 1..n |-> IF s[i][2] = L[s[i][1]] THEN <<s[i][1]>> ELSE <<>>]
  BY <1>1, <1>2 DEF Ends
<1>4. ASSUME NEW i \in 1..n
      PROVE  (IF s[i][2] = L[s[i][1]] THEN <<s[i][1]>> ELSE <<>>) \in Seq(Names)
  <2>1. s[i] \in Byte
    BY <1>1, ElementIn
  <2>2. PICK a \in Names : a = s[i][1]
    BY <2>1 DEF Names
  <2>3. <<a>> \in Seq(Names) /\ <<>> \in Seq(Names)
    BY OneElement
  <2> QED BY <2>2, <2>3
<1>5. e \in [1..n -> Seq(Names)]
  BY <1>3, <1>4
<1>6. e \in Seq(Seq(Names)) /\ Len(e) = n
  BY <1>5, TableIsSequence
<1> QED BY <1>1, <1>2, <1>3, <1>6

LEMMA EndsConcat ==
  ASSUME NEW L, NEW s \in Seq(Byte), NEW t \in Seq(Byte)
  PROVE  Ends(L, s \o t) = Ends(L, s) \o Ends(L, t)
<1>1. PICK n \in Nat : n = Len(s)
  OBVIOUS
<1>2. PICK k \in Nat : k = Len(t)
  OBVIOUS
<1>3. PICK w : w = s \o t
  OBVIOUS
<1>4. /\ w \in Seq(Byte) /\ Len(w) = n + k
      /\ \A i \in 1..n : w[i] = s[i]
      /\ \A i \in 1..k : w[n + i] = t[i]
  BY <1>1, <1>2, <1>3, Concatenation
<1>5. PICK a : a = Ends(L, s)
  OBVIOUS
<1>6. PICK b : b = Ends(L, t)
  OBVIOUS
<1>7. PICK c : c = Ends(L, w)
  OBVIOUS
<1>8. /\ a \in Seq(Seq(Names)) /\ Len(a) = n /\ b \in Seq(Seq(Names)) /\ Len(b) = k
      /\ c \in Seq(Seq(Names)) /\ Len(c) = n + k
  BY <1>1, <1>2, <1>4, <1>5, <1>6, <1>7, EndsFacts
<1>9. PICK d : d = a \o b
  OBVIOUS
<1>10. /\ d \in Seq(Seq(Names)) /\ Len(d) = n + k
       /\ \A i \in 1..n : d[i] = a[i]
       /\ \A i \in 1..k : d[n + i] = b[i]
  <2>1. PICK Q : Q = Seq(Names)
    OBVIOUS
  <2>2. a \in Seq(Q) /\ b \in Seq(Q)
    BY <1>8, <2>1
  <2>3. /\ a \o b \in Seq(Q) /\ Len(a \o b) = Len(a) + Len(b)
        /\ \A i \in 1..Len(a) : (a \o b)[i] = a[i]
        /\ \A i \in 1..Len(b) : (a \o b)[Len(a) + i] = b[i]
    BY <2>2, Concatenation
  <2> QED BY <1>8, <1>9, <2>1, <2>3
<1> DEFINE End(x) == IF x[2] = L[x[1]] THEN <<x[1]>> ELSE <<>>
<1>11. /\ \A i \in 1..n : a[i] = End(s[i])
       /\ \A i \in 1..k : b[i] = End(t[i])
       /\ \A i \in 1..(n + k) : c[i] = End(w[i])
  <2>1. \A i \in 1..n : a[i] = End(s[i])
    BY <1>1, <1>5, EndsFacts
  <2>2. \A i \in 1..k : b[i] = End(t[i])
    BY <1>2, <1>6, EndsFacts
  <2>3. \A i \in 1..(n + k) : c[i] = End(w[i])
    <3>1. PICK l : l = n + k
      OBVIOUS
    <3>2. w \in Seq(Byte) /\ Len(w) = l
      BY <1>4, <3>1
    <3>3. \A i \in 1..l : c[i] = End(w[i])
      BY <1>7, <3>2, EndsFacts
    <3> QED BY <3>1, <3>3
  <2> QED BY <2>1, <2>2, <2>3
<1> HIDE DEF End
<1>12. ASSUME NEW i \in 1..(n + k) PROVE c[i] = d[i]
  <2>1. CASE i <= n
    <3>1. i \in 1..n
      BY <2>1
    <3> QED BY <1>4, <1>10, <1>11, <3>1
  <2>2. CASE i > n
    <3>1. PICK j \in 1..k : i = n + j
      <4>1. i - n \in 1..k /\ i = n + (i - n)
        BY <2>2
      <4> QED BY <4>1
    <3>2. w[i] = t[j] /\ d[i] = b[j]
      BY <1>4, <1>10, <3>1
    <3>3. b[j] = End(t[j]) /\ c[i] = End(w[i])
      BY <1>11
    <3> QED BY <3>2, <3>3
  <2>3. i <= n \/ i > n
    OBVIOUS
  <2> QED BY <2>1, <2>2, <2>3
<1>13. c = d
  BY <1>8, <1>10, <1>12, SameElements
<1> QED BY <1>3, <1>5, <1>6, <1>7, <1>9, <1>13

LEMMA DoneEmpty == \A L : Done(L, <<>>) = <<>>
<1> SUFFICES ASSUME NEW L PROVE Done(L, <<>>) = <<>>
  OBVIOUS
<1>1. PICK s : s = <<>>
  OBVIOUS
<1>10. s \in Seq(Byte) /\ Len(s) = 0
  BY <1>1
<1>2. Ends(L, s) \in Seq(Seq(Names)) /\ Len(Ends(L, s)) = 0
  BY <1>10, EndsFacts
<1>3. Ends(L, s) = <<>>
  BY <1>2, NoElements
<1> QED BY <1>1, <1>3, FlattenEmpty DEF Done

LEMMA DoneConcat ==
  ASSUME NEW L, NEW s \in Seq(Byte), NEW t \in Seq(Byte)
  PROVE  /\ Done(L, s) \in Seq(Names) /\ Done(L, t) \in Seq(Names)
         /\ Done(L, s \o t) = Done(L, s) \o Done(L, t)
<1>1. PICK a \in Seq(Seq(Names)) : a = Ends(L, s)
  BY EndsFacts
<1>2. PICK b \in Seq(Seq(Names)) : b = Ends(L, t)
  BY EndsFacts
<1>3. Ends(L, s \o t) = a \o b
  BY <1>1, <1>2, EndsConcat
<1>4. /\ FlattenSeq(a) \in Seq(Names) /\ FlattenSeq(b) \in Seq(Names)
      /\ FlattenSeq(a \o b) = FlattenSeq(a) \o FlattenSeq(b)
  BY FlattenConcat
<1> QED BY <1>1, <1>2, <1>3, <1>4 DEF Done

LEMMA HeadAndTail ==
  ASSUME NEW S, NEW s \in Seq(S), s # <<>>
  PROVE  /\ Head(s) \in S /\ Tail(s) \in Seq(S) /\ s = <<Head(s)>> \o Tail(s)
         /\ Len(s) \in Nat /\ Len(s) > 0 /\ Len(Tail(s)) = Len(s) - 1
OBVIOUS

LEMMA DoneByte ==
  ASSUME NEW L, NEW b \in Byte
  PROVE  Done(L, <<b>>) = IF b[2] = L[b[1]] THEN <<b[1]>> ELSE <<>>
<1>1. PICK s : s = <<b>>
  OBVIOUS
<1>2. s \in Seq(Byte) /\ Len(s) = 1 /\ s[1] = b
  BY <1>1, OneElement
<1>3. PICK x : x = IF b[2] = L[b[1]] THEN <<b[1]>> ELSE <<>>
  OBVIOUS
<1>4. PICK e : e = Ends(L, s)
  OBVIOUS
<1>5. e \in Seq(Seq(Names)) /\ Len(e) = 1 /\ e[1] = x
  <2>1. 1 \in 1..Len(s)
    BY <1>2
  <2> QED BY <1>2, <1>3, <1>4, <2>1, EndsFacts
<1>6. x \in Seq(Names)
  <2>1. 1 \in 1..Len(e)
    BY <1>5
  <2> QED BY <1>5, <2>1, ElementIn
<1>7. e = <<x>>
  <2>1. <<x>> \in Seq(Seq(Names)) /\ Len(<<x>>) = 1 /\ <<x>>[1] = x
    BY <1>6, OneElement
  <2>2. PICK d : d = <<x>>
    OBVIOUS
  <2>3. \A i \in 1..1 : e[i] = d[i]
    BY <1>5, <2>1, <2>2
  <2> QED BY <1>5, <2>1, <2>2, <2>3, SameElements
<1>8. FlattenSeq(e) = x
  BY <1>6, <1>7, FlattenOne
<1> QED BY <1>1, <1>3, <1>4, <1>8 DEF Done

LEMMA DoneHead ==
  ASSUME NEW L, NEW s \in Seq(Byte), s # <<>>
  PROVE  Done(L, s) = (IF Head(s)[2] = L[Head(s)[1]] THEN <<Head(s)[1]>> ELSE <<>>) \o Done(L, Tail(s))
<1>1. PICK b \in Byte : b = Head(s)
  BY HeadAndTail
<1>2. PICK t \in Seq(Byte) : t = Tail(s)
  BY HeadAndTail
<1>3. PICK h \in Seq(Byte) : h = <<b>>
  BY OneElement
<1>4. s = h \o t
  BY <1>1, <1>2, <1>3, HeadAndTail
<1>5. Done(L, h \o t) = Done(L, h) \o Done(L, t)
  BY DoneConcat
<1>6. Done(L, h) = IF b[2] = L[b[1]] THEN <<b[1]>> ELSE <<>>
  BY <1>3, DoneByte
<1> QED BY <1>1, <1>2, <1>4, <1>5, <1>6

(* The recursion of Completed computes the same. *)
CompletedBy(L, f) ==
  f = [bytes \in Seq(Byte) |->
        IF bytes = <<>> THEN <<>>
        ELSE (IF Head(bytes)[2] = L[Head(bytes)[1]] THEN <<Head(bytes)[1]>> ELSE <<>>)
             \o f[Tail(bytes)]]

LEMMA CompletedIs ==
  ASSUME NEW L, NEW f, f = CHOOSE x : CompletedBy(L, x), NEW s \in Seq(Byte)
  PROVE  f[s] = Done(L, s)
<1>1. PICK g : g = [bytes \in Seq(Byte) |-> Done(L, bytes)]
  OBVIOUS
<1>2. ASSUME NEW bytes \in Seq(Byte)
      PROVE  g[bytes] = IF bytes = <<>> THEN <<>>
                        ELSE (IF Head(bytes)[2] = L[Head(bytes)[1]] THEN <<Head(bytes)[1]>> ELSE <<>>)
                             \o g[Tail(bytes)]
  <2>1. g[bytes] = Done(L, bytes)
    BY <1>1
  <2>2. CASE bytes = <<>>
    BY <2>1, <2>2, DoneEmpty
  <2>3. CASE bytes # <<>>
    <3>1. Tail(bytes) \in Seq(Byte)
      BY <2>3, HeadAndTail
    <3>2. g[Tail(bytes)] = Done(L, Tail(bytes))
      BY <1>1, <3>1
    <3> QED BY <2>1, <2>3, <3>2, DoneHead
  <2> QED BY <2>2, <2>3
<1>3. CompletedBy(L, g)
  BY <1>1, <1>2 DEF CompletedBy
<1>5. CompletedBy(L, f)
  BY <1>3
<1>7. \A bytes \in Seq(Byte) :
        f[bytes] = IF bytes = <<>> THEN <<>>
                   ELSE (IF Head(bytes)[2] = L[Head(bytes)[1]] THEN <<Head(bytes)[1]>> ELSE <<>>)
                        \o f[Tail(bytes)]
  BY <1>5 DEF CompletedBy
<1> DEFINE N == {n \in Nat : \A bytes \in Seq(Byte) : Len(bytes) = n => f[bytes] = g[bytes]}
<1>8. 0 \in N
  <2>1. ASSUME NEW bytes \in Seq(Byte), Len(bytes) = 0 PROVE f[bytes] = g[bytes]
    <3>1. bytes = <<>>
      BY <2>1, NoElements
    <3> QED BY <1>2, <1>7, <3>1
  <2> QED BY <2>1
<1>9. ASSUME NEW n \in N PROVE n + 1 \in N
  <2>1. n \in Nat /\ \A bytes \in Seq(Byte) : Len(bytes) = n => f[bytes] = g[bytes]
    OBVIOUS
  <2>2. ASSUME NEW bytes \in Seq(Byte), Len(bytes) = n + 1 PROVE f[bytes] = g[bytes]
    <3>1. bytes # <<>>
      BY <2>1, <2>2
    <3>2. Tail(bytes) \in Seq(Byte) /\ Len(Tail(bytes)) = Len(bytes) - 1
      BY <3>1, HeadAndTail
    <3>3. Len(Tail(bytes)) = n
      BY <2>1, <2>2, <3>2
    <3>4. f[Tail(bytes)] = g[Tail(bytes)]
      BY <2>1, <3>2, <3>3
    <3>5. PICK x : x = IF Head(bytes)[2] = L[Head(bytes)[1]] THEN <<Head(bytes)[1]>> ELSE <<>>
      OBVIOUS
    <3>6. f[bytes] = x \o f[Tail(bytes)]
      BY <1>7, <3>1, <3>5
    <3>7. g[bytes] = x \o g[Tail(bytes)]
      BY <1>2, <3>1, <3>5
    <3> QED BY <3>4, <3>6, <3>7
  <2> QED BY <2>1, <2>2
<1>10. N \in SUBSET Nat
  OBVIOUS
<1> HIDE DEF N
<1>11. N = Nat
  BY <1>8, <1>9, <1>10, SetInduction
<1>12. Len(s) \in N
  BY <1>11
<1>13. f[s] = g[s]
  BY <1>12 DEF N
<1> QED BY <1>1, <1>13

(* The bytes of one message complete it, and it alone. *)
LEMMA DoneMessage ==
  ASSUME NEW L, NEW m \in Messages, NEW n \in Nat, n > 0, n = L[m],
         NEW s, s = [k \in 1..n |-> <<m, k>>]
  PROVE  s \in Seq(Byte) /\ Done(L, s) = <<m>>
<1>1. s \in Seq(Byte) /\ Len(s) = n /\ \A k \in 1..n : s[k] = <<m, k>>
  <2>1. \A k \in 1..n : <<m, k>> \in Byte
    BY DEF Byte
  <2>2. s \in [1..n -> Byte]
    BY <2>1
  <2> QED BY <2>2, TableIsSequence
<1>2. PICK e : e = Ends(L, s)
  OBVIOUS
<1>3. /\ e \in Seq(Seq(Names)) /\ Len(e) = n
      /\ \A k \in 1..n : e[k] = IF k = n THEN <<m>> ELSE <<>>
  <2>1. /\ e \in Seq(Seq(Names)) /\ Len(e) = n
        /\ \A k \in 1..n : e[k] = IF s[k][2] = L[s[k][1]] THEN <<s[k][1]>> ELSE <<>>
    <3>1. PICK u \in Seq(Byte) : u = s
      BY <1>1
    <3>2. /\ Ends(L, u) \in Seq(Seq(Names)) /\ Len(Ends(L, u)) = Len(u)
          /\ \A k \in 1..Len(u) : Ends(L, u)[k] = IF u[k][2] = L[u[k][1]] THEN <<u[k][1]>> ELSE <<>>
      BY EndsFacts
    <3>3. e = Ends(L, u) /\ Len(u) = n
      BY <1>1, <1>2, <3>1
    <3> QED BY <3>1, <3>2, <3>3
  <2>2. \A k \in 1..n : s[k][1] = m /\ s[k][2] = k
    BY <1>1
  <2> QED BY <2>1, <2>2
<1>4. <<m>> \in Seq(Names) /\ <<>> \in Seq(Names)
  <2>1. <<m, 1>> \in Byte /\ <<m, 1>>[1] = m
    BY DEF Byte
  <2>2. m \in Names
    BY <2>1 DEF Names
  <2> QED BY <2>2, OneElement
<1>5. PICK h : h = [i \in 0..n |-> IF i = n THEN <<m>> ELSE <<>>]
  OBVIOUS
<1>6. h \in [0..n -> Seq(Names)] /\ h[0] = <<>> /\ h[n] = <<m>>
  BY <1>4, <1>5
<1>7. ASSUME NEW i \in 1..n PROVE h[i] = h[i - 1] \o e[i]
  <2>1. i \in 0..n /\ i - 1 \in 0..n /\ i - 1 # n
    OBVIOUS
  <2>2. h[i - 1] = <<>> /\ h[i] = IF i = n THEN <<m>> ELSE <<>>
    BY <1>5, <2>1
  <2>3. e[i] = h[i] /\ e[i] \in Seq(Names)
    BY <1>3, <1>4, <2>2
  <2>4. \A x \in Seq(Names) : <<>> \o x = x
    OBVIOUS
  <2> QED BY <2>2, <2>3, <2>4
<1>8. Flat(Names, e, Len(e), h)
  BY <1>3, <1>6, <1>7 DEF Flat
<1>9. FlattenSeq(e) = h[n]
  BY <1>3, <1>8, FlattenFollows
<1> QED BY <1>1, <1>2, <1>6, <1>9 DEF Done

-----------------------------------------------------------------------------
(* The ring buffer. *)

RingType == [buffer : Seq(Byte), rPos : Nat, wPos : Nat, size : Nat]

Sound(r) ==
  /\ r \in RingType
  /\ r.size <= Capacity(r) /\ r.rPos < Capacity(r)
  /\ r.wPos = (r.rPos + r.size) % Capacity(r)

(* Positions are never more than one round ahead. *)
Wrap(x, c) == IF x < c THEN x ELSE x - c

LEMMA Modulo ==
  ASSUME NEW c \in Nat, c > 0, NEW x \in Nat, x < 2 * c
  PROVE  x % c = Wrap(x, c) /\ Wrap(x, c) \in Nat /\ Wrap(x, c) < c
<1>1. x % c \in 0..(c - 1) /\ x = c * (x \div c) + (x % c) /\ x \div c \in Int
  OBVIOUS
<1>2. CASE x < c
  <2>1. x \div c = 0
    BY <1>1, <1>2
  <2> QED BY <1>1, <1>2, <2>1 DEF Wrap
<1>3. CASE x >= c
  <2>1. x \div c = 1
    BY <1>1, <1>3
  <2> QED BY <1>1, <1>3, <2>1 DEF Wrap
<1> QED BY <1>2, <1>3

LEMMA RingFields ==
  ASSUME NEW r \in RingType
  PROVE  /\ r.buffer \in Seq(Byte) /\ r.rPos \in Nat /\ r.wPos \in Nat /\ r.size \in Nat
         /\ Capacity(r) \in Nat /\ Capacity(r) = Len(r.buffer)
         /\ DOMAIN r.buffer = 1..Capacity(r)
<1>1. r.buffer \in Seq(Byte) /\ r.rPos \in Nat /\ r.wPos \in Nat /\ r.size \in Nat
  BY DEF RingType
<1> QED BY <1>1 DEF Capacity

(* The i-th byte from the read position on. *)
At(r, i) == r.buffer[Wrap(r.rPos + i - 1, Capacity(r)) + 1]

LEMMA PeekBytes ==
  ASSUME NEW r, Sound(r), NEW n \in 0..r.size
  PROVE  /\ Peek(r, n) \in Seq(Byte) /\ Len(Peek(r, n)) = n
         /\ \A i \in 1..n : Peek(r, n)[i] = At(r, i)
<1>1. /\ r.buffer \in Seq(Byte) /\ r.rPos \in Nat /\ r.size \in Nat /\ Capacity(r) \in Nat
      /\ Capacity(r) = Len(r.buffer) /\ r.size <= Capacity(r) /\ r.rPos < Capacity(r)
  BY RingFields DEF Sound
<1>2. PICK b \in Seq(Byte) : b = r.buffer
  BY <1>1
<1>3. PICK c \in Nat : c = Capacity(r)
  BY <1>1
<1>4. PICK rp \in Nat : rp = r.rPos
  BY <1>1
<1>5. PICK one \in Nat : one = IF c - rp < n THEN c - rp ELSE n
  BY <1>1, <1>3, <1>4
<1>6. n \in Nat /\ n <= c /\ rp < c /\ c = Len(b) /\ one <= n /\ rp + one <= c /\ n - one \in Nat
  <2>1. n \in Nat /\ n <= r.size
    BY <1>1
  <2>2. rp < c /\ c = Len(b) /\ r.size <= c /\ r.size \in Nat
    BY <1>1, <1>2, <1>3, <1>4
  <2>3. n <= c
    BY <2>1, <2>2
  <2> QED BY <1>5, <2>1, <2>2, <2>3
<1>7. Peek(r, n) = SubSeq(b, rp + 1, rp + one) \o SubSeq(b, 1, n - one)
  BY <1>2, <1>3, <1>4, <1>5 DEF Peek
<1>8. PICK s : s = SubSeq(b, rp + 1, rp + one)
  OBVIOUS
<1>9. s \in Seq(Byte) /\ Len(s) = one /\ \A i \in 1..one : s[i] = b[rp + i]
  BY <1>6, <1>8
<1>10. PICK t : t = SubSeq(b, 1, n - one)
  OBVIOUS
<1>11. t \in Seq(Byte) /\ Len(t) = n - one /\ \A i \in 1..(n - one) : t[i] = b[i]
  BY <1>6, <1>10
<1>12. PICK w : w = s \o t
  OBVIOUS
<1>13. /\ w \in Seq(Byte) /\ Len(w) = n
       /\ \A i \in 1..n : w[i] = IF i <= one THEN s[i] ELSE t[i - one]
  BY <1>6, <1>9, <1>11, <1>12
<1>14. ASSUME NEW i \in 1..n PROVE w[i] = At(r, i)
  <2>1. At(r, i) = b[Wrap(rp + i - 1, c) + 1]
    BY <1>2, <1>3, <1>4 DEF At
  <2>2. CASE i <= one
    <3>1. w[i] = b[rp + i]
      BY <1>9, <1>13, <2>2
    <3>2. Wrap(rp + i - 1, c) + 1 = rp + i
      BY <1>6, <2>2 DEF Wrap
    <3> QED BY <2>1, <3>1, <3>2
  <2>3. CASE i > one
    <3>1. one = c - rp /\ i - one \in 1..(n - one)
      BY <1>5, <1>6, <2>3
    <3>2. w[i] = b[i - one]
      BY <1>11, <1>13, <2>3, <3>1
    <3>3. Wrap(rp + i - 1, c) + 1 = i - one
      BY <1>6, <2>3, <3>1 DEF Wrap
    <3> QED BY <2>1, <3>2, <3>3
  <2> QED BY <1>6, <2>2, <2>3
<1> QED BY <1>7, <1>8, <1>10, <1>12, <1>13, <1>14

(* Sequences of bytes are equal when their bytes are. *)
LEMMA SameBytes ==
  ASSUME NEW s \in Seq(Byte), NEW t \in Seq(Byte), Len(s) = Len(t), \A i \in 1..Len(s) : s[i] = t[i]
  PROVE  s = t
OBVIOUS

(* Reading makes room. *)
LEMMA AdvanceRead ==
  ASSUME NEW r, Sound(r), NEW n \in 0..r.size, NEW r2, r2 = AdvanceRPos(r, n)
  PROVE  /\ Sound(r2) /\ Capacity(r2) = Capacity(r) /\ r2.size = r.size - n
         /\ Peek(r2, r2.size) = SubSeq(Peek(r, r.size), n + 1, r.size)
<1>1. /\ r.buffer \in Seq(Byte) /\ r.rPos \in Nat /\ r.wPos \in Nat /\ r.size \in Nat /\ Capacity(r) \in Nat
      /\ r.size <= Capacity(r) /\ r.rPos < Capacity(r) /\ r \in RingType
      /\ r.wPos = (r.rPos + r.size) % Capacity(r)
  BY RingFields DEF Sound
<1>2. PICK c \in Nat : c = Capacity(r)
  BY <1>1
<1>3. PICK rp \in Nat : rp = r.rPos
  BY <1>1
<1>4. PICK sz \in Nat : sz = r.size
  BY <1>1
<1>5. n \in Nat /\ n <= sz /\ sz <= c /\ rp < c
  BY <1>1, <1>2, <1>3, <1>4
<1>6. /\ (rp + n) % c = Wrap(rp + n, c) /\ Wrap(rp + n, c) \in Nat /\ Wrap(rp + n, c) < c
      /\ (rp + sz) % c = Wrap(rp + sz, c)
  <2>1. /\ rp + n \in Nat /\ rp + n < 2 * c
        /\ rp + sz \in Nat /\ rp + sz < 2 * c /\ c > 0
    BY <1>5
  <2> QED BY <2>1, Modulo
<1>7. PICK rp2 \in Nat : rp2 = Wrap(rp + n, c)
  BY <1>6
<1>8. r2 = [r EXCEPT !.rPos = rp2, !.size = sz - n]
  BY <1>2, <1>3, <1>4, <1>6, <1>7 DEF AdvanceRPos
<1>9. r2 \in RingType /\ r2.rPos = rp2 /\ r2.size = sz - n /\ r2.wPos = r.wPos /\ r2.buffer = r.buffer
  <2>1. PICK d \in Nat : d = sz - n
    BY <1>5
  <2>2. r2 = [r EXCEPT !.rPos = rp2, !.size = d]
    BY <1>8, <2>1
  <2>3. r2 \in RingType /\ r2.rPos = rp2 /\ r2.size = d /\ r2.wPos = r.wPos /\ r2.buffer = r.buffer
    BY <1>1, <2>2 DEF RingType
  <2> QED BY <2>1, <2>3
<1>10. Capacity(r2) = c
  BY <1>2, <1>9 DEF Capacity
<1>11. Sound(r2)
  <2>1. (rp2 + (sz - n)) % c = Wrap(rp2 + (sz - n), c)
    <3>1. rp2 + (sz - n) \in Nat /\ rp2 + (sz - n) < 2 * c
      BY <1>5, <1>6, <1>7
    <3> QED BY <1>5, <3>1, Modulo
  <2>2. Wrap(rp2 + (sz - n), c) = Wrap(rp + sz, c)
    BY <1>5, <1>6, <1>7 DEF Wrap
  <2>3. r2.wPos = (r2.rPos + r2.size) % c
    BY <1>1, <1>2, <1>3, <1>4, <1>6, <1>9, <2>1, <2>2
  <2> QED BY <1>5, <1>6, <1>7, <1>9, <1>10, <2>3 DEF Sound
<1>12. PICK s : s = Peek(r, r.size)
  OBVIOUS
<1>13. s \in Seq(Byte) /\ Len(s) = sz /\ \A i \in 1..sz : s[i] = At(r, i)
  BY <1>1, <1>4, <1>12, PeekBytes
<1>14. PICK t : t = Peek(r2, r2.size)
  OBVIOUS
<1>15. t \in Seq(Byte) /\ Len(t) = sz - n /\ \A i \in 1..(sz - n) : t[i] = At(r2, i)
  <2>1. r2.size \in 0..r2.size
    BY <1>5, <1>9
  <2> QED BY <1>9, <1>11, <1>14, <2>1, PeekBytes
<1>16. PICK u : u = SubSeq(s, n + 1, sz)
  OBVIOUS
<1>17. u \in Seq(Byte) /\ Len(u) = sz - n /\ \A i \in 1..(sz - n) : u[i] = s[n + i] /\ n + i \in 1..sz
  BY <1>5, <1>13, <1>16
<1>18. ASSUME NEW i \in 1..(sz - n) PROVE t[i] = u[i]
  <2>1. Wrap(rp2 + i - 1, c) = Wrap(rp + (n + i) - 1, c)
    BY <1>5, <1>6, <1>7 DEF Wrap
  <2>2. At(r2, i) = At(r, n + i)
    BY <1>2, <1>3, <1>9, <1>10, <2>1 DEF At
  <2> QED BY <1>13, <1>15, <1>17, <2>2
<1>19. t = u
  BY <1>15, <1>17, <1>18, SameBytes
<1> QED BY <1>2, <1>4, <1>9, <1>10, <1>11, <1>12, <1>14, <1>16, <1>19

(* The free memory, in two pieces behind the bytes. *)
LEMMA FreeMemory ==
  ASSUME NEW r, Sound(r)
  PROVE  /\ FreeMemoryOne(r) + FreeMemoryTwo(r) = Free(r)
         /\ FreeMemoryOne(r) \in Nat /\ FreeMemoryTwo(r) \in Nat /\ Free(r) \in Nat
         /\ FreeMemoryOne(r) <= Capacity(r) - r.wPos
         /\ FreeMemoryTwo(r) = 0 \/ FreeMemoryOne(r) = Capacity(r) - r.wPos
         /\ r.wPos = Wrap(r.rPos + r.size, Capacity(r)) /\ r.wPos < Capacity(r)
<1>1. /\ r.buffer \in Seq(Byte) /\ r.rPos \in Nat /\ r.wPos \in Nat /\ r.size \in Nat /\ Capacity(r) \in Nat
      /\ r.size <= Capacity(r) /\ r.rPos < Capacity(r)
      /\ r.wPos = (r.rPos + r.size) % Capacity(r)
  BY RingFields DEF Sound
<1>2. r.wPos = Wrap(r.rPos + r.size, Capacity(r)) /\ r.wPos < Capacity(r)
  <2>1. PICK x \in Nat : x = r.rPos
    BY <1>1
  <2>2. PICK y \in Nat : y = r.size
    BY <1>1
  <2>3. PICK c \in Nat : c = Capacity(r)
    BY <1>1
  <2>4. y <= c /\ x < c /\ r.wPos = (x + y) % c
    BY <1>1, <2>1, <2>2, <2>3
  <2>5. x + y \in Nat /\ x + y < 2 * c /\ c > 0
    BY <2>4
  <2>6. (x + y) % c = Wrap(x + y, c) /\ Wrap(x + y, c) < c
    BY <2>5, Modulo
  <2> QED BY <2>1, <2>2, <2>3, <2>4, <2>6
<1>3. PICK c \in Nat : c = Capacity(r)
  BY <1>1
<1>4. PICK wp \in Nat : wp = r.wPos
  BY <1>1
<1>5. PICK sz \in Nat : sz = r.size
  BY <1>1
<1>6. /\ sz <= c /\ wp < c
  BY <1>1, <1>2, <1>3, <1>4, <1>5
<1>7. PICK one : one = IF sz = 0 \/ c - wp < c - sz THEN c - wp ELSE c - sz
  OBVIOUS
<1>8. PICK two : two = IF sz = 0 THEN wp ELSE (c - sz) - one
  OBVIOUS
<1>9. FreeMemoryOne(r) = one /\ FreeMemoryTwo(r) = two /\ Free(r) = c - sz
  BY <1>3, <1>4, <1>5, <1>7, <1>8 DEF FreeMemoryOne, FreeMemoryTwo, Free
<1>10. one + two = c - sz /\ one \in Nat /\ two \in Nat /\ c - sz \in Nat /\ one <= c - wp
       /\ (two = 0 \/ one = c - wp)
  BY <1>6, <1>7, <1>8
<1> QED BY <1>2, <1>3, <1>4, <1>9, <1>10

(* The bytes that arrive are put behind those already there. *)
LEMMA AdvanceWrite ==
  ASSUME NEW r, Sound(r), NEW bytes \in Seq(Byte), Len(bytes) <= Free(r),
         NEW r2, r2 = AdvanceWPos(Fill(r, bytes), Len(bytes))
  PROVE  /\ Sound(r2) /\ Capacity(r2) = Capacity(r) /\ r2.size = r.size + Len(bytes)
         /\ Peek(r2, r2.size) = Peek(r, r.size) \o bytes
<1>1. /\ r.buffer \in Seq(Byte) /\ r.rPos \in Nat /\ r.wPos \in Nat /\ r.size \in Nat /\ Capacity(r) \in Nat
      /\ r.size <= Capacity(r) /\ r.rPos < Capacity(r) /\ r \in RingType
      /\ Capacity(r) = Len(r.buffer)
  BY RingFields DEF Sound
<1>2. PICK c \in Nat : c = Capacity(r)
  BY <1>1
<1>3. PICK rp \in Nat : rp = r.rPos
  BY <1>1
<1>4. PICK sz \in Nat : sz = r.size
  BY <1>1
<1>5. PICK wp \in Nat : wp = r.wPos
  BY <1>1
<1>6. PICK n \in Nat : n = Len(bytes)
  OBVIOUS
<1>7. PICK one \in Nat : one = FreeMemoryOne(r)
  BY FreeMemory
<1>8. PICK two \in Nat : two = FreeMemoryTwo(r)
  BY FreeMemory
<1>9. /\ sz <= c /\ rp < c /\ n <= c - sz /\ one + two = c - sz /\ one <= c - wp
      /\ two = 0 \/ one = c - wp
      /\ wp = Wrap(rp + sz, c) /\ wp < c
  BY <1>1, <1>2, <1>3, <1>4, <1>5, <1>6, <1>7, <1>8, FreeMemory DEF Free
<1>10. PICK b : b = [i \in 1..c |-> IF i > wp /\ i <= wp + one /\ i - wp <= n THEN bytes[i - wp]
                                   ELSE IF i <= two /\ i + one <= n THEN bytes[i + one]
                                   ELSE r.buffer[i]]
  OBVIOUS
<1>11. b \in Seq(Byte) /\ Len(b) = c
  <2>1. ASSUME NEW i \in 1..c
        PROVE  /\ i > wp /\ i <= wp + one /\ i - wp <= n => bytes[i - wp] \in Byte
               /\ i <= two /\ i + one <= n => bytes[i + one] \in Byte
               /\ r.buffer[i] \in Byte
    <3>1. i > wp /\ i <= wp + one /\ i - wp <= n => i - wp \in 1..Len(bytes)
      BY <1>6
    <3>2. i <= two /\ i + one <= n => i + one \in 1..Len(bytes)
      BY <1>6
    <3>3. i \in 1..Len(r.buffer)
      BY <1>1, <1>2
    <3> QED BY <1>1, <3>1, <3>2, <3>3
  <2>2. b \in [1..c -> Byte]
    BY <1>10, <2>1
  <2> QED BY <2>2
<1>12. PICK wp2 \in Nat : wp2 = Wrap(wp + n, c) /\ wp2 = (wp + n) % c
  <2>1. wp + n \in Nat /\ wp + n < 2 * c /\ c > 0
    BY <1>9
  <2> QED BY <2>1, Modulo
<1>13. r2 \in RingType /\ r2.rPos = rp /\ r2.size = sz + n /\ r2.wPos = wp2 /\ r2.buffer = b
  <2>1. PICK f : f = Fill(r, bytes)
    OBVIOUS
  <2>2. f = [r EXCEPT !.buffer = b]
    BY <1>2, <1>5, <1>6, <1>7, <1>8, <1>10, <2>1 DEF Fill
  <2>3. /\ f \in RingType /\ f.rPos = rp /\ f.size = sz /\ f.wPos = wp /\ f.buffer = b
    BY <1>1, <1>3, <1>4, <1>5, <1>11, <2>2 DEF RingType
  <2>4. Capacity(f) = c
    BY <1>11, <2>3 DEF Capacity
  <2>5. r2 = [f EXCEPT !.wPos = (@ + n) % c, !.size = @ + n]
    BY <1>6, <2>1, <2>4 DEF AdvanceWPos
  <2>6. PICK d \in Nat : d = sz + n
    OBVIOUS
  <2>7. r2 = [f EXCEPT !.wPos = wp2, !.size = d]
    BY <1>12, <2>3, <2>5, <2>6
  <2>8. r2 \in RingType /\ r2.rPos = rp /\ r2.size = d /\ r2.wPos = wp2 /\ r2.buffer = b
    BY <2>3, <2>7 DEF RingType
  <2> QED BY <2>6, <2>8
<1>14. Capacity(r2) = c
  BY <1>11, <1>13 DEF Capacity
<1>15. Sound(r2)
  <2>1. rp + (sz + n) \in Nat /\ rp + (sz + n) < 2 * c /\ c > 0
    BY <1>9
  <2>2. (rp + (sz + n)) % c = Wrap(rp + (sz + n), c)
    BY <2>1, Modulo
  <2>3. Wrap(rp + (sz + n), c) = wp2
    BY <1>9, <1>12 DEF Wrap
  <2>4. r2.wPos = (r2.rPos + r2.size) % c
    BY <1>13, <2>2, <2>3
  <2>5. sz + n <= c
    BY <1>9
  <2> QED BY <1>9, <1>13, <1>14, <2>4, <2>5 DEF Sound
<1>16. PICK s : s = Peek(r, r.size)
  OBVIOUS
<1>17. s \in Seq(Byte) /\ Len(s) = sz /\ \A i \in 1..sz : s[i] = At(r, i)
  BY <1>1, <1>4, <1>16, PeekBytes
<1>18. PICK t : t = Peek(r2, r2.size)
  OBVIOUS
<1>19. t \in Seq(Byte) /\ Len(t) = sz + n /\ \A i \in 1..(sz + n) : t[i] = At(r2, i)
  <2>1. r2.size \in 0..r2.size
    BY <1>13
  <2> QED BY <1>13, <1>15, <1>18, <2>1, PeekBytes
<1>20. PICK u : u = s \o bytes
  OBVIOUS
<1>21. /\ u \in Seq(Byte) /\ Len(u) = sz + n
       /\ \A i \in 1..(sz + n) : u[i] = IF i <= sz THEN s[i] ELSE bytes[i - sz]
  BY <1>6, <1>17, <1>20
<1>22. ASSUME NEW i \in 1..(sz + n) PROVE t[i] = u[i]
  <2>1. PICK j \in 1..c : j = Wrap(rp + i - 1, c) + 1
    <3>1. rp + i - 1 \in Nat /\ rp + i - 1 < 2 * c /\ c > 0
      BY <1>9
    <3>2. Wrap(rp + i - 1, c) + 1 \in 1..c
      BY <3>1 DEF Wrap
    <3> QED BY <3>2
  <2>2. t[i] = b[j]
    BY <1>13, <1>14, <1>19, <2>1 DEF At
  <2>3. b[j] = IF j > wp /\ j <= wp + one /\ j - wp <= n THEN bytes[j - wp]
               ELSE IF j <= two /\ j + one <= n THEN bytes[j + one]
               ELSE r.buffer[j]
    BY <1>10
  <2>4. CASE i <= sz
    <3>1. i \in 1..sz
      BY <2>4
    <3>2. ~(j > wp /\ j <= wp + one /\ j - wp <= n) /\ ~(j <= two /\ j + one <= n)
      BY <1>9, <2>1, <2>4 DEF Wrap
    <3>3. u[i] = r.buffer[j]
      BY <1>2, <1>3, <1>17, <1>21, <2>1, <2>4, <3>1 DEF At
    <3> QED BY <2>2, <2>3, <3>2, <3>3
  <2>5. CASE i > sz
    <3>1. PICK k \in 1..n : k = i - sz
      BY <2>5
    <3>2. u[i] = bytes[k]
      BY <1>21, <2>5, <3>1
    <3>3. CASE k <= one
      <4>1. j > wp /\ j <= wp + one /\ j - wp <= n /\ j - wp = k
        BY <1>9, <2>1, <2>5, <3>1, <3>3 DEF Wrap
      <4> QED BY <2>2, <2>3, <3>2, <4>1
    <3>4. CASE k > one
      <4>1. ~(j > wp /\ j <= wp + one /\ j - wp <= n) /\ j <= two /\ j + one <= n /\ j + one = k
        BY <1>9, <2>1, <2>5, <3>1, <3>4 DEF Wrap
      <4> QED BY <2>2, <2>3, <3>2, <4>1
    <3> QED BY <3>3, <3>4
  <2> QED BY <2>4, <2>5
<1>23. t = u
  BY <1>19, <1>21, <1>22, SameBytes
<1> QED BY <1>2, <1>4, <1>6, <1>13, <1>14, <1>15, <1>16, <1>18, <1>20, <1>23

(* A ring buffer that grows keeps its bytes. *)
LEMMA ReserveBytes ==
  ASSUME NEW r, Sound(r), NEW n \in Nat, NEW r2, r2 = Reserve(r, n)
  PROVE  /\ Sound(r2) /\ Capacity(r2) >= n /\ Capacity(r2) >= Capacity(r) /\ r2.size = r.size
         /\ Peek(r2, r2.size) = Peek(r, r.size)
<1>1. /\ r.buffer \in Seq(Byte) /\ r.rPos \in Nat /\ r.wPos \in Nat /\ r.size \in Nat /\ Capacity(r) \in Nat
      /\ r.size <= Capacity(r) /\ r.rPos < Capacity(r) /\ r \in RingType
      /\ Capacity(r) = Len(r.buffer)
  BY RingFields DEF Sound
<1>2. CASE n <= Capacity(r)
  BY <1>1, <1>2 DEF Reserve
<1>3. CASE n > Capacity(r)
  <2>1. PICK sz \in Nat : sz = r.size
    BY <1>1
  <2>2. PICK s : s = Peek(r, r.size)
    OBVIOUS
  <2>3. s \in Seq(Byte) /\ Len(s) = sz
    BY <1>1, <2>1, <2>2, PeekBytes
  <2>4. sz < n /\ n - sz \in Nat /\ n > 0
    BY <1>1, <1>3, <2>1
  <2>5. PICK blank : blank = [i \in 1..(n - sz) |-> NoByte]
    OBVIOUS
  <2>6. blank \in Seq(Byte) /\ Len(blank) = n - sz
    <3>1. NoByte \in Byte
      BY DEF Byte
    <3>2. blank \in [1..(n - sz) -> Byte]
      BY <2>5, <3>1
    <3> QED BY <2>4, <3>2
  <2>7. PICK b : b = s \o blank
    OBVIOUS
  <2>8. b \in Seq(Byte) /\ Len(b) = n /\ \A i \in 1..sz : b[i] = s[i]
    <3>1. /\ b \in Seq(Byte) /\ Len(b) = Len(s) + Len(blank)
          /\ \A i \in 1..Len(s) : b[i] = s[i]
      BY <2>3, <2>6, <2>7, Concatenation
    <3> QED BY <2>3, <2>4, <2>6, <3>1
  <2>9. r2 = [buffer |-> b, rPos |-> 0, wPos |-> sz, size |-> sz]
    BY <1>1, <1>3, <2>1, <2>2, <2>5, <2>7 DEF Reserve
  <2>10. r2 \in RingType /\ r2.rPos = 0 /\ r2.size = sz /\ r2.wPos = sz /\ r2.buffer = b
    BY <2>8, <2>9 DEF RingType
  <2>11. Capacity(r2) = n
    BY <2>8, <2>10 DEF Capacity
  <2>12. sz % n = sz
    <3>1. sz < 2 * n
      BY <2>4
    <3>2. sz % n = Wrap(sz, n)
      BY <2>4, <3>1, Modulo
    <3> QED BY <2>4, <3>2 DEF Wrap
  <2>13. Sound(r2)
    <3>1. r2.wPos = (r2.rPos + r2.size) % n
      BY <2>10, <2>12
    <3> QED BY <2>4, <2>10, <2>11, <3>1 DEF Sound
  <2>14. PICK t : t = Peek(r2, r2.size)
    OBVIOUS
  <2>15. t \in Seq(Byte) /\ Len(t) = sz /\ \A i \in 1..sz : t[i] = At(r2, i)
    <3>1. r2.size \in 0..r2.size
      BY <2>10
    <3> QED BY <2>10, <2>13, <2>14, <3>1, PeekBytes
  <2>16. ASSUME NEW i \in 1..sz PROVE t[i] = s[i]
    <3>1. At(r2, i) = b[Wrap(0 + i - 1, n) + 1]
      BY <2>10, <2>11 DEF At
    <3>2. Wrap(0 + i - 1, n) + 1 = i
      BY <2>4 DEF Wrap
    <3> QED BY <2>8, <2>15, <3>1, <3>2
  <2>17. t = s
    BY <2>3, <2>15, <2>16, SameBytes
  <2> QED BY <1>1, <1>3, <2>1, <2>2, <2>10, <2>11, <2>13, <2>14, <2>17
<1> QED BY <1>1, <1>2, <1>3

-----------------------------------------------------------------------------
(* The stream of bytes, given the lengths L of the messages. *)

Bytes(L) == {b \in Messages \X Nat : b[2] \in 1..L[b[1]]}

(* Each byte is followed by the next one of its message or, if it is the   *)
(* last one, by the first byte of some message.                            *)
Follows(L, a, b) == IF a[2] < L[a[1]] THEN b = <<a[1], a[2] + 1>> ELSE b[2] = 1

Stream(L, s) ==
  /\ s \in Seq(Bytes(L))
  /\ \A i \in 1..Len(s) : i + 1 \in 1..Len(s) => Follows(L, s[i], s[i + 1])
  /\ s # <<>> => s[1][2] = 1

(* It ends with the end of a message. *)
Complete(L, s) == s # <<>> => s[Len(s)][2] = L[s[Len(s)][1]]

Whole(L, s) == Stream(L, s) /\ Complete(L, s)

LengthsType == [Messages -> Lengths]

LEMMA LengthFacts ==
  ASSUME NEW L \in LengthsType, NEW m \in Messages
  PROVE  L[m] \in Nat /\ L[m] > HeaderSize /\ L[m] > 0
<1>1. L[m] \in Lengths
  BY DEF LengthsType
<1>2. HeaderSize \in Nat /\ Lengths \subseteq Nat /\ \A n \in Lengths : n > HeaderSize
  BY SizesAssumption
<1>3. L[m] \in Nat /\ L[m] > HeaderSize
  BY <1>1, <1>2
<1> QED BY <1>2, <1>3

LEMMA BytesFacts ==
  ASSUME NEW L \in LengthsType
  PROVE  /\ Bytes(L) \subseteq Byte
         /\ \A b \in Bytes(L) : /\ b[1] \in Messages /\ b[2] \in Nat /\ b[2] >= 1 /\ b[2] <= L[b[1]]
                                /\ L[b[1]] \in Nat /\ b = <<b[1], b[2]>>
<1>1. Bytes(L) \subseteq Byte
  BY DEF Bytes, Byte
<1>2. ASSUME NEW b \in Bytes(L)
      PROVE  /\ b[1] \in Messages /\ b[2] \in Nat /\ b[2] >= 1 /\ b[2] <= L[b[1]]
             /\ L[b[1]] \in Nat /\ b = <<b[1], b[2]>>
  <2>1. b \in Messages \X Nat /\ b[2] \in 1..L[b[1]]
    BY DEF Bytes
  <2>2. b[1] \in Messages /\ b[2] \in Nat /\ b = <<b[1], b[2]>>
    BY <2>1
  <2> QED BY <2>1, <2>2, LengthFacts
<1> QED BY <1>1, <1>2

LEMMA EmptyWhole == \A L : Whole(L, <<>>)
BY DEF Whole, Stream, Complete

LEMMA StreamBytes ==
  ASSUME NEW L \in LengthsType, NEW s, Stream(L, s)
  PROVE  s \in Seq(Byte)
BY BytesFacts DEF Stream

LEMMA BlobWhole ==
  ASSUME NEW m \in Messages, length \in LengthsType
  PROVE  Whole(length, Blob(m)) /\ Blob(m) # <<>>
<1>1. PICK n \in Nat : n = length[m] /\ n > 0
  BY LengthFacts
<1>2. PICK s : s = Blob(m)
  OBVIOUS
<1>3. s = [k \in 1..n |-> <<m, k>>]
  BY <1>1, <1>2 DEF Blob
<1>4. \A k \in 1..n : <<m, k>> \in Bytes(length)
  BY <1>1 DEF Bytes
<1>5. s \in [1..n -> Bytes(length)] /\ \A k \in 1..n : s[k] = <<m, k>>
  BY <1>3, <1>4
<1>6. s \in Seq(Bytes(length)) /\ Len(s) = n /\ s # <<>>
  <2>1. s \in Seq(Bytes(length)) /\ Len(s) = n
    BY <1>5
  <2> QED BY <1>1, <2>1
<1>7. ASSUME NEW i \in 1..n, i + 1 \in 1..n PROVE Follows(length, s[i], s[i + 1])
  <2>1. s[i] = <<m, i>> /\ s[i + 1] = <<m, i + 1>> /\ i < n
    BY <1>5, <1>7
  <2> QED BY <1>1, <2>1 DEF Follows
<1>8. s[1][2] = 1 /\ s[n][2] = length[s[n][1]]
  <2>1. s[1] = <<m, 1>> /\ s[n] = <<m, n>>
    BY <1>1, <1>5
  <2> QED BY <1>1, <2>1
<1> QED BY <1>2, <1>6, <1>7, <1>8 DEF Whole, Stream, Complete

(* A stream may go on where a message ends. *)
LEMMA ConcatStream ==
  ASSUME NEW L \in LengthsType, NEW s, NEW t, Whole(L, s), Stream(L, t)
  PROVE  Stream(L, s \o t) /\ (Complete(L, t) => Complete(L, s \o t))
<1>1. PICK S : S = Bytes(L)
  OBVIOUS
<1>2. s \in Seq(S) /\ t \in Seq(S) /\ Stream(L, s) /\ Complete(L, s)
  BY <1>1 DEF Whole, Stream
<1>3. CASE s = <<>>
  <2>1. s \o t = t
    BY <1>2, <1>3
  <2> QED BY <2>1
<1>4. CASE t = <<>>
  <2>1. s \o t = s
    BY <1>2, <1>4
  <2> QED BY <1>2, <2>1
<1>5. CASE s # <<>> /\ t # <<>>
  <2>1. PICK w : w = s \o t
    OBVIOUS
  <2>2. PICK n \in Nat : n = Len(s)
    BY <1>2
  <2>3. PICK k \in Nat : k = Len(t)
    BY <1>2
  <2>4. n > 0 /\ k > 0
    BY <1>2, <1>5, <2>2, <2>3
  <2>5. /\ w \in Seq(S) /\ Len(w) = n + k
        /\ \A i \in 1..n : w[i] = s[i]
        /\ \A i \in 1..k : w[n + i] = t[i]
    BY <1>2, <2>1, <2>2, <2>3, Concatenation
  <2>6. ASSUME NEW i \in 1..(n + k), i + 1 \in 1..(n + k) PROVE Follows(L, w[i], w[i + 1])
    <3>1. CASE i < n
      <4>1. i \in 1..n /\ i + 1 \in 1..n
        BY <2>6, <3>1
      <4>2. w[i] = s[i] /\ w[i + 1] = s[i + 1]
        BY <2>5, <4>1
      <4>3. Follows(L, s[i], s[i + 1])
        BY <1>2, <2>2, <4>1 DEF Stream
      <4> QED BY <4>2, <4>3
    <3>2. CASE i = n
      <4>1. w[i] = s[n] /\ w[i + 1] = t[1]
        BY <2>4, <2>5, <3>2
      <4>2. s[n][2] = L[s[n][1]] /\ t[1][2] = 1
        BY <1>2, <1>5, <2>2 DEF Complete, Stream
      <4>3. s[n] \in Bytes(L)
        BY <1>1, <1>2, <2>2, <2>4
      <4>4. ~(s[n][2] < L[s[n][1]])
        BY <4>2, <4>3, BytesFacts
      <4> QED BY <4>1, <4>2, <4>4 DEF Follows
    <3>3. CASE i > n
      <4>1. PICK j \in 1..k : j = i - n
        BY <2>6, <3>3
      <4>2. j + 1 \in 1..k /\ i = n + j /\ i + 1 = n + (j + 1)
        BY <2>6, <4>1
      <4>3. w[i] = t[j] /\ w[i + 1] = t[j + 1]
        BY <2>5, <4>2
      <4>4. Follows(L, t[j], t[j + 1])
        BY <2>3, <4>2 DEF Stream
      <4> QED BY <4>3, <4>4
    <3> QED BY <3>1, <3>2, <3>3
  <2>7. w[1][2] = 1
    <3>1. w[1] = s[1]
      BY <2>4, <2>5
    <3> QED BY <1>2, <1>5, <3>1 DEF Stream
  <2>8. Stream(L, w)
    BY <1>1, <2>5, <2>6, <2>7 DEF Stream
  <2>9. w[n + k] = t[k]
    BY <2>4, <2>5
  <2>10. Complete(L, t) => Complete(L, w)
    BY <1>5, <2>3, <2>5, <2>9 DEF Complete
  <2> QED BY <2>1, <2>8, <2>10
<1> QED BY <1>3, <1>4, <1>5

(* Bytes may be lost at the end of a stream. *)
LEMMA PrefixStream ==
  ASSUME NEW L \in LengthsType, NEW s \in Seq(Byte), NEW t \in Seq(Byte), Stream(L, s \o t)
  PROVE  Stream(L, s)
<1>1. PICK w : w = s \o t
  OBVIOUS
<1>2. /\ Len(w) = Len(s) + Len(t) /\ Len(s) \in Nat /\ Len(t) \in Nat
      /\ \A i \in 1..Len(s) : w[i] = s[i]
  BY <1>1, Concatenation
<1>3. w \in Seq(Bytes(L))
  BY <1>1 DEF Stream
<1>4. \A i \in 1..Len(s) : i \in 1..Len(w)
  BY <1>2
<1>5. s \in Seq(Bytes(L))
  <2>1. \A i \in 1..Len(s) : s[i] \in Bytes(L)
    BY <1>2, <1>3, <1>4
  <2>2. s \in [1..Len(s) -> Bytes(L)]
    BY <2>1
  <2> QED BY <1>2, <2>2
<1>6. \A i \in 1..Len(s) : i + 1 \in 1..Len(s) => Follows(L, s[i], s[i + 1])
  BY <1>1, <1>2, <1>4 DEF Stream
<1>7. s # <<>> => s[1][2] = 1
  <2> SUFFICES ASSUME s # <<>> PROVE s[1][2] = 1
    OBVIOUS
  <2>1. 1 \in 1..Len(s) /\ 1 \in 1..Len(w)
    BY <1>2, <1>4
  <2>2. w # <<>>
    BY <1>3, <2>1
  <2> QED BY <1>1, <1>2, <2>1, <2>2 DEF Stream
<1> QED BY <1>5, <1>6, <1>7 DEF Stream

(* The first message of a stream. *)
LEMMA FirstMessage ==
  ASSUME NEW L \in LengthsType, NEW s, Stream(L, s), s # <<>>, NEW m, m = s[1][1]
  PROVE  /\ m \in Messages
         /\ \A i \in 1..L[m] : i <= Len(s) => s[i] = <<m, i>>
<1>1. s \in Seq(Bytes(L)) /\ s[1][2] = 1 /\ 1 \in 1..Len(s) /\ Len(s) \in Nat
  BY DEF Stream
<1>2. \A i \in 1..Len(s) : s[i] \in Bytes(L)
  BY <1>1
<1>3. m \in Messages /\ s[1] = <<m, 1>>
  BY <1>1, <1>2, BytesFacts
<1>4. L[m] \in Nat /\ L[m] > 0
  BY <1>3, LengthFacts
<1> DEFINE S == {n \in Nat : \A i \in 1..n : i <= Len(s) /\ i <= L[m] => s[i] = <<m, i>>}
<1>5. 0 \in S
  OBVIOUS
<1>6. ASSUME NEW n \in S PROVE n + 1 \in S
  <2>1. n \in Nat /\ \A i \in 1..n : i <= Len(s) /\ i <= L[m] => s[i] = <<m, i>>
    OBVIOUS
  <2>2. ASSUME NEW i \in 1..(n + 1), i <= Len(s), i <= L[m] PROVE s[i] = <<m, i>>
    <3>1. CASE i <= n
      BY <2>1, <2>2, <3>1
    <3>2. CASE i = 1
      BY <1>3, <3>2
    <3>3. CASE i = n + 1 /\ n > 0
      <4>1. n \in 1..n /\ n <= Len(s) /\ n < L[m] /\ n <= L[m]
        BY <1>1, <1>4, <2>1, <2>2, <3>3
      <4>2. s[n] = <<m, n>>
        BY <2>1, <4>1
      <4>3. n \in 1..Len(s) /\ n + 1 \in 1..Len(s)
        BY <1>1, <2>1, <2>2, <3>3
      <4>4. Follows(L, s[n], s[n + 1])
        BY <4>3 DEF Stream
      <4>5. s[n + 1] = <<m, n + 1>>
        BY <4>1, <4>2, <4>4 DEF Follows
      <4> QED BY <3>3, <4>5
    <3> QED BY <2>1, <3>1, <3>2, <3>3
  <2> QED BY <2>1, <2>2
<1> HIDE DEF S
<1>7. S = Nat
  <2>1. S \in SUBSET Nat
    BY DEF S
  <2> QED BY <1>5, <1>6, <2>1, SetInduction
<1>8. ASSUME NEW i \in 1..L[m], i <= Len(s) PROVE s[i] = <<m, i>>
  <2>1. i \in S /\ i \in 1..i /\ i <= L[m]
    BY <1>4, <1>7
  <2> QED BY <1>8, <2>1 DEF S
<1> QED BY <1>3, <1>8

LEMMA SuffixBytes ==
  ASSUME NEW S, NEW s \in Seq(S), NEW n \in 0..Len(s)
  PROVE  LET t == SubSeq(s, n + 1, Len(s))
         IN  /\ t \in Seq(S) /\ Len(t) = Len(s) - n
             /\ \A i \in 1..(Len(s) - n) : t[i] = s[n + i]
OBVIOUS

(* What follows the end of a message is a stream again. *)
LEMMA RestStream ==
  ASSUME NEW L \in LengthsType, NEW s, Stream(L, s), NEW n \in 1..Len(s),
         s[n][2] = L[s[n][1]]
  PROVE  /\ Stream(L, SubSeq(s, n + 1, Len(s)))
         /\ Complete(L, s) => Complete(L, SubSeq(s, n + 1, Len(s)))
<1>1. s \in Seq(Bytes(L)) /\ Len(s) \in Nat
  BY DEF Stream
<1>2. n \in Nat /\ n >= 1 /\ n <= Len(s)
  BY <1>1
<1>3. PICK t : t = SubSeq(s, n + 1, Len(s))
  OBVIOUS
<1>4. PICK k \in Nat : k = Len(s) - n
  BY <1>1, <1>2
<1>5. Len(s) = n + k
  BY <1>1, <1>2, <1>4
<1>6. t \in Seq(Bytes(L)) /\ Len(t) = k /\ \A i \in 1..k : t[i] = s[n + i]
  <2>1. PICK S : S = Bytes(L)
    OBVIOUS
  <2>2. s \in Seq(S) /\ n \in 0..Len(s)
    BY <1>1, <1>2, <2>1
  <2>3. t \in Seq(S) /\ Len(t) = k /\ \A i \in 1..k : t[i] = s[n + i]
    BY <1>3, <1>4, <2>2, SuffixBytes
  <2> QED BY <2>1, <2>3
<1>7. ASSUME NEW i \in 1..k, i + 1 \in 1..k PROVE Follows(L, t[i], t[i + 1])
  <2>1. n + i \in 1..Len(s) /\ (n + i) + 1 \in 1..Len(s) /\ n + (i + 1) = (n + i) + 1
    BY <1>2, <1>5, <1>7
  <2>2. t[i] = s[n + i] /\ t[i + 1] = s[(n + i) + 1]
    <3>1. t[i] = s[n + i]
      BY <1>6
    <3>2. t[i + 1] = s[n + (i + 1)]
      BY <1>6, <1>7
    <3> QED BY <2>1, <3>1, <3>2
  <2> QED BY <2>1, <2>2 DEF Stream
<1>8. ASSUME k > 0 PROVE t[1][2] = 1
  <2>1. n + 1 \in 1..Len(s) /\ 1 \in 1..k
    BY <1>2, <1>5, <1>8
  <2>2. Follows(L, s[n], s[n + 1])
    BY <2>1 DEF Stream
  <2>3. ~(s[n][2] < L[s[n][1]])
    <3>1. s[n] \in Bytes(L)
      BY <1>1
    <3> QED BY <3>1, BytesFacts
  <2>4. t[1] = s[n + 1]
    BY <1>6, <2>1
  <2> QED BY <2>2, <2>3, <2>4 DEF Follows
<1>9. t # <<>> => k > 0
  BY <1>6
<1>10. Stream(L, t)
  BY <1>6, <1>7, <1>8, <1>9 DEF Stream
<1>11. ASSUME Complete(L, s), k > 0 PROVE t[k][2] = L[t[k][1]]
  <2>1. k \in 1..k /\ s # <<>>
    BY <1>1, <1>2, <1>11
  <2>2. t[k] = s[Len(s)]
    BY <1>5, <1>6, <2>1
  <2> QED BY <1>11, <2>1, <2>2 DEF Complete
<1> QED BY <1>3, <1>6, <1>9, <1>10, <1>11 DEF Complete

-----------------------------------------------------------------------------
(* The inductive invariant. *)

Wholes(L) == {s \in Seq(Byte) : Whole(L, s)}

Settings ==
  /\ kind \in [Messages -> Kinds] /\ length \in LengthsType
  /\ sent \in 0..NumMessages
  /\ useAggregation \in BOOLEAN /\ timer \in BOOLEAN /\ timerStarted \in BOOLEAN
  /\ shuttingDown \in BOOLEAN /\ sending \in BOOLEAN /\ dispatching \in BOOLEAN

(* What the sender holds are whole messages, except for the rest of the    *)
(* buffer it is writing.                                                   *)
Outgoing(L, ag, q, so, cu, idle) ==
  /\ ag \in Wholes(L) /\ q \in Seq(Wholes(L))
  /\ so \in Seq(Byte) /\ cu \in Seq(Byte)
  /\ idle => cu = <<>>

(* What is in the ring buffer, in the socket and in the buffer that is     *)
(* being written is one stream of messages, unbroken by partial writes,    *)
(* partial reads, wrap-around and growth.                                  *)
Straight(L, r, so, cu, down) ==
  /\ Stream(L, (Peek(r, r.size) \o so) \o cu)
  /\ ~down => Complete(L, (Peek(r, r.size) \o so) \o cu)

(* The message size that was read is that of the message at the read       *)
(* position, and whenever the receiver waits there is room.                *)
Incoming(L, r, ms, waits) ==
  /\ Sound(r) /\ Capacity(r) >= HeaderSize
  /\ ms \in Nat
  /\ ms # 0 => r.size >= HeaderSize /\ ms = L[Peek(r, r.size)[1][1]]
  /\ waits => Free(r) > 0

Delivered == delivered \in Seq(Seq(Byte)) /\ DeliveredWhole

Inv ==
  /\ Settings /\ Delivered
  /\ Outgoing(length, aggregated, queue, socket, current, ~sending \/ shuttingDown)
  /\ Straight(length, ring, socket, current, shuttingDown)
  /\ Incoming(length, ring, msgSize, ~dispatching)

LEMMA InvImplies == Inv => TypeOK /\ RingIsSound /\ DeliveredWhole
<1> SUFFICES ASSUME Inv PROVE TypeOK /\ RingIsSound /\ DeliveredWhole
  OBVIOUS
<1>1. Sound(ring) /\ msgSize \in Nat /\ (~dispatching => Free(ring) > 0)
  BY DEF Inv, Incoming
<1>2. queue \in Seq(Seq(Byte))
  <2>1. Wholes(length) \subseteq Seq(Byte) /\ queue \in Seq(Wholes(length))
    BY DEF Wholes, Inv, Outgoing
  <2> QED BY <2>1
<1>3. TypeOK
  <2>1. aggregated \in Seq(Byte) /\ current \in Seq(Byte) /\ socket \in Seq(Byte)
    BY DEF Inv, Outgoing, Wholes
  <2>2. ring \in RingType
    BY <1>1 DEF Sound
  <2>3. Settings /\ delivered \in Seq(Seq(Byte))
    BY DEF Inv, Delivered
  <2> QED BY <1>1, <1>2, <2>1, <2>2, <2>3 DEF TypeOK, Settings, LengthsType, RingType
<1>4. RingIsSound
  <2>1. FreeMemoryOne(ring) + FreeMemoryTwo(ring) = Free(ring)
    BY <1>1, FreeMemory
  <2> QED BY <1>1, <2>1 DEF RingIsSound, Sound
<1> QED BY <1>3, <1>4 DEF Inv, Delivered

LEMMA InitInv == Init => Inv
<1> SUFFICES ASSUME Init PROVE Inv
  OBVIOUS
<1>1. Settings
  <2>1. sent \in 0..NumMessages
    BY SizesAssumption DEF Init
  <2>2. length \in LengthsType
    BY DEF Init, LengthsType
  <2> QED BY <2>1, <2>2 DEF Init, Settings
<1>2. Delivered
  BY DEF Init, Delivered, DeliveredWhole
<1>3. <<>> \in Wholes(length)
  BY EmptyWhole DEF Wholes
<1>4. Outgoing(length, aggregated, queue, socket, current, ~sending \/ shuttingDown)
  BY <1>3 DEF Outgoing, Init
<1>5. PICK c \in Nat : c = InitialCapacity /\ c >= HeaderSize /\ c > 0 /\ HeaderSize \in Nat
  BY SizesAssumption
<1>6. PICK b : b = [i \in 1..c |-> NoByte]
  OBVIOUS
<1>7. b \in Seq(Byte) /\ Len(b) = c
  <2>1. b \in [1..c -> Byte]
    BY <1>6 DEF Byte
  <2> QED BY <2>1
<1>8. ring = [buffer |-> b, rPos |-> 0, wPos |-> 0, size |-> 0]
  BY <1>5, <1>6 DEF Init
<1>9. ring \in RingType /\ ring.rPos = 0 /\ ring.wPos = 0 /\ ring.size = 0 /\ Capacity(ring) = c
  BY <1>7, <1>8 DEF RingType, Capacity
<1>10. Sound(ring)
  <2>1. 0 % c = 0
    BY <1>5
  <2>2. ring.wPos = (ring.rPos + ring.size) % c
    BY <1>9, <2>1
  <2> QED BY <1>5, <1>9, <2>2 DEF Sound
<1>11. Incoming(length, ring, msgSize, ~dispatching)
  <2>1. msgSize = 0 /\ Free(ring) > 0
    BY <1>5, <1>9 DEF Init, Free
  <2> QED BY <1>5, <1>9, <1>10, <2>1 DEF Incoming
<1>12. Straight(length, ring, socket, current, shuttingDown)
  <2>1. PICK s : s = Peek(ring, ring.size)
    OBVIOUS
  <2>2. s \in Seq(Byte) /\ Len(s) = 0
    BY <1>9, <1>10, <2>1, PeekBytes
  <2>3. (s \o socket) \o current = <<>>
    BY <2>2 DEF Init
  <2> QED BY <2>1, <2>3, EmptyWhole DEF Straight, Whole
<1> QED BY <1>1, <1>2, <1>4, <1>11, <1>12 DEF Inv

LEMMA Parts ==
  ASSUME Inv
  PROVE  /\ Settings /\ Delivered /\ length \in LengthsType
         /\ Outgoing(length, aggregated, queue, socket, current, ~sending \/ shuttingDown)
         /\ Straight(length, ring, socket, current, shuttingDown)
         /\ Incoming(length, ring, msgSize, ~dispatching)
         /\ aggregated \in Wholes(length) /\ queue \in Seq(Wholes(length))
         /\ socket \in Seq(Byte) /\ current \in Seq(Byte)
         /\ ~sending \/ shuttingDown => current = <<>>
         /\ Sound(ring) /\ ring.size \in Nat
         /\ Peek(ring, ring.size) \in Seq(Byte) /\ Len(Peek(ring, ring.size)) = ring.size
<1>1. /\ Settings /\ Delivered /\ length \in LengthsType
      /\ Outgoing(length, aggregated, queue, socket, current, ~sending \/ shuttingDown)
      /\ Straight(length, ring, socket, current, shuttingDown)
      /\ Incoming(length, ring, msgSize, ~dispatching)
  BY DEF Inv, Settings
<1>2. Sound(ring)
  BY <1>1 DEF Incoming
<1>3. ring.size \in Nat
  BY <1>2, RingFields DEF Sound
<1>4. Peek(ring, ring.size) \in Seq(Byte) /\ Len(Peek(ring, ring.size)) = ring.size
  BY <1>2, <1>3, PeekBytes
<1> QED BY <1>1, <1>2, <1>3, <1>4 DEF Outgoing

-----------------------------------------------------------------------------
(* The sender. *)

(* The next write starts behind what was written whole. *)
LEMMA StartWrite ==
  ASSUME NEW L \in LengthsType, NEW q \in Seq(Wholes(L)), NEW a, Whole(L, a),
         StartAsyncWrite(q, FALSE)
  PROVE  /\ queue' \in Seq(Wholes(L)) /\ current' \in Seq(Byte) /\ sending' \in BOOLEAN
         /\ ~sending' => current' = <<>>
         /\ Whole(L, a \o current')
<1>1. CASE q = <<>>
  <2>1. queue' = q /\ sending' = FALSE /\ current' = <<>>
    BY <1>1 DEF StartAsyncWrite
  <2>2. Whole(L, <<>>)
    BY EmptyWhole
  <2>3. Whole(L, a \o <<>>)
    BY <2>2, ConcatStream DEF Whole
  <2>4. current' \in Seq(Byte) /\ sending' \in BOOLEAN
    <3>1. <<>> \in Seq(Byte)
      OBVIOUS
    <3> QED BY <2>1, <3>1
  <2>5. queue' \in Seq(Wholes(L))
    BY <2>1
  <2>6. Whole(L, a \o current')
    BY <2>1, <2>3
  <2> QED BY <2>1, <2>4, <2>5, <2>6
<1>2. CASE q # <<>>
  <2>1. queue' = Tail(q) /\ sending' = TRUE /\ current' = Head(q)
    BY <1>2 DEF StartAsyncWrite
  <2>2. PICK S : S = Wholes(L)
    OBVIOUS
  <2>3. Tail(q) \in Seq(S) /\ Head(q) \in S
    BY <1>2, <2>2
  <2>4. PICK h : h = Head(q)
    OBVIOUS
  <2>5. h \in Seq(Byte) /\ Whole(L, h)
    BY <2>2, <2>3, <2>4 DEF Wholes
  <2>6. Whole(L, a \o h)
    BY <2>5, ConcatStream DEF Whole
  <2> QED BY <2>1, <2>2, <2>3, <2>4, <2>5, <2>6
<1> QED BY <1>1, <1>2

LEMMA SendBlobs ==
  ASSUME Inv, NEW blobs \in Seq(Wholes(length)), SendSilKitMsgInternal(blobs),
         NEW ag \in Wholes(length)
  PROVE  /\ sending' \in BOOLEAN
         /\ Outgoing(length, ag, queue', socket, current', ~sending' \/ shuttingDown)
         /\ Straight(length, ring, socket, current', shuttingDown)
<1>1. /\ length \in LengthsType /\ sending \in BOOLEAN /\ shuttingDown \in BOOLEAN
      /\ Straight(length, ring, socket, current, shuttingDown)
      /\ queue \in Seq(Wholes(length)) /\ socket \in Seq(Byte) /\ current \in Seq(Byte)
      /\ ~sending \/ shuttingDown => current = <<>>
      /\ Peek(ring, ring.size) \in Seq(Byte)
  BY Parts DEF Settings
<1>2. CASE shuttingDown
  <2>1. queue' = queue /\ sending' = sending /\ current' = current
    BY <1>2 DEF SendSilKitMsgInternal
  <2> QED BY <1>1, <1>2, <2>1 DEF Outgoing
<1>3. CASE ~shuttingDown
  <2>1. PICK q : q = queue \o blobs
    OBVIOUS
  <2>2. q \in Seq(Wholes(length))
    <3>1. PICK S : S = Wholes(length)
      OBVIOUS
    <3> QED BY <1>1, <2>1, <3>1
  <2>3. StartAsyncWrite(q, sending)
    BY <1>3, <2>1 DEF SendSilKitMsgInternal
  <2>4. CASE sending
    <3>1. queue' = q /\ sending' = sending /\ current' = current
      BY <2>3, <2>4 DEF StartAsyncWrite
    <3> QED BY <1>1, <1>3, <2>2, <2>4, <3>1 DEF Outgoing
  <2>5. CASE ~sending
    <3>1. PICK a : a = Peek(ring, ring.size) \o socket
      OBVIOUS
    <3>2. a \in Seq(Byte) /\ a \o current = a
      BY <1>1, <2>5, <3>1
    <3>3. Whole(length, a)
      BY <1>1, <1>3, <3>1, <3>2 DEF Straight, Whole
    <3>4. StartAsyncWrite(q, FALSE)
      BY <1>1, <2>3, <2>5
    <3>5. PICK L \in LengthsType : L = length
      BY <1>1
    <3>6. q \in Seq(Wholes(L)) /\ Whole(L, a)
      BY <2>2, <3>3, <3>5
    <3>7. /\ queue' \in Seq(Wholes(L)) /\ current' \in Seq(Byte) /\ sending' \in BOOLEAN
          /\ ~sending' => current' = <<>>
          /\ Whole(L, a \o current')
      BY <3>4, <3>6, StartWrite
    <3>8. Straight(length, ring, socket, current', shuttingDown)
      BY <3>1, <3>5, <3>7 DEF Straight, Whole
    <3> QED BY <1>1, <1>3, <3>5, <3>7, <3>8 DEF Outgoing
  <2> QED BY <1>1, <2>4, <2>5
<1> QED BY <1>1, <1>2, <1>3

(* The sender leaves the receiver alone. *)
LEMMA ReceiverWaits ==
  ASSUME Inv, UNCHANGED <<length, receiverVars>>
  PROVE  /\ Delivered' /\ Incoming(length', ring', msgSize', ~dispatching')
         /\ length' = length /\ ring' = ring /\ dispatching' = dispatching
<1>1. /\ length' = length /\ ring' = ring /\ dispatching' = dispatching /\ msgSize' = msgSize
      /\ delivered' = delivered
  BY DEF receiverVars
<1>2. Delivered'
  BY <1>1, Parts DEF Delivered, DeliveredWhole, Blob
<1>3. Incoming(length', ring', msgSize', ~dispatching')
  BY <1>1, Parts DEF Incoming
<1> QED BY <1>1, <1>2, <1>3

LEMMA SendSilKitMsgInv ==
  ASSUME Inv, NEW m \in Messages, SendSilKitMsg(m)
  PROVE  Inv'
<1>1. /\ Delivered' /\ Incoming(length', ring', msgSize', ~dispatching')
      /\ length' = length /\ ring' = ring /\ dispatching' = dispatching
  BY ReceiverWaits DEF SendSilKitMsg
<1>2. /\ sent' = m /\ kind' = kind /\ useAggregation' = useAggregation
      /\ shuttingDown' = shuttingDown /\ socket' = socket
  BY DEF SendSilKitMsg
<1>3. length \in LengthsType /\ aggregated \in Wholes(length) /\ Settings
  BY Parts
<1>4. PICK W : W = Wholes(length)
  OBVIOUS
<1>5. Blob(m) \in W
  BY <1>3, <1>4, BlobWhole, StreamBytes DEF Wholes, Whole
<1>6. <<>> \in W
  BY <1>4, EmptyWhole DEF Wholes
<1>7. PICK bytes : bytes = aggregated \o Blob(m)
  OBVIOUS
<1>8. bytes \in W
  <2>1. Whole(length, aggregated) /\ Whole(length, Blob(m))
    BY <1>3, <1>4, <1>5 DEF Wholes
  <2>2. Whole(length, bytes)
    BY <1>3, <1>7, <2>1, ConcatStream DEF Whole
  <2> QED BY <1>3, <1>4, <2>2, StreamBytes DEF Wholes, Whole
<1>9. PICK ag \in W : \E blobs \in Seq(W) :
        /\ aggregated' = ag /\ SendSilKitMsgInternal(blobs)
        /\ timer' \in BOOLEAN /\ timerStarted' \in BOOLEAN
  <2>1. CASE useAggregation /\ kind[m] # "Other"
    <3>1. Aggregate(m)
      BY <2>1 DEF SendSilKitMsg
    <3>2. PICK one : one = IF Len(bytes) > Threshold THEN <<bytes>> ELSE <<>>
      OBVIOUS
    <3>3. PICK two : two = IF kind[m] = "Flush" THEN <<IF Len(bytes) > Threshold THEN <<>> ELSE bytes>> ELSE <<>>
      OBVIOUS
    <3>4. one \in Seq(W)
      BY <1>8, <3>2
    <3>5. two \in Seq(W)
      BY <1>6, <1>8, <3>3
    <3>6. PICK blobs : blobs = one \o two
      OBVIOUS
    <3>7. blobs \in Seq(W)
      BY <3>4, <3>5, <3>6
    <3>8. /\ aggregated' = (IF blobs = <<>> THEN bytes ELSE <<>>)
          /\ timer' \in BOOLEAN /\ timerStarted' \in BOOLEAN
          /\ SendSilKitMsgInternal(blobs)
      BY <1>7, <3>1, <3>2, <3>3, <3>6 DEF Aggregate
    <3>9. aggregated' \in W
      BY <1>6, <1>8, <3>8
    <3> QED BY <3>7, <3>8, <3>9
  <2>2. CASE ~(useAggregation /\ kind[m] # "Other")
    <3>1. SendSilKitMsgInternal(<<Blob(m)>>) /\ UNCHANGED <<aggregated, timer, timerStarted>>
      BY <2>2 DEF SendSilKitMsg
    <3>2. <<Blob(m)>> \in Seq(W)
      BY <1>5
    <3> QED BY <1>3, <1>4, <3>1, <3>2 DEF Settings
  <2> QED BY <2>1, <2>2
<1>10. PICK blobs \in Seq(Wholes(length)) : SendSilKitMsgInternal(blobs)
  BY <1>4, <1>9
<1>11. /\ sending' \in BOOLEAN
       /\ Outgoing(length, ag, queue', socket, current', ~sending' \/ shuttingDown)
       /\ Straight(length, ring, socket, current', shuttingDown)
  BY <1>4, <1>10, SendBlobs
<1>12. aggregated' = ag /\ timer' \in BOOLEAN /\ timerStarted' \in BOOLEAN
  BY <1>9
<1>13. Settings'
  <2>1. sent' \in 0..NumMessages
    BY <1>2, SizesAssumption DEF Messages
  <2> QED BY <1>1, <1>2, <1>3, <1>11, <1>12, <2>1 DEF Settings
<1>14. Outgoing(length', aggregated', queue', socket', current', ~sending' \/ shuttingDown')
  BY <1>1, <1>2, <1>11, <1>12 DEF Outgoing
<1>15. Straight(length', ring', socket', current', shuttingDown')
  BY <1>1, <1>2, <1>11 DEF Straight
<1> QED BY <1>1, <1>13, <1>14, <1>15 DEF Inv

LEMMA EnableAggregationInv ==
  ASSUME Inv, EnableAggregation
  PROVE  Inv'
<1>1. /\ Delivered' /\ Incoming(length', ring', msgSize', ~dispatching')
      /\ length' = length /\ ring' = ring /\ dispatching' = dispatching
  BY ReceiverWaits DEF EnableAggregation
<1>2. /\ useAggregation' = TRUE
      /\ UNCHANGED <<kind, length, aggregated, timer, timerStarted, shuttingDown, queue, sending,
                     current, sent, socket>>
  BY DEF EnableAggregation
<1>3. Settings'
  BY <1>1, <1>2, Parts DEF Settings
<1>4. Outgoing(length', aggregated', queue', socket', current', ~sending' \/ shuttingDown')
  BY <1>1, <1>2, Parts DEF Outgoing
<1>5. Straight(length', ring', socket', current', shuttingDown')
  BY <1>1, <1>2, Parts DEF Straight
<1> QED BY <1>1, <1>3, <1>4, <1>5 DEF Inv

LEMMA OnTimerExpiredInv ==
  ASSUME Inv, OnTimerExpired
  PROVE  Inv'
<1>1. /\ Delivered' /\ Incoming(length', ring', msgSize', ~dispatching')
      /\ length' = length /\ ring' = ring /\ dispatching' = dispatching
  BY ReceiverWaits DEF OnTimerExpired
<1>2. UNCHANGED <<kind, length, useAggregation, timerStarted, shuttingDown, sent, socket>>
  BY DEF OnTimerExpired
<1>3. length \in LengthsType /\ aggregated \in Wholes(length) /\ Settings
  BY Parts
<1>4. CASE aggregated = <<>>
  <2>1. timer' = FALSE /\ UNCHANGED <<aggregated, queue, sending, current>>
    BY <1>4 DEF OnTimerExpired
  <2>2. Settings'
    BY <1>1, <1>2, <1>3, <2>1 DEF Settings
  <2>3. Outgoing(length', aggregated', queue', socket', current', ~sending' \/ shuttingDown')
    BY <1>1, <1>2, <2>1, Parts DEF Outgoing
  <2>4. Straight(length', ring', socket', current', shuttingDown')
    BY <1>1, <1>2, <2>1, Parts DEF Straight
  <2> QED BY <1>1, <2>2, <2>3, <2>4 DEF Inv
<1>5. CASE aggregated # <<>>
  <2>1. timer' = TRUE /\ aggregated' = <<>> /\ SendSilKitMsgInternal(<<aggregated>>)
    BY <1>5 DEF OnTimerExpired
  <2>2. <<aggregated>> \in Seq(Wholes(length))
    BY <1>3
  <2>3. PICK ag \in Wholes(length) : ag = <<>>
    <3>1. <<>> \in Wholes(length)
      BY EmptyWhole DEF Wholes
    <3> QED BY <3>1
  <2>4. /\ sending' \in BOOLEAN
        /\ Outgoing(length, ag, queue', socket, current', ~sending' \/ shuttingDown)
        /\ Straight(length, ring, socket, current', shuttingDown)
    BY <2>1, <2>2, SendBlobs
  <2>5. Settings'
    BY <1>1, <1>2, <1>3, <2>1, <2>4 DEF Settings
  <2>6. aggregated' = ag
    BY <2>1, <2>3
  <2>7. Outgoing(length', aggregated', queue', socket', current', ~sending' \/ shuttingDown')
    BY <1>1, <1>2, <2>4, <2>6 DEF Outgoing
  <2>8. Straight(length', ring', socket', current', shuttingDown')
    BY <1>1, <1>2, <2>4 DEF Straight
  <2> QED BY <1>1, <2>5, <2>7, <2>8 DEF Inv
<1> QED BY <1>4, <1>5

LEMMA ShutdownInv ==
  ASSUME Inv, Shutdown
  PROVE  Inv'
<1>1. /\ Delivered' /\ Incoming(length', ring', msgSize', ~dispatching')
      /\ length' = length /\ ring' = ring /\ dispatching' = dispatching
  BY ReceiverWaits DEF Shutdown
<1>2. /\ shuttingDown' = TRUE /\ queue' = <<>> /\ current' = <<>> /\ timer' = FALSE
      /\ UNCHANGED <<kind, length, useAggregation, aggregated, timerStarted, sending, sent, socket>>
  BY DEF Shutdown
<1>3. Settings'
  BY <1>1, <1>2, Parts DEF Settings
<1>4. Outgoing(length', aggregated', queue', socket', current', ~sending' \/ shuttingDown')
  <2>1. <<>> \in Seq(Wholes(length)) /\ <<>> \in Seq(Byte)
    OBVIOUS
  <2> QED BY <1>1, <1>2, <2>1, Parts DEF Outgoing
<1>5. Straight(length', ring', socket', current', shuttingDown')
  <2>1. PICK p : p = Peek(ring, ring.size)
    OBVIOUS
  <2>2. p \in Seq(Byte) /\ socket \in Seq(Byte) /\ current \in Seq(Byte) /\ length \in LengthsType
    BY <2>1, Parts
  <2>3. PICK s \in Seq(Byte) : s = p \o socket
    <3>1. p \o socket \in Seq(Byte)
      BY <2>2, Concatenation
    <3> QED BY <3>1
  <2>4. Stream(length, s \o current)
    BY <2>1, <2>3, Parts DEF Straight
  <2>5. Stream(length, s)
    BY <2>2, <2>4, PrefixStream
  <2>6. s \o <<>> = s
    OBVIOUS
  <2>7. Stream(length, (p \o socket) \o <<>>)
    BY <2>3, <2>5, <2>6
  <2>8. (Peek(ring', ring'.size) \o socket') \o current' = (p \o socket) \o <<>>
    BY <1>1, <1>2, <2>1
  <2> QED BY <1>1, <1>2, <2>7, <2>8 DEF Straight
<1> QED BY <1>1, <1>3, <1>4, <1>5 DEF Inv

(* Where bytes are cut off, nothing is lost. *)
LEMMA Cut ==
  ASSUME NEW s \in Seq(Byte), NEW n \in 0..Len(s)
  PROVE  LET t == SubSeq(s, 1, n)
             u == SubSeq(s, n + 1, Len(s))
         IN  /\ t \in Seq(Byte) /\ Len(t) = n
             /\ u \in Seq(Byte) /\ Len(u) = Len(s) - n
             /\ t \o u = s
<1>1. PICK t : t = SubSeq(s, 1, n)
  OBVIOUS
<1>2. PICK u : u = SubSeq(s, n + 1, Len(s))
  OBVIOUS
<1>3. n \in Nat /\ Len(s) \in Nat /\ n <= Len(s)
  OBVIOUS
<1>4. t \in Seq(Byte) /\ Len(t) = n /\ \A i \in 1..n : t[i] = s[i]
  BY <1>1, <1>3
<1>5. u \in Seq(Byte) /\ Len(u) = Len(s) - n /\ \A i \in 1..(Len(s) - n) : u[i] = s[n + i]
  BY <1>2, <1>3
<1>6. PICK w : w = t \o u
  OBVIOUS
<1>7. /\ w \in Seq(Byte) /\ Len(w) = Len(s)
      /\ \A i \in 1..Len(s) : w[i] = IF i <= n THEN t[i] ELSE u[i - n]
  BY <1>3, <1>4, <1>5, <1>6
<1>8. ASSUME NEW i \in 1..Len(s) PROVE w[i] = s[i]
  <2>1. CASE i <= n
    BY <1>3, <1>4, <1>7, <2>1
  <2>2. CASE i > n
    <3>1. i - n \in 1..(Len(s) - n) /\ n + (i - n) = i
      BY <1>3, <2>2
    <3> QED BY <1>3, <1>5, <1>7, <2>2, <3>1
  <2> QED BY <1>3, <2>1, <2>2
<1>9. w = s
  BY <1>7, <1>8, SameBytes
<1> QED BY <1>1, <1>2, <1>4, <1>5, <1>6, <1>9

Regrouped(a, b, c, d) == ((a \o b) \o c) \o d = a \o ((b \o c) \o d)

LEMMA RegroupTwice ==
  ASSUME NEW a \in Seq(Byte), NEW b \in Seq(Byte), NEW c \in Seq(Byte), NEW d \in Seq(Byte)
  PROVE  Regrouped(a, b, c, d)
<1>1. PICK bc \in Seq(Byte) : bc = b \o c
  <2>1. b \o c \in Seq(Byte)
    BY Concatenation
  <2> QED BY <2>1
<1>2. Associates(a, b, c)
  BY Regroup
<1>3. Associates(a, bc, d)
  BY Regroup
<1> QED BY <1>1, <1>2, <1>3 DEF Regrouped, Associates

(* A partial write moves bytes from the buffer to the socket. *)
Moved(p, so, cu, n) ==
  /\ so \o SubSeq(cu, 1, n) \in Seq(Byte)
  /\ SubSeq(cu, n + 1, Len(cu)) \in Seq(Byte)
  /\ (p \o (so \o SubSeq(cu, 1, n))) \o SubSeq(cu, n + 1, Len(cu)) = (p \o so) \o cu

LEMMA PartialWrite ==
  ASSUME NEW p \in Seq(Byte), NEW so \in Seq(Byte), NEW cu \in Seq(Byte), NEW n \in 0..Len(cu)
  PROVE  Moved(p, so, cu, n)
<1>1. PICK t \in Seq(Byte) : t = SubSeq(cu, 1, n)
  BY Cut
<1>2. PICK u \in Seq(Byte) : u = SubSeq(cu, n + 1, Len(cu))
  BY Cut
<1>3. t \o u = cu
  BY <1>1, <1>2, Cut
<1>4. PICK ps \in Seq(Byte) : ps = p \o so
  <2>1. p \o so \in Seq(Byte)
    BY Concatenation
  <2> QED BY <2>1
<1>5. Associates(p, so, t) /\ Associates(ps, t, u)
  BY Regroup
<1>6. (p \o (so \o t)) \o u = (p \o so) \o cu
  BY <1>3, <1>4, <1>5 DEF Associates
<1>7. so \o t \in Seq(Byte)
  BY Concatenation
<1> QED BY <1>1, <1>2, <1>6, <1>7 DEF Moved

LEMMA OnAsyncWriteSomeDoneInv ==
  ASSUME Inv, OnAsyncWriteSomeDone
  PROVE  Inv'
<1>1. /\ Delivered' /\ Incoming(length', ring', msgSize', ~dispatching')
      /\ length' = length /\ ring' = ring /\ dispatching' = dispatching
  BY ReceiverWaits DEF OnAsyncWriteSomeDone
<1>2. /\ UNCHANGED <<kind, length, useAggregation, aggregated, timer, timerStarted, shuttingDown, sent>>
      /\ sending /\ ~shuttingDown
  BY DEF OnAsyncWriteSomeDone
<1>3. PICK n \in 0..MaxIO :
        /\ n <= Len(current)
        /\ socket' = socket \o SubSeq(current, 1, n)
        /\ IF n < Len(current)
             THEN current' = SubSeq(current, n + 1, Len(current)) /\ UNCHANGED <<queue, sending>>
             ELSE StartAsyncWrite(queue, FALSE)
  BY DEF OnAsyncWriteSomeDone
<1>4. PICK L \in LengthsType : L = length
  BY Parts
<1>5. PICK p \in Seq(Byte) : p = Peek(ring, ring.size)
  BY Parts
<1>6. /\ Settings /\ aggregated \in Wholes(L) /\ queue \in Seq(Wholes(L))
      /\ socket \in Seq(Byte) /\ current \in Seq(Byte)
      /\ Stream(L, (p \o socket) \o current) /\ Complete(L, (p \o socket) \o current)
  BY <1>2, <1>4, <1>5, Parts DEF Straight
<1>7. n \in 0..Len(current)
  BY <1>3, <1>6, SizesAssumption
<1>8. Moved(p, socket, current, n)
  BY <1>6, <1>7, PartialWrite
<1>9. PICK rest \in Seq(Byte) :
        /\ rest = SubSeq(current, n + 1, Len(current))
        /\ socket' \in Seq(Byte) /\ (p \o socket') \o rest = (p \o socket) \o current
  BY <1>3, <1>8 DEF Moved
<1>10. /\ queue' \in Seq(Wholes(L)) /\ current' \in Seq(Byte) /\ sending' \in BOOLEAN
       /\ ~sending' => current' = <<>>
       /\ Whole(L, (p \o socket') \o current')
  <2>1. CASE n < Len(current)
    <3>1. current' = rest /\ queue' = queue /\ sending' = sending
      BY <1>3, <1>9, <2>1
    <3>2. Whole(L, (p \o socket') \o current')
      BY <1>6, <1>9, <3>1 DEF Whole
    <3> QED BY <1>2, <1>6, <3>1, <3>2 DEF Settings
  <2>2. CASE ~(n < Len(current))
    <3>1. Len(rest) = 0
      <4>1. n = Len(current) /\ Len(current) \in Nat
        BY <1>6, <1>7, <2>2
      <4> QED BY <1>6, <1>9, <4>1
    <3>2. PICK a \in Seq(Byte) : a = p \o socket'
      <4>1. p \o socket' \in Seq(Byte)
        BY <1>9, Concatenation
      <4> QED BY <4>1
    <3>3. a \o rest = a
      BY <3>1
    <3>4. Whole(L, a)
      BY <1>6, <1>9, <3>2, <3>3 DEF Whole
    <3>5. StartAsyncWrite(queue, FALSE)
      BY <1>3, <2>2
    <3>6. /\ queue' \in Seq(Wholes(L)) /\ current' \in Seq(Byte) /\ sending' \in BOOLEAN
          /\ ~sending' => current' = <<>>
          /\ Whole(L, a \o current')
      BY <1>6, <3>4, <3>5, StartWrite
    <3> QED BY <3>2, <3>6
  <2> QED BY <2>1, <2>2
<1>11. Settings'
  BY <1>1, <1>2, <1>6, <1>10 DEF Settings
<1>12. Outgoing(length', aggregated', queue', socket', current', ~sending' \/ shuttingDown')
  BY <1>1, <1>2, <1>4, <1>6, <1>9, <1>10 DEF Outgoing
<1>13. Straight(length', ring', socket', current', shuttingDown')
  <2>1. Whole(length', (Peek(ring', ring'.size) \o socket') \o current')
    BY <1>1, <1>4, <1>5, <1>10
  <2> QED BY <2>1 DEF Straight, Whole
<1> QED BY <1>1, <1>11, <1>12, <1>13 DEF Inv

-----------------------------------------------------------------------------
(* The receiver. *)

(* The receiver leaves the sender alone. *)
LEMMA SenderWaits ==
  ASSUME Inv, UNCHANGED <<kind, length, senderVars>>, dispatching' \in BOOLEAN, socket' \in Seq(Byte)
  PROVE  /\ Settings'
         /\ Outgoing(length', aggregated', queue', socket', current', ~sending' \/ shuttingDown')
         /\ length' = length /\ current' = current /\ shuttingDown' = shuttingDown
<1>1. UNCHANGED <<kind, length, useAggregation, aggregated, timer, timerStarted, shuttingDown, queue,
                  sending, current, sent>>
  BY DEF senderVars
<1>2. Settings'
  BY <1>1, Parts DEF Settings
<1>3. Outgoing(length', aggregated', queue', socket', current', ~sending' \/ shuttingDown')
  BY <1>1, Parts DEF Outgoing
<1> QED BY <1>1, <1>2, <1>3

(* A partial read moves bytes from the socket to the ring buffer. *)
LEMMA PartialRead ==
  ASSUME NEW p \in Seq(Byte), NEW so \in Seq(Byte), NEW cu \in Seq(Byte), NEW n \in 0..Len(so)
  PROVE  /\ SubSeq(so, 1, n) \in Seq(Byte) /\ Len(SubSeq(so, 1, n)) = n
         /\ SubSeq(so, n + 1, Len(so)) \in Seq(Byte)
         /\ ((p \o SubSeq(so, 1, n)) \o SubSeq(so, n + 1, Len(so))) \o cu = (p \o so) \o cu
<1>1. PICK t : t = SubSeq(so, 1, n)
  OBVIOUS
<1>2. t \in Seq(Byte) /\ Len(t) = n
  BY <1>1, Cut
<1>3. PICK u \in Seq(Byte) : u = SubSeq(so, n + 1, Len(so))
  BY Cut
<1>4. t \o u = so
  BY <1>1, <1>3, Cut
<1>5. Associates(p, t, u)
  BY <1>2, Regroup
<1> QED BY <1>1, <1>2, <1>3, <1>4, <1>5 DEF Associates

LEMMA OnAsyncReadSomeDoneInv ==
  ASSUME Inv, OnAsyncReadSomeDone
  PROVE  Inv'
<1>1. /\ dispatching' = TRUE /\ msgSize' = msgSize /\ delivered' = delivered
      /\ UNCHANGED <<kind, length, senderVars>>
  BY DEF OnAsyncReadSomeDone
<1>2. PICK n \in 1..MaxIO :
        /\ n <= Len(socket) /\ n <= FreeMemoryOne(ring) + FreeMemoryTwo(ring)
        /\ ring' = AdvanceWPos(Fill(ring, SubSeq(socket, 1, n)), n)
        /\ socket' = SubSeq(socket, n + 1, Len(socket))
  BY DEF OnAsyncReadSomeDone
<1>3. PICK L \in LengthsType : L = length
  BY Parts
<1>4. PICK p \in Seq(Byte) : p = Peek(ring, ring.size)
  BY Parts
<1>5. /\ Sound(ring) /\ ring.size \in Nat /\ Len(p) = ring.size
      /\ socket \in Seq(Byte) /\ current \in Seq(Byte)
      /\ Stream(L, (p \o socket) \o current)
      /\ ~shuttingDown => Complete(L, (p \o socket) \o current)
  BY <1>3, <1>4, Parts DEF Straight
<1>6. n \in 0..Len(socket) /\ n \in Nat /\ n <= Free(ring)
  BY <1>2, <1>5, SizesAssumption, FreeMemory
<1>7. PICK t : t = SubSeq(socket, 1, n)
  OBVIOUS
<1>8. PICK u : u = SubSeq(socket, n + 1, Len(socket))
  OBVIOUS
<1>9. /\ t \in Seq(Byte) /\ Len(t) = n /\ u \in Seq(Byte)
      /\ ((p \o t) \o u) \o current = (p \o socket) \o current
  BY <1>5, <1>6, <1>7, <1>8, PartialRead
<1>10. socket' = u
  BY <1>2, <1>8
<1>11. PICK r : r = AdvanceWPos(Fill(ring, t), Len(t))
  OBVIOUS
<1>12. ring' = r
  BY <1>2, <1>7, <1>9, <1>11
<1>13. /\ Sound(r) /\ Capacity(r) = Capacity(ring) /\ r.size = ring.size + n
       /\ Peek(r, r.size) = p \o t
  <2>1. Len(t) <= Free(ring)
    BY <1>6, <1>9
  <2> QED BY <1>4, <1>5, <1>9, <1>11, <2>1, AdvanceWrite
<1>14. /\ Settings'
       /\ Outgoing(length', aggregated', queue', socket', current', ~sending' \/ shuttingDown')
       /\ length' = length /\ current' = current /\ shuttingDown' = shuttingDown
  <2>1. dispatching' \in BOOLEAN /\ socket' \in Seq(Byte)
    BY <1>1, <1>9, <1>10
  <2> QED BY <1>1, <2>1, SenderWaits
<1>15. Delivered'
  BY <1>1, <1>14, Parts DEF Delivered, DeliveredWhole, Blob
<1>16. Straight(length', ring', socket', current', shuttingDown')
  <2>1. (Peek(ring', ring'.size) \o socket') \o current' = (p \o socket) \o current
    BY <1>9, <1>10, <1>12, <1>13, <1>14
  <2> QED BY <1>3, <1>5, <1>14, <2>1 DEF Straight
<1>17. Incoming(length', ring', msgSize', ~dispatching')
  <2>1. Capacity(ring) >= HeaderSize /\ msgSize \in Nat
        /\ (msgSize # 0 => ring.size >= HeaderSize /\ msgSize = L[p[1][1]])
    BY <1>3, <1>4, Parts DEF Incoming
  <2>2. msgSize # 0 => r.size >= HeaderSize /\ msgSize = L[Peek(r, r.size)[1][1]]
    <3> SUFFICES ASSUME msgSize # 0
                 PROVE  r.size >= HeaderSize /\ msgSize = L[Peek(r, r.size)[1][1]]
      OBVIOUS
    <3>1. HeaderSize \in Nat /\ HeaderSize > 0
      BY SizesAssumption
    <3>2. 1 \in 1..Len(p) /\ r.size >= HeaderSize
      BY <1>5, <1>6, <1>13, <2>1, <3>1
    <3>3. (p \o t)[1] = p[1]
      BY <1>9, <3>2, Concatenation
    <3> QED BY <1>13, <2>1, <3>2, <3>3
  <2>3. Incoming(L, r, msgSize, FALSE)
    BY <1>13, <2>1, <2>2 DEF Incoming
  <2> QED BY <1>1, <1>3, <1>12, <1>14, <2>3 DEF Incoming
<1> QED BY <1>14, <1>15, <1>16, <1>17 DEF Inv

(* The ring buffer starts with a message. *)
LEMMA StreamHead ==
  ASSUME Inv, ring.size > 0
  PROVE  /\ Stream(length, Peek(ring, ring.size)) /\ Peek(ring, ring.size) # <<>>
         /\ Peek(ring, ring.size)[1][1] \in Messages
<1>1. PICK L \in LengthsType : L = length
  BY Parts
<1>2. PICK p \in Seq(Byte) : p = Peek(ring, ring.size)
  BY Parts
<1>3. /\ ring.size \in Nat /\ Len(p) = ring.size
      /\ socket \in Seq(Byte) /\ current \in Seq(Byte)
      /\ Stream(L, (p \o socket) \o current)
  BY <1>1, <1>2, Parts DEF Straight
<1>4. Stream(L, p)
  <2>1. PICK a \in Seq(Byte) : a = p \o socket
    <3>1. p \o socket \in Seq(Byte)
      BY <1>3, Concatenation
    <3> QED BY <3>1
  <2>2. Stream(L, a \o current)
    BY <1>3, <2>1
  <2>3. Stream(L, a)
    BY <1>3, <2>2, PrefixStream
  <2>4. Stream(L, p \o socket)
    BY <2>1, <2>3
  <2> QED BY <1>3, <2>4, PrefixStream
<1>5. p # <<>>
  <2>1. Len(p) > 0
    BY <1>3
  <2> QED BY <2>1
<1>6. p[1][1] \in Messages
  BY <1>4, <1>5, FirstMessage
<1> QED BY <1>1, <1>2, <1>4, <1>5, <1>6

(* The first message in the ring buffer. *)
LEMMA FirstInRing ==
  ASSUME Inv, NEW n \in Nat, n <= ring.size, n > 0,
         NEW m, m = Peek(ring, ring.size)[1][1], n <= length[m]
  PROVE  /\ m \in Messages /\ length[m] \in Nat /\ length[m] > HeaderSize
         /\ Peek(ring, n) = SubSeq(Blob(m), 1, n)
         /\ \A i \in 1..n : Peek(ring, ring.size)[i] = <<m, i>>
<1>1. PICK L \in LengthsType : L = length
  BY Parts
<1>2. PICK p \in Seq(Byte) : p = Peek(ring, ring.size)
  BY Parts
<1>3. /\ Sound(ring) /\ ring.size \in Nat /\ Len(p) = ring.size
  BY <1>1, <1>2, Parts
<1>4. Stream(L, p) /\ p # <<>>
  <2>1. ring.size > 0
    BY <1>3
  <2> QED BY <1>1, <1>2, <2>1, StreamHead
<1>6. m = p[1][1]
  BY <1>2
<1>7. m \in Messages /\ \A i \in 1..L[m] : i <= Len(p) => p[i] = <<m, i>>
  BY <1>4, <1>6, FirstMessage
<1>8. L[m] \in Nat /\ L[m] > HeaderSize
  BY <1>7, LengthFacts
<1>9. \A i \in 1..n : p[i] = <<m, i>>
  <2> SUFFICES ASSUME NEW i \in 1..n PROVE p[i] = <<m, i>>
    OBVIOUS
  <2>1. i \in 1..L[m] /\ i <= Len(p)
    BY <1>1, <1>3, <1>8
  <2> QED BY <1>7, <2>1
<1>10. Peek(ring, n) = SubSeq(Blob(m), 1, n)
  <2>1. PICK s : s = Peek(ring, n)
    OBVIOUS
  <2>2. n \in 0..ring.size /\ ring.size \in 0..ring.size
    BY <1>3
  <2>3. s \in Seq(Byte) /\ Len(s) = n /\ \A i \in 1..n : s[i] = At(ring, i)
    BY <1>3, <2>1, <2>2, PeekBytes
  <2>4. \A i \in 1..ring.size : p[i] = At(ring, i)
    BY <1>2, <1>3, <2>2, PeekBytes
  <2>5. \A i \in 1..n : s[i] = <<m, i>>
    <3> SUFFICES ASSUME NEW i \in 1..n PROVE s[i] = <<m, i>>
      OBVIOUS
    <3>1. i \in 1..ring.size
      BY <1>3
    <3> QED BY <1>9, <2>3, <2>4, <3>1
  <2>6. PICK k \in Nat : k = L[m]
    BY <1>8
  <2>7. n <= k
    BY <1>1, <2>6
  <2>8. PICK b : b = Blob(m)
    OBVIOUS
  <2>9. b = [i \in 1..k |-> <<m, i>>]
    BY <1>1, <2>6, <2>8 DEF Blob
  <2>10. b \in Seq(Byte) /\ Len(b) = k
    <3>1. b \in [1..k -> Byte]
      BY <1>7, <2>9 DEF Byte
    <3> QED BY <2>9, <3>1
  <2>11. PICK t : t = SubSeq(b, 1, n)
    OBVIOUS
  <2>12. t \in Seq(Byte) /\ Len(t) = n /\ \A i \in 1..n : t[i] = b[i]
    BY <2>7, <2>10, <2>11
  <2>13. \A i \in 1..n : b[i] = <<m, i>>
    BY <2>7, <2>9
  <2>14. \A i \in 1..Len(s) : s[i] = t[i]
    BY <2>3, <2>5, <2>12, <2>13
  <2>15. s = t
    BY <2>3, <2>12, <2>14, SameBytes
  <2> QED BY <2>1, <2>8, <2>11, <2>15
<1> QED BY <1>1, <1>2, <1>7, <1>8, <1>9, <1>10

(* What follows the first bytes of the stream. *)
Drops(p, so, cu, n) ==
  LET w == (p \o so) \o cu
      u == SubSeq(p, n + 1, Len(p))
  IN  /\ w \in Seq(Byte) /\ n \in 1..Len(w) /\ w[n] = p[n]
      /\ SubSeq(w, n + 1, Len(w)) = (u \o so) \o cu

LEMMA DropFirst ==
  ASSUME NEW p \in Seq(Byte), NEW so \in Seq(Byte), NEW cu \in Seq(Byte), NEW n \in 1..Len(p)
  PROVE  Drops(p, so, cu, n)
<1>1. n \in 0..Len(p) /\ n \in Nat /\ n >= 1
  OBVIOUS
<1>2. PICK t \in Seq(Byte) : t = SubSeq(p, 1, n)
  BY <1>1, Cut
<1>3. PICK u \in Seq(Byte) : u = SubSeq(p, n + 1, Len(p))
  BY <1>1, Cut
<1>4. Len(t) = n /\ t \o u = p
  BY <1>1, <1>2, <1>3, Cut
<1>5. PICK v \in Seq(Byte) : v = (u \o so) \o cu
  <2>1. u \o so \in Seq(Byte)
    BY <1>4, Concatenation
  <2>2. (u \o so) \o cu \in Seq(Byte)
    BY <2>1, Concatenation
  <2> QED BY <2>2
<1>6. PICK w : w = (p \o so) \o cu
  OBVIOUS
<1>7. w = t \o v
  <2>1. Regrouped(t, u, so, cu)
    BY RegroupTwice
  <2> QED BY <1>4, <1>5, <1>6, <2>1 DEF Regrouped
<1>8. /\ w \in Seq(Byte) /\ Len(w) = n + Len(v) /\ Len(v) \in Nat
      /\ \A i \in 1..n : w[i] = t[i]
      /\ \A i \in 1..Len(v) : w[n + i] = v[i]
  <2>1. /\ t \o v \in Seq(Byte) /\ Len(t \o v) = Len(t) + Len(v) /\ Len(v) \in Nat
        /\ \A i \in 1..Len(t) : (t \o v)[i] = t[i]
        /\ \A i \in 1..Len(v) : (t \o v)[Len(t) + i] = v[i]
    BY Concatenation
  <2> QED BY <1>4, <1>7, <2>1
<1>9. n \in 1..Len(w) /\ w[n] = p[n]
  <2>1. \A i \in 1..n : p[i] = t[i]
    <3>1. \A i \in 1..Len(t) : (t \o u)[i] = t[i]
      BY Concatenation
    <3> QED BY <1>4, <3>1
  <2>2. n \in 1..n /\ n \in 1..Len(w)
    BY <1>1, <1>8
  <2> QED BY <1>8, <2>1, <2>2
<1>10. PICK z : z = SubSeq(w, n + 1, Len(w))
  OBVIOUS
<1>11. n \in 0..Len(w)
  BY <1>1, <1>8
<1>12. z \in Seq(Byte) /\ Len(z) = Len(w) - n /\ \A i \in 1..(Len(w) - n) : z[i] = w[n + i]
  BY <1>8, <1>10, <1>11, SuffixBytes
<1>13. Len(w) - n = Len(v)
  BY <1>1, <1>8
<1>14. z = v
  <2>1. Len(z) = Len(v) /\ \A i \in 1..Len(z) : z[i] = v[i]
    BY <1>8, <1>12, <1>13
  <2> QED BY <1>12, <2>1, SameBytes
<1> QED BY <1>3, <1>5, <1>6, <1>8, <1>9, <1>10, <1>14 DEF Drops

LEMMA ReadSizeInv ==
  ASSUME Inv, ReadSize
  PROVE  Inv'
<1>1. /\ UNCHANGED <<kind, length, senderVars>> /\ socket' = socket /\ ring' = ring
      /\ delivered' = delivered /\ dispatching /\ msgSize = 0
      /\ IF ring.size >= HeaderSize
           THEN msgSize' = SizeIn(Peek(ring, HeaderSize)) /\ dispatching' = dispatching
           ELSE dispatching' = FALSE /\ msgSize' = msgSize
  BY DEF ReadSize
<1>2. /\ Settings'
      /\ Outgoing(length', aggregated', queue', socket', current', ~sending' \/ shuttingDown')
      /\ length' = length /\ current' = current /\ shuttingDown' = shuttingDown
  <2>1. dispatching' \in BOOLEAN /\ socket' \in Seq(Byte)
    BY <1>1, Parts
  <2> QED BY <1>1, <2>1, SenderWaits
<1>3. Delivered'
  BY <1>1, <1>2, Parts DEF Delivered, DeliveredWhole, Blob
<1>4. Straight(length', ring', socket', current', shuttingDown')
  BY <1>1, <1>2, Parts DEF Straight
<1>5. Incoming(length', ring', msgSize', ~dispatching')
  <2>1. Sound(ring) /\ ring.size \in Nat /\ Capacity(ring) >= HeaderSize /\ Capacity(ring) \in Nat
    BY Parts, RingFields DEF Incoming, Sound
  <2>2. HeaderSize \in Nat /\ HeaderSize > 0
    BY SizesAssumption
  <2>3. CASE ring.size >= HeaderSize
    <3>1. PICK m : m = Peek(ring, ring.size)[1][1]
      OBVIOUS
    <3>2. m \in Messages
      <4>1. ring.size > 0
        BY <2>1, <2>2, <2>3
      <4> QED BY <3>1, <4>1, StreamHead
    <3>3. length[m] \in Nat /\ length[m] > HeaderSize
      BY <3>2, Parts, LengthFacts
    <3>4. HeaderSize <= ring.size /\ HeaderSize <= length[m]
      BY <2>1, <2>2, <2>3, <3>3
    <3>5. /\ Peek(ring, HeaderSize) = SubSeq(Blob(m), 1, HeaderSize)
          /\ \A i \in 1..HeaderSize : Peek(ring, ring.size)[i] = <<m, i>>
      BY <2>2, <3>1, <3>4, FirstInRing
    <3>6. PICK h : h = Peek(ring, HeaderSize)
      OBVIOUS
    <3>7. h[1][1] = m
      <4>1. HeaderSize \in 0..ring.size /\ ring.size \in 0..ring.size /\ 1 \in 1..HeaderSize
            /\ 1 \in 1..ring.size
        BY <2>1, <2>2, <2>3
      <4>2. h[1] = At(ring, 1)
        BY <2>1, <3>6, <4>1, PeekBytes
      <4>3. Peek(ring, ring.size)[1] = At(ring, 1)
        BY <2>1, <4>1, PeekBytes
      <4> QED BY <3>1, <4>2, <4>3
    <3>8. SizeIn(h) = length[m]
      BY <3>5, <3>6, <3>7 DEF SizeIn
    <3>9. msgSize' = length[m] /\ dispatching'
      BY <1>1, <2>3, <3>6, <3>8
    <3> QED BY <1>1, <1>2, <2>1, <2>3, <3>1, <3>3, <3>9 DEF Incoming
  <2>4. CASE ~(ring.size >= HeaderSize)
    <3>1. msgSize' = 0
      BY <1>1, <2>4
    <3>2. Free(ring) > 0
      BY <2>1, <2>2, <2>4 DEF Free
    <3> QED BY <1>1, <1>2, <2>1, <3>1, <3>2 DEF Incoming
  <2> QED BY <2>3, <2>4
<1> QED BY <1>2, <1>3, <1>4, <1>5 DEF Inv

LEMMA DispatchMessageInv ==
  ASSUME Inv, DispatchMessage
  PROVE  Inv'
<1>1. /\ UNCHANGED <<kind, length, senderVars>> /\ socket' = socket
      /\ dispatching /\ msgSize # 0
  BY DEF DispatchMessage
<1>2. /\ Settings'
      /\ Outgoing(length', aggregated', queue', socket', current', ~sending' \/ shuttingDown')
      /\ length' = length /\ current' = current /\ shuttingDown' = shuttingDown
  <2>1. dispatching' \in BOOLEAN /\ socket' \in Seq(Byte)
    BY <1>1, Parts DEF DispatchMessage
  <2> QED BY <1>1, <2>1, SenderWaits
<1>3. PICK L \in LengthsType : L = length
  BY Parts
<1>4. PICK p \in Seq(Byte) : p = Peek(ring, ring.size)
  BY Parts
<1>5. /\ Sound(ring) /\ ring.size \in Nat /\ Len(p) = ring.size
      /\ socket \in Seq(Byte) /\ current \in Seq(Byte)
      /\ Stream(L, (p \o socket) \o current)
      /\ ~shuttingDown => Complete(L, (p \o socket) \o current)
  BY <1>3, <1>4, Parts DEF Straight
<1>6. PICK r : r = ring'
  OBVIOUS
<1>7. PICK m : m = p[1][1]
  OBVIOUS
<1>8. /\ ring.size >= HeaderSize /\ msgSize = L[m] /\ msgSize \in Nat
      /\ Capacity(ring) \in Nat /\ Capacity(ring) >= HeaderSize
  BY <1>1, <1>3, <1>4, <1>7, Parts, RingFields DEF Incoming, Sound
<1>9. HeaderSize \in Nat /\ HeaderSize > 0
  BY SizesAssumption
<1>10. CASE ring.size < msgSize
  <2>1. r = Reserve(ring, msgSize) /\ dispatching' = FALSE /\ msgSize' = msgSize /\ delivered' = delivered
    BY <1>6, <1>10 DEF DispatchMessage
  <2>2. /\ Sound(r) /\ Capacity(r) >= msgSize /\ Capacity(r) >= Capacity(ring) /\ r.size = ring.size
        /\ Peek(r, r.size) = p
    BY <1>4, <1>5, <1>8, <2>1, ReserveBytes
  <2>3. Delivered'
    BY <1>2, <2>1, Parts DEF Delivered, DeliveredWhole, Blob
  <2>4. Straight(length', ring', socket', current', shuttingDown')
    BY <1>1, <1>2, <1>3, <1>5, <1>6, <2>2 DEF Straight
  <2>5. Capacity(r) \in Nat
    BY <2>2, RingFields DEF Sound
  <2>6. Free(r) > 0 /\ Capacity(r) >= HeaderSize
    BY <1>5, <1>8, <1>9, <1>10, <2>2, <2>5 DEF Free
  <2>7. Incoming(length', ring', msgSize', ~dispatching')
    BY <1>2, <1>3, <1>6, <1>7, <1>8, <2>1, <2>2, <2>6 DEF Incoming
  <2> QED BY <1>2, <2>3, <2>4, <2>7 DEF Inv
<1>11. CASE ~(ring.size < msgSize)
  <2>1. /\ delivered' = Append(delivered, Peek(ring, msgSize)) /\ r = AdvanceRPos(ring, msgSize)
        /\ msgSize' = 0 /\ dispatching' = dispatching
    BY <1>6, <1>11 DEF DispatchMessage
  <2>2. PICK n \in Nat : n = msgSize
    BY <1>8
  <2>3. n <= ring.size /\ n > 0 /\ m = Peek(ring, ring.size)[1][1] /\ n <= length[m] /\ n = length[m]
    BY <1>1, <1>3, <1>4, <1>5, <1>7, <1>8, <1>11, <2>2
  <2>4. /\ m \in Messages
        /\ Peek(ring, n) = SubSeq(Blob(m), 1, n)
        /\ \A i \in 1..n : p[i] = <<m, i>>
    BY <1>4, <2>3, FirstInRing
  <2>5. PICK b : b = Blob(m)
    OBVIOUS
  <2>6. b = [i \in 1..n |-> <<m, i>>]
    BY <2>3, <2>5 DEF Blob
  <2>7. b \in Seq(Byte) /\ Len(b) = n
    <3>1. b \in [1..n -> Byte]
      BY <2>4, <2>6 DEF Byte
    <3> QED BY <2>6, <3>1
  <2>8. SubSeq(b, 1, n) = b
    BY <2>7
  <2>9. delivered' = Append(delivered, b)
    BY <2>1, <2>2, <2>4, <2>5, <2>8
  <2>10. b[1][1] = m
    BY <2>3, <2>6
  <2>11. Delivered'
    <3>1. PICK d \in Seq(Seq(Byte)) : d = delivered
      BY Parts DEF Delivered
    <3>2. \A i \in 1..Len(d) : d[i] = Blob(d[i][1][1])
      BY <3>1, Parts DEF Delivered, DeliveredWhole
    <3>3. PICK e : e = Append(d, b)
      OBVIOUS
    <3>4. /\ e \in Seq(Seq(Byte)) /\ Len(e) = Len(d) + 1 /\ DOMAIN e = 1..(Len(d) + 1)
          /\ \A i \in 1..Len(d) : e[i] = d[i]
          /\ e[Len(d) + 1] = b
      BY <2>7, <3>3
    <3>5. ASSUME NEW i \in DOMAIN e PROVE e[i] = Blob(e[i][1][1])
      <4>1. CASE i \in 1..Len(d)
        BY <3>2, <3>4, <4>1
      <4>2. CASE i = Len(d) + 1
        BY <2>5, <2>10, <3>4, <4>2
      <4>3. Len(d) \in Nat
        OBVIOUS
      <4> QED BY <3>4, <4>1, <4>2, <4>3
    <3>6. delivered' = e
      BY <2>9, <3>1, <3>3
    <3>7. \A x : Blob(x)' = Blob(x)
      BY <1>2 DEF Blob
    <3> QED BY <3>4, <3>5, <3>6, <3>7 DEF Delivered, DeliveredWhole
  <2>12. n \in 0..ring.size
    BY <1>5, <2>3
  <2>13. /\ Sound(r) /\ Capacity(r) = Capacity(ring) /\ r.size = ring.size - n
         /\ Peek(r, r.size) = SubSeq(p, n + 1, ring.size)
    BY <1>4, <1>5, <2>1, <2>2, <2>12, AdvanceRead
  <2>14. Straight(length', ring', socket', current', shuttingDown')
    <3>1. PICK u : u = SubSeq(p, n + 1, Len(p))
      OBVIOUS
    <3>2. PICK w : w = (p \o socket) \o current
      OBVIOUS
    <3>3. u = Peek(r, r.size)
      BY <1>5, <2>13, <3>1
    <3>4. /\ w \in Seq(Byte) /\ n \in 1..Len(w) /\ w[n] = p[n]
          /\ SubSeq(w, n + 1, Len(w)) = (u \o socket) \o current
      <4>1. n \in 1..Len(p) /\ socket \in Seq(Byte) /\ current \in Seq(Byte)
        BY <1>5, <2>3
      <4>2. Drops(p, socket, current, n)
        BY <4>1, DropFirst
      <4> QED BY <3>1, <3>2, <4>2 DEF Drops
    <3>5. Stream(L, w) /\ (~shuttingDown => Complete(L, w))
      BY <1>5, <3>2
    <3>6. w[n][2] = L[w[n][1]]
      <4>1. p[n] = <<m, n>>
        BY <2>3, <2>4
      <4>2. w[n] = <<m, n>>
        BY <3>4, <4>1
      <4>3. n = L[m]
        BY <1>3, <2>3
      <4> QED BY <4>2, <4>3
    <3>7. /\ Stream(L, SubSeq(w, n + 1, Len(w)))
          /\ Complete(L, w) => Complete(L, SubSeq(w, n + 1, Len(w)))
      BY <3>4, <3>5, <3>6, RestStream
    <3>8. (Peek(ring', ring'.size) \o socket') \o current' = (u \o socket) \o current
      BY <1>1, <1>2, <1>6, <3>3
    <3> QED BY <1>2, <1>3, <3>4, <3>5, <3>7, <3>8 DEF Straight
  <2>15. Incoming(length', ring', msgSize', ~dispatching')
    BY <1>1, <1>6, <1>8, <2>1, <2>13 DEF Incoming
  <2> QED BY <1>2, <2>11, <2>14, <2>15 DEF Inv
<1> QED BY <1>10, <1>11

-----------------------------------------------------------------------------
LEMMA InvHolds == Spec => []Inv
<1>1. ASSUME Inv, [Next]_vars PROVE Inv'
  <2>1. CASE \E m \in Messages : SendSilKitMsg(m)
    BY <1>1, <2>1, SendSilKitMsgInv
  <2>2. CASE EnableAggregation
    BY <1>1, <2>2, EnableAggregationInv
  <2>3. CASE OnTimerExpired
    BY <1>1, <2>3, OnTimerExpiredInv
  <2>4. CASE OnAsyncWriteSomeDone
    BY <1>1, <2>4, OnAsyncWriteSomeDoneInv
  <2>5. CASE Shutdown
    BY <1>1, <2>5, ShutdownInv
  <2>6. CASE OnAsyncReadSomeDone
    BY <1>1, <2>6, OnAsyncReadSomeDoneInv
  <2>7. CASE ReadSize
    BY <1>1, <2>7, ReadSizeInv
  <2>8. CASE DispatchMessage
    BY <1>1, <2>8, DispatchMessageInv
  <2>9. CASE UNCHANGED vars
    <3>1. UNCHANGED <<kind, length, senderVars, socket, receiverVars>>
      BY <2>9 DEF vars
    <3>2. Delivered' /\ Incoming(length', ring', msgSize', ~dispatching') /\ ring' = ring
      BY <1>1, <3>1, ReceiverWaits
    <3>3. dispatching' \in BOOLEAN /\ socket' \in Seq(Byte)
      BY <1>1, <3>1, Parts DEF Settings, receiverVars
    <3>4. /\ Settings'
          /\ Outgoing(length', aggregated', queue', socket', current', ~sending' \/ shuttingDown')
          /\ length' = length /\ current' = current /\ shuttingDown' = shuttingDown
      BY <1>1, <3>1, <3>3, SenderWaits
    <3>5. Straight(length', ring', socket', current', shuttingDown')
      BY <1>1, <3>1, <3>2, <3>4, Parts DEF Straight
    <3> QED BY <3>2, <3>4, <3>5 DEF Inv
  <2> QED BY <1>1, <2>1, <2>2, <2>3, <2>4, <2>5, <2>6, <2>7, <2>8, <2>9 DEF Next, Sender, Receiver
<1> QED BY <1>1, InitInv, PTL DEF Spec

-----------------------------------------------------------------------------
(* The channel of whole messages: what it holds back, what is on its line  *)
(* and what it has delivered.                                              *)

Held == Completed[aggregated]
Line == Completed[UnderWay]
Got == [i \in 1..Len(delivered) |-> delivered[i][1][1]]

Flow(p, so, cu, q) == ((p \o so) \o cu) \o FlattenSeq(q)

(* The bytes under way. *)
LEMMA FlowBytes ==
  ASSUME NEW p \in Seq(Byte), NEW so \in Seq(Byte), NEW cu \in Seq(Byte), NEW q \in Seq(Seq(Byte))
  PROVE  /\ (p \o so) \o cu \in Seq(Byte) /\ FlattenSeq(q) \in Seq(Byte)
         /\ Flow(p, so, cu, q) \in Seq(Byte)
<1>1. PICK a \in Seq(Byte) : a = p \o so
  BY Concatenation
<1>2. PICK b \in Seq(Byte) : b = a \o cu
  BY Concatenation
<1>3. PICK c \in Seq(Byte) : c = FlattenSeq(q)
  BY FlattenConcat
<1>4. b \o c \in Seq(Byte)
  BY Concatenation
<1> QED BY <1>1, <1>2, <1>3, <1>4 DEF Flow

LEMMA QueueBytes ==
  ASSUME NEW L, NEW q \in Seq(Wholes(L))
  PROVE  q \in Seq(Seq(Byte))
<1>1. PICK W : W = Wholes(L)
  OBVIOUS
<1>2. PICK B : B = Seq(Byte)
  OBVIOUS
<1>3. W \subseteq B /\ q \in Seq(W)
  BY <1>1, <1>2 DEF Wholes
<1>4. q \in Seq(B)
  BY <1>3
<1> QED BY <1>2, <1>4

LEMMA UnderWayBytes ==
  ASSUME Inv
  PROVE  UnderWay \in Seq(Byte) /\ UnderWay = Flow(Peek(ring, ring.size), socket, current, queue)
         /\ aggregated \in Seq(Byte) /\ queue \in Seq(Seq(Byte)) /\ FlattenSeq(queue) \in Seq(Byte)
<1>1. /\ Peek(ring, ring.size) \in Seq(Byte) /\ socket \in Seq(Byte) /\ current \in Seq(Byte)
      /\ queue \in Seq(Wholes(length)) /\ aggregated \in Wholes(length)
  BY Parts
<1>2. aggregated \in Seq(Byte)
  BY <1>1 DEF Wholes
<1>3. queue \in Seq(Seq(Byte))
  BY <1>1, QueueBytes
<1>4. /\ Flow(Peek(ring, ring.size), socket, current, queue) \in Seq(Byte)
      /\ FlattenSeq(queue) \in Seq(Byte)
  BY <1>1, <1>3, FlowBytes
<1>5. UnderWay = Flow(Peek(ring, ring.size), socket, current, queue)
  BY DEF UnderWay, Flow
<1> QED BY <1>2, <1>3, <1>4, <1>5

LEMMA UnderWayNext ==
  ASSUME Inv'
  PROVE  /\ UnderWay' \in Seq(Byte)
         /\ UnderWay' = Flow(Peek(ring', ring'.size), socket', current', queue')
         /\ aggregated' \in Seq(Byte)
<1>1. /\ Sound(ring') /\ socket' \in Seq(Byte) /\ current' \in Seq(Byte)
      /\ queue' \in Seq(Wholes(length')) /\ aggregated' \in Wholes(length')
  BY DEF Inv, Outgoing, Incoming
<1>2. PICK r : r = ring'
  OBVIOUS
<1>3. Peek(r, r.size) \in Seq(Byte)
  <2>1. Sound(r)
    BY <1>1, <1>2
  <2>2. r.size \in Nat
    BY <2>1, RingFields DEF Sound
  <2>3. r.size \in 0..r.size
    BY <2>2
  <2> QED BY <2>1, <2>3, PeekBytes
<1>4. aggregated' \in Seq(Byte)
  BY <1>1 DEF Wholes
<1>5. queue' \in Seq(Seq(Byte))
  BY <1>1, QueueBytes
<1>6. Flow(Peek(ring', ring'.size), socket', current', queue') \in Seq(Byte)
  BY <1>1, <1>2, <1>3, <1>5, FlowBytes
<1>7. UnderWay' = Flow(Peek(ring', ring'.size), socket', current', queue')
  BY DEF UnderWay, Flow
<1> QED BY <1>4, <1>6, <1>7

(* The messages held back and under way, before and after a step. *)
LEMMA Mapping ==
  ASSUME Inv, Inv', length' = length
  PROVE  /\ Held = Done(length, aggregated) /\ Held' = Done(length, aggregated')
         /\ Line = Done(length, UnderWay) /\ Line' = Done(length, UnderWay')
<1>1. Completed = CHOOSE x : CompletedBy(length, x)
  BY DEF Completed, CompletedBy
<1>2. Completed' = CHOOSE x : CompletedBy(length', x)
  BY DEF Completed, CompletedBy
<1>3. PICK f : f = Completed
  OBVIOUS
<1>4. PICK g : g = Completed'
  OBVIOUS
<1>5. PICK L : L = length
  OBVIOUS
<1>6. /\ UnderWay \in Seq(Byte) /\ aggregated \in Seq(Byte)
      /\ UnderWay' \in Seq(Byte) /\ aggregated' \in Seq(Byte)
  BY UnderWayBytes, UnderWayNext
<1>7. f = CHOOSE x : CompletedBy(L, x)
  BY <1>1, <1>3, <1>5
<1>8. g = CHOOSE x : CompletedBy(L, x)
  BY <1>2, <1>4, <1>5
<1>9. \A s \in Seq(Byte) : f[s] = Done(L, s)
  BY <1>7, CompletedIs
<1>10. \A s \in Seq(Byte) : g[s] = Done(L, s)
  BY <1>8, CompletedIs
<1>11. Held = f[aggregated] /\ Line = f[UnderWay]
  BY <1>3 DEF Held, Line
<1>12. Held' = g[aggregated'] /\ Line' = g[UnderWay']
  BY <1>4 DEF Held, Line
<1> QED BY <1>5, <1>6, <1>9, <1>10, <1>11, <1>12

LEMMA DoneBlob ==
  ASSUME Inv, NEW m \in Messages
  PROVE  Blob(m) \in Seq(Byte) /\ Done(length, Blob(m)) = <<m>>
<1>1. PICK L \in LengthsType : L = length
  BY Parts
<1>2. PICK n \in Nat : n = L[m] /\ n > 0
  BY LengthFacts
<1>3. PICK s : s = Blob(m)
  OBVIOUS
<1>4. s = [k \in 1..n |-> <<m, k>>]
  BY <1>1, <1>2, <1>3 DEF Blob
<1>5. s \in Seq(Byte) /\ Done(L, s) = <<m>>
  BY <1>2, <1>4, DoneMessage
<1> QED BY <1>1, <1>3, <1>5

(* A write that starts takes its bytes from the queue. *)
LEMMA StartFlow ==
  ASSUME NEW q \in Seq(Seq(Byte)), NEW a \in Seq(Byte), StartAsyncWrite(q, FALSE)
  PROVE  (a \o current') \o FlattenSeq(queue') = a \o FlattenSeq(q)
<1>1. CASE q = <<>>
  <2>1. queue' = q /\ current' = <<>>
    BY <1>1 DEF StartAsyncWrite
  <2>2. a \o <<>> = a
    OBVIOUS
  <2> QED BY <2>1, <2>2
<1>2. CASE q # <<>>
  <2>1. queue' = Tail(q) /\ current' = Head(q)
    BY <1>2 DEF StartAsyncWrite
  <2>2. PICK B : B = Seq(Byte)
    OBVIOUS
  <2>3. q \in Seq(B)
    BY <2>2
  <2>4. Head(q) \in B /\ Tail(q) \in Seq(B) /\ q = <<Head(q)>> \o Tail(q)
    BY <1>2, <2>3, HeadAndTail
  <2>5. PICK h \in Seq(Byte) : h = Head(q)
    BY <2>2, <2>4
  <2>6. PICK t \in Seq(Seq(Byte)) : t = Tail(q)
    BY <2>2, <2>4
  <2>7. PICK o : o = <<h>>
    OBVIOUS
  <2>8. o \in Seq(Seq(Byte))
    BY <2>7, OneElement
  <2>9. FlattenSeq(o) = h
    BY <2>7, FlattenOne
  <2>10. FlattenSeq(t) \in Seq(Byte) /\ FlattenSeq(o \o t) = FlattenSeq(o) \o FlattenSeq(t)
    BY <2>8, FlattenConcat
  <2>11. FlattenSeq(q) = h \o FlattenSeq(t)
    BY <2>4, <2>5, <2>6, <2>7, <2>9, <2>10
  <2>12. PICK u \in Seq(Byte) : u = FlattenSeq(t)
    BY <2>10
  <2>13. Associates(a, h, u)
    BY Regroup
  <2> QED BY <2>1, <2>5, <2>6, <2>11, <2>12, <2>13 DEF Associates
<1> QED BY <1>1, <1>2

(* What is sent goes to the end of the line, unless the peer shuts down.   *)
LEMMA SendFlow ==
  ASSUME Inv, NEW blobs \in Seq(Seq(Byte)), SendSilKitMsgInternal(blobs), ring' = ring, socket' = socket
  PROVE  UnderWay' = IF shuttingDown THEN UnderWay ELSE UnderWay \o FlattenSeq(blobs)
<1>1. PICK p \in Seq(Byte) : p = Peek(ring, ring.size)
  BY Parts
<1>2. PICK f \in Seq(Byte) : f = FlattenSeq(queue)
  BY UnderWayBytes
<1>3. PICK g \in Seq(Byte) : g = FlattenSeq(blobs)
  BY FlattenConcat
<1>4. /\ queue \in Seq(Seq(Byte)) /\ socket \in Seq(Byte) /\ current \in Seq(Byte)
      /\ sending \in BOOLEAN /\ shuttingDown \in BOOLEAN
      /\ ~sending \/ shuttingDown => current = <<>>
  BY Parts, UnderWayBytes DEF Settings
<1>5. PICK a \in Seq(Byte) : a = p \o socket
  BY <1>4, Concatenation
<1>6. PICK b \in Seq(Byte) : b = a \o current
  BY <1>4, Concatenation
<1>7. UnderWay = b \o f
  BY <1>1, <1>2, <1>5, <1>6 DEF UnderWay
<1>8. UnderWay' = (a \o current') \o FlattenSeq(queue')
  BY <1>1, <1>5 DEF UnderWay
<1>9. CASE shuttingDown
  <2>1. queue' = queue /\ current' = current
    BY <1>9 DEF SendSilKitMsgInternal
  <2> QED BY <1>2, <1>6, <1>7, <1>8, <1>9, <2>1
<1>10. CASE ~shuttingDown
  <2>1. PICK q \in Seq(Seq(Byte)) : q = queue \o blobs
    BY <1>4, Concatenation
  <2>2. FlattenSeq(q) = f \o g
    BY <1>2, <1>3, <1>4, <2>1, FlattenConcat
  <2>3. StartAsyncWrite(q, sending)
    BY <1>10, <2>1 DEF SendSilKitMsgInternal
  <2>4. Associates(b, f, g)
    BY Regroup
  <2>5. b \o (f \o g) = UnderWay \o FlattenSeq(blobs)
    BY <1>3, <1>7, <2>4 DEF Associates
  <2>6. CASE sending
    <3>1. queue' = q /\ current' = current
      BY <2>3, <2>6 DEF StartAsyncWrite
    <3> QED BY <1>6, <1>8, <1>10, <2>2, <2>5, <3>1
  <2>7. CASE ~sending
    <3>1. StartAsyncWrite(q, FALSE)
      BY <1>4, <2>3, <2>7
    <3>2. (a \o current') \o FlattenSeq(queue') = a \o FlattenSeq(q)
      BY <3>1, StartFlow
    <3>3. b = a
      BY <1>4, <1>6, <2>7
    <3> QED BY <1>8, <1>10, <2>2, <2>5, <3>2, <3>3
  <2> QED BY <2>6, <2>7
<1> QED BY <1>9, <1>10

(* Before aggregation is enabled nothing is held back. *)
Enabled == useAggregation \in BOOLEAN /\ (~useAggregation => aggregated = <<>>)

LEMMA EnabledHolds == Spec => []Enabled
<1>1. Init => Enabled
  BY DEF Init, Enabled
<1>2. ASSUME Enabled, [Next]_vars PROVE Enabled'
  <2>1. CASE \E m \in Messages : SendSilKitMsg(m)
    BY <1>2, <2>1 DEF Enabled, SendSilKitMsg
  <2>2. CASE EnableAggregation
    BY <1>2, <2>2 DEF Enabled, EnableAggregation
  <2>3. CASE OnTimerExpired
    BY <1>2, <2>3 DEF Enabled, OnTimerExpired
  <2>4. CASE OnAsyncWriteSomeDone \/ Shutdown
    BY <1>2, <2>4 DEF Enabled, OnAsyncWriteSomeDone, Shutdown
  <2>5. CASE OnAsyncReadSomeDone \/ ReadSize \/ DispatchMessage \/ UNCHANGED vars
    BY <1>2, <2>5 DEF Enabled, OnAsyncReadSomeDone, ReadSize, DispatchMessage, vars, senderVars
  <2> QED BY <1>2, <2>1, <2>2, <2>3, <2>4, <2>5 DEF Next, Sender, Receiver
<1> QED BY <1>1, <1>2, PTL DEF Spec

(* One step of the channel, or none. *)
Urgent == {m \in Messages : kind[m] = "Other"}
Open == Urgent' = Urgent /\ shuttingDown' = shuttingDown
Waits == Open /\ sent' = sent
Takes(m) == Open /\ m = sent + 1 /\ sent' = m /\ Got' = Got

ChannelStep ==
  \/ Waits /\ Held' = Held /\ Line' = Line /\ Got' = Got
  \/ \E m \in Messages :
       \/ Takes(m) /\ m \notin Urgent /\ Held' = Append(Held, m) /\ Line' = Line
       \/ /\ Takes(m) /\ ~shuttingDown /\ (m \in Urgent \/ Held = <<>>)
          /\ Line' = Append(Line, m) /\ Held' = Held
       \/ /\ Takes(m) /\ ~shuttingDown /\ m \notin Urgent
          /\ Line' = Line \o Append(Held, m) /\ Held' = <<>>
       \/ Takes(m) /\ shuttingDown /\ Held' \in {Held, <<>>} /\ Line' = Line
  \/ Waits /\ ~shuttingDown /\ Line' = Line \o Held /\ Held' = <<>> /\ Got' = Got
  \/ /\ Waits /\ Line # <<>> /\ Got' = Append(Got, Head(Line)) /\ Line' = Tail(Line)
     /\ Held' = Held
  \/ /\ ~shuttingDown /\ shuttingDown' = TRUE /\ Urgent' = Urgent /\ sent' = sent
     /\ (\E n \in 0..Len(Line) : Line' = SubSeq(Line, 1, n)) /\ Held' = Held /\ Got' = Got
  \/ Waits /\ shuttingDown /\ Held' = <<>> /\ Line' = Line /\ Got' = Got

LEMMA StepOfChannel ==
  ASSUME ChannelStep
  PROVE  [Abstract!Next]_<<Urgent, sent, shuttingDown, Held, Line, Got>>
BY DEF ChannelStep, Waits, Takes, Open, Urgent, Held, Line, Got, Abstract!Next, Abstract!Accept,
       Abstract!Hold, Abstract!Put, Abstract!HoldAndFlush, Abstract!Flush, Abstract!Deliver,
       Abstract!Close, Abstract!Refuse, Abstract!Discard

LEMMA Beginning ==
  ASSUME NEW S, NEW s \in Seq(S), NEW t \in Seq(S)
  PROVE  \E n \in 0..Len(s \o t) : s = SubSeq(s \o t, 1, n)
<1>1. PICK w : w = s \o t
  OBVIOUS
<1>2. PICK k \in Nat : k = Len(s)
  OBVIOUS
<1>3. w \in Seq(S) /\ Len(w) = k + Len(t) /\ Len(t) \in Nat /\ \A i \in 1..k : w[i] = s[i]
  BY <1>1, <1>2, Concatenation
<1>4. k \in 0..Len(w)
  BY <1>3
<1>5. PICK u : u = SubSeq(w, 1, k)
  OBVIOUS
<1>6. u \in Seq(S) /\ Len(u) = k /\ \A i \in 1..k : u[i] = w[i]
  BY <1>3, <1>4, <1>5
<1>7. u = s
  BY <1>2, <1>3, <1>6, SameElements
<1> QED BY <1>1, <1>4, <1>5, <1>7

LEMMA Extended ==
  ASSUME NEW S, NEW s \in Seq(S), NEW t \in Seq(S), NEW m, Len(t) = Len(s) + 1,
         \A i \in 1..Len(s) : t[i] = s[i], t[Len(s) + 1] = m
  PROVE  t = Append(s, m)
<1>1. PICK n \in Nat : n = Len(s)
  OBVIOUS
<1>2. n + 1 \in 1..Len(t) /\ Len(t) = n + 1
  BY <1>1
<1>3. m \in S
  BY <1>1, <1>2, ElementIn
<1>4. PICK u : u = Append(s, m)
  OBVIOUS
<1>5. /\ u \in Seq(S) /\ Len(u) = n + 1 /\ u[n + 1] = m
      /\ \A i \in 1..n : u[i] = s[i]
  BY <1>1, <1>3, <1>4
<1>6. ASSUME NEW i \in 1..(n + 1) PROVE t[i] = u[i]
  <2>1. i \in 1..n \/ i = n + 1
    OBVIOUS
  <2> QED BY <1>1, <1>5, <2>1
<1>7. t = u
  BY <1>2, <1>5, <1>6, SameElements
<1> QED BY <1>4, <1>7

LEMMA AppendIs ==
  ASSUME NEW S, NEW s \in Seq(S), NEW e \in S
  PROVE  s \o <<e>> = Append(s, e)
OBVIOUS

LEMMA MessageNames ==
  ASSUME NEW m \in Messages
  PROVE  m \in Names
<1>1. <<m, 1>> \in Byte /\ <<m, 1>>[1] = m
  BY DEF Byte
<1> QED BY <1>1 DEF Names

(* Steps that move no message. *)
LEMMA StayStep ==
  ASSUME Inv, Inv', length' = length, aggregated' = aggregated, UnderWay' = UnderWay,
         delivered' = delivered, kind' = kind, sent' = sent, shuttingDown' = shuttingDown
  PROVE  ChannelStep
<1>1. Held' = Held /\ Line' = Line
  BY Mapping
<1>2. Got' = Got
  BY DEF Got
<1> QED BY <1>1, <1>2 DEF ChannelStep, Waits, Open, Urgent

LEMMA SendStep ==
  ASSUME Inv, Inv', Enabled, NEW m \in Messages, SendSilKitMsg(m)
  PROVE  ChannelStep
<1>1. /\ length' = length /\ ring' = ring /\ socket' = socket /\ delivered' = delivered
  BY DEF SendSilKitMsg, receiverVars
<1>2. Takes(m)
  <2>1. m = sent + 1 /\ sent' = m /\ kind' = kind /\ shuttingDown' = shuttingDown
    BY DEF SendSilKitMsg
  <2> QED BY <1>1, <2>1 DEF Takes, Open, Urgent, Got
<1>3. PICK L : L = length
  OBVIOUS
<1>4. PICK a \in Seq(Byte) : a = aggregated
  BY UnderWayBytes
<1>5. PICK w \in Seq(Byte) : w = UnderWay
  BY UnderWayBytes
<1>6. PICK b \in Seq(Byte) : b = Blob(m)
  BY DoneBlob
<1>7. PICK bytes \in Seq(Byte) : bytes = a \o b
  BY Concatenation
<1>8. /\ Held = Done(L, a) /\ Line = Done(L, w) /\ Held \in Seq(Names) /\ Line \in Seq(Names)
      /\ Held' = Done(L, aggregated') /\ Line' = Done(L, UnderWay')
  BY <1>1, <1>3, <1>4, <1>5, Mapping, DoneConcat
<1>9. Done(L, b) = <<m>> /\ m \in Names
  BY <1>3, <1>6, DoneBlob, MessageNames
<1>10. Done(L, bytes) = Append(Held, m)
  <2>1. Done(L, bytes) = Done(L, a) \o Done(L, b)
    BY <1>7, DoneConcat
  <2> QED BY <1>8, <1>9, <2>1, AppendIs
<1>11. CASE ~(useAggregation /\ kind[m] # "Other")
  <2>1. SendSilKitMsgInternal(<<b>>) /\ aggregated' = aggregated
    BY <1>6, <1>11 DEF SendSilKitMsg
  <2>2. <<b>> \in Seq(Seq(Byte)) /\ FlattenSeq(<<b>>) = b
    BY OneElement, FlattenOne
  <2>3. UnderWay' = IF shuttingDown THEN w ELSE w \o b
    BY <1>1, <1>5, <2>1, <2>2, SendFlow
  <2>4. Held' = Held
    BY <1>4, <1>8, <2>1
  <2>5. CASE shuttingDown
    <3>1. Line' = Line
      BY <1>8, <2>3, <2>5
    <3> QED BY <1>2, <2>4, <2>5, <3>1 DEF ChannelStep
  <2>6. CASE ~shuttingDown
    <3>1. Line' = Done(L, w) \o Done(L, b)
      BY <1>8, <2>3, <2>6, DoneConcat
    <3>2. Line' = Append(Line, m)
      BY <1>8, <1>9, <3>1, AppendIs
    <3>3. m \in Urgent \/ Held = <<>>
      <4>1. CASE useAggregation
        BY <1>11, <4>1 DEF Urgent
      <4>2. CASE ~useAggregation
        <5>1. a = <<>>
          BY <1>4, <4>2 DEF Enabled
        <5> QED BY <1>8, <5>1, DoneEmpty
      <4> QED BY <4>1, <4>2
    <3> QED BY <1>2, <2>4, <2>6, <3>2, <3>3 DEF ChannelStep
  <2> QED BY <2>5, <2>6
<1>12. CASE useAggregation /\ kind[m] # "Other"
  <2> m \notin Urgent
    BY <1>12 DEF Urgent
  <2>1. Aggregate(m)
    BY <1>12 DEF SendSilKitMsg
  <2>2. PICK full : full = (Len(bytes) > Threshold)
    OBVIOUS
  <2>3. PICK x : x = IF full THEN <<>> ELSE bytes
    OBVIOUS
  <2>4. PICK one : one = IF full THEN <<bytes>> ELSE <<>>
    OBVIOUS
  <2>5. PICK two : two = IF kind[m] = "Flush" THEN <<x>> ELSE <<>>
    OBVIOUS
  <2>6. PICK blobs : blobs = one \o two
    OBVIOUS
  <2>7. /\ aggregated' = (IF blobs = <<>> THEN bytes ELSE <<>>)
        /\ SendSilKitMsgInternal(blobs)
    BY <1>4, <1>6, <1>7, <2>1, <2>2, <2>3, <2>4, <2>5, <2>6 DEF Aggregate
  <2>8. /\ one \in Seq(Seq(Byte)) /\ two \in Seq(Seq(Byte)) /\ blobs \in Seq(Seq(Byte))
        /\ FlattenSeq(blobs) = IF blobs = <<>> THEN <<>> ELSE bytes
    <3>1. /\ <<>> \in Seq(Seq(Byte)) /\ FlattenSeq(<<>>) = <<>> /\ <<>> \in Seq(Byte)
      BY FlattenEmpty
    <3>2. /\ <<bytes>> \in Seq(Seq(Byte)) /\ FlattenSeq(<<bytes>>) = bytes
      BY OneElement, FlattenOne
    <3>3. x \in Seq(Byte)
      BY <2>3, <3>1
    <3>4. <<x>> \in Seq(Seq(Byte)) /\ FlattenSeq(<<x>>) = x
      BY <3>3, OneElement, FlattenOne
    <3>5. one \in Seq(Seq(Byte)) /\ FlattenSeq(one) = IF full THEN bytes ELSE <<>>
      BY <2>4, <3>1, <3>2
    <3>6. two \in Seq(Seq(Byte)) /\ FlattenSeq(two) = IF kind[m] = "Flush" THEN x ELSE <<>>
      BY <2>5, <3>1, <3>4
    <3>7. blobs \in Seq(Seq(Byte)) /\ FlattenSeq(blobs) = FlattenSeq(one) \o FlattenSeq(two)
      BY <2>6, <3>5, <3>6, FlattenConcat, Concatenation
    <3>8. bytes \o <<>> = bytes /\ <<>> \o bytes = bytes /\ <<>> \o <<>> = <<>>
      OBVIOUS
    <3>9. blobs = <<>> <=> ~full /\ kind[m] # "Flush"
      <4>1. Len(blobs) = Len(one) + Len(two)
        BY <2>6, <3>5, <3>6, Concatenation
      <4>2. Len(one) = (IF full THEN 1 ELSE 0) /\ Len(two) = (IF kind[m] = "Flush" THEN 1 ELSE 0)
        BY <2>4, <2>5, <3>2, <3>4, OneElement
      <4>3. blobs = <<>> <=> Len(blobs) = 0
        BY <3>7, NoElements
      <4> QED BY <4>1, <4>2, <4>3
    <3>10. FlattenSeq(blobs) = IF blobs = <<>> THEN <<>> ELSE bytes
      BY <2>3, <3>5, <3>6, <3>7, <3>8, <3>9
    <3> QED BY <3>5, <3>6, <3>7, <3>10
  <2>9. UnderWay' = IF shuttingDown THEN w ELSE w \o FlattenSeq(blobs)
    BY <1>1, <1>5, <2>7, <2>8, SendFlow
  <2>10. CASE blobs = <<>>
    <3>1. UnderWay' = w
      <4>1. w \o <<>> = w
        OBVIOUS
      <4> QED BY <2>8, <2>9, <2>10, <4>1
    <3>2. Line' = Line /\ Held' = Append(Held, m)
      BY <1>8, <1>10, <2>7, <2>10, <3>1
    <3> QED BY <1>2, <3>2 DEF ChannelStep
  <2>11. CASE blobs # <<>>
    <3>1. Held' = <<>>
      BY <1>8, <2>7, <2>11, DoneEmpty
    <3>2. CASE shuttingDown
      <4>1. Line' = Line
        BY <1>8, <2>9, <3>2
      <4> QED BY <1>2, <3>1, <3>2, <4>1 DEF ChannelStep
    <3>3. CASE ~shuttingDown
      <4>1. Line' = Done(L, w) \o Done(L, bytes)
        <5>1. UnderWay' = w \o bytes
          BY <2>8, <2>9, <2>11, <3>3
        <5>2. Done(L, w \o bytes) = Done(L, w) \o Done(L, bytes)
          BY DoneConcat
        <5> QED BY <1>8, <5>1, <5>2
      <4>2. Line' = Line \o Append(Held, m)
        BY <1>8, <1>10, <4>1
      <4> QED BY <1>2, <3>1, <3>3, <4>2 DEF ChannelStep
    <3> QED BY <3>2, <3>3
  <2> QED BY <2>10, <2>11
<1> QED BY <1>11, <1>12

LEMMA TimerStep ==
  ASSUME Inv, Inv', OnTimerExpired
  PROVE  ChannelStep
<1>1. /\ length' = length /\ ring' = ring /\ socket' = socket /\ delivered' = delivered
  BY DEF OnTimerExpired, receiverVars
<1>2. Waits /\ Got' = Got
  <2>1. kind' = kind /\ sent' = sent /\ shuttingDown' = shuttingDown
    BY DEF OnTimerExpired
  <2> QED BY <1>1, <2>1 DEF Waits, Open, Urgent, Got
<1>3. PICK a \in Seq(Byte) : a = aggregated
  BY UnderWayBytes
<1>4. PICK w \in Seq(Byte) : w = UnderWay
  BY UnderWayBytes
<1>5. PICK L : L = length
  OBVIOUS
<1>6. /\ Held = Done(L, a) /\ Line = Done(L, w) /\ Line \in Seq(Names)
      /\ Held' = Done(L, aggregated') /\ Line' = Done(L, UnderWay')
  BY <1>1, <1>3, <1>4, <1>5, Mapping, DoneConcat
<1>7. CASE aggregated = <<>>
  <2>1. aggregated' = aggregated /\ queue' = queue /\ current' = current
    BY <1>7 DEF OnTimerExpired
  <2>2. UnderWay' = UnderWay
    BY <1>1, <2>1 DEF UnderWay
  <2>3. Held' = Held /\ Line' = Line
    BY <1>3, <1>4, <1>6, <2>1, <2>2
  <2> QED BY <1>2, <2>3 DEF ChannelStep
<1>8. CASE aggregated # <<>>
  <2>1. aggregated' = <<>> /\ SendSilKitMsgInternal(<<a>>)
    BY <1>3, <1>8 DEF OnTimerExpired
  <2>2. <<a>> \in Seq(Seq(Byte)) /\ FlattenSeq(<<a>>) = a
    BY OneElement, FlattenOne
  <2>3. UnderWay' = IF shuttingDown THEN w ELSE w \o a
    BY <1>1, <1>4, <2>1, <2>2, SendFlow
  <2>4. Held' = <<>>
    BY <1>6, <2>1, DoneEmpty
  <2>5. CASE shuttingDown
    <3>1. Line' = Line
      BY <1>6, <2>3, <2>5
    <3> QED BY <1>2, <2>4, <2>5, <3>1 DEF ChannelStep
  <2>6. CASE ~shuttingDown
    <3>1. Line' = Line \o Held
      BY <1>6, <2>3, <2>6, DoneConcat
    <3> QED BY <1>2, <2>4, <2>6, <3>1 DEF ChannelStep
  <2> QED BY <2>5, <2>6
<1> QED BY <1>7, <1>8

LEMMA WriteStep ==
  ASSUME Inv, Inv', OnAsyncWriteSomeDone
  PROVE  ChannelStep
<1>1. /\ length' = length /\ ring' = ring /\ delivered' = delivered /\ aggregated' = aggregated
      /\ kind' = kind /\ sent' = sent /\ shuttingDown' = shuttingDown
  BY DEF OnAsyncWriteSomeDone, receiverVars
<1>2. PICK n \in 0..MaxIO :
        /\ n <= Len(current)
        /\ socket' = socket \o SubSeq(current, 1, n)
        /\ IF n < Len(current)
             THEN current' = SubSeq(current, n + 1, Len(current)) /\ UNCHANGED <<queue, sending>>
             ELSE StartAsyncWrite(queue, FALSE)
  BY DEF OnAsyncWriteSomeDone
<1>3. PICK p \in Seq(Byte) : p = Peek(ring, ring.size)
  BY Parts
<1>4. /\ queue \in Seq(Seq(Byte)) /\ socket \in Seq(Byte) /\ current \in Seq(Byte)
  BY Parts, UnderWayBytes
<1>5. n \in 0..Len(current)
  BY <1>2, <1>4, SizesAssumption
<1>6. Moved(p, socket, current, n)
  BY <1>4, <1>5, PartialWrite
<1>7. PICK rest \in Seq(Byte) :
        /\ rest = SubSeq(current, n + 1, Len(current))
        /\ socket' \in Seq(Byte) /\ (p \o socket') \o rest = (p \o socket) \o current
  BY <1>2, <1>6 DEF Moved
<1>8. PICK a \in Seq(Byte) : a = p \o socket'
  BY <1>7, Concatenation
<1>9. UnderWay = (a \o rest) \o FlattenSeq(queue)
  BY <1>3, <1>7, <1>8 DEF UnderWay
<1>10. UnderWay' = (a \o current') \o FlattenSeq(queue')
  BY <1>1, <1>3, <1>8 DEF UnderWay
<1>11. UnderWay' = UnderWay
  <2>1. CASE n < Len(current)
    <3>1. current' = rest /\ queue' = queue
      BY <1>2, <1>7, <2>1
    <3> QED BY <1>9, <1>10, <3>1
  <2>2. CASE ~(n < Len(current))
    <3>1. Len(rest) = 0
      <4>1. n = Len(current) /\ Len(current) \in Nat
        BY <1>4, <1>5, <2>2
      <4> QED BY <1>4, <1>7, <4>1
    <3>2. a \o rest = a
      BY <3>1
    <3>3. StartAsyncWrite(queue, FALSE)
      BY <1>2, <2>2
    <3>4. (a \o current') \o FlattenSeq(queue') = a \o FlattenSeq(queue)
      BY <1>4, <3>3, StartFlow
    <3> QED BY <1>9, <1>10, <3>2, <3>4
  <2> QED BY <2>1, <2>2
<1> QED BY <1>1, <1>11, StayStep

LEMMA ShutdownStep ==
  ASSUME Inv, Inv', Shutdown
  PROVE  ChannelStep
<1>1. /\ length' = length /\ ring' = ring /\ socket' = socket /\ delivered' = delivered
      /\ aggregated' = aggregated /\ queue' = <<>> /\ current' = <<>>
  BY DEF Shutdown, receiverVars
<1>2. ~shuttingDown /\ shuttingDown' = TRUE /\ Urgent' = Urgent /\ sent' = sent /\ Got' = Got
  BY <1>1 DEF Shutdown, Urgent, Got
<1>3. PICK p \in Seq(Byte) : p = Peek(ring, ring.size)
  BY Parts
<1>4. PICK f \in Seq(Byte) : f = FlattenSeq(queue)
  BY UnderWayBytes
<1>5. PICK c \in Seq(Byte) : c = current
  BY Parts
<1>6. PICK a \in Seq(Byte) : a = p \o socket
  BY Parts, Concatenation
<1>7. PICK b \in Seq(Byte) : b = c \o f
  BY Concatenation
<1>8. UnderWay = a \o b
  <2>1. Associates(a, c, f)
    BY Regroup
  <2>2. UnderWay = (a \o c) \o f
    BY <1>3, <1>4, <1>5, <1>6 DEF UnderWay
  <2> QED BY <1>7, <2>1, <2>2 DEF Associates
<1>9. UnderWay' = a
  <2>1. UnderWay' = (a \o <<>>) \o FlattenSeq(<<>>)
    BY <1>1, <1>3, <1>6 DEF UnderWay
  <2>2. a \o <<>> = a
    OBVIOUS
  <2> QED BY <2>1, <2>2, FlattenEmpty
<1>10. PICK L : L = length
  OBVIOUS
<1>11. Held' = Held /\ Line = Done(L, a \o b) /\ Line' = Done(L, a)
  BY <1>1, <1>8, <1>9, <1>10, Mapping
<1>12. PICK x \in Seq(Names) : x = Done(L, a)
  BY DoneConcat
<1>13. PICK y \in Seq(Names) : y = Done(L, b)
  BY DoneConcat
<1>14. Line = x \o y /\ Line' = x
  BY <1>11, <1>12, <1>13, DoneConcat
<1>15. \E n \in 0..Len(Line) : Line' = SubSeq(Line, 1, n)
  <2>1. \E n \in 0..Len(x \o y) : x = SubSeq(x \o y, 1, n)
    BY Beginning
  <2> QED BY <1>14, <2>1
<1> QED BY <1>2, <1>11, <1>15 DEF ChannelStep

LEMMA ReadStep ==
  ASSUME Inv, Inv', OnAsyncReadSomeDone
  PROVE  ChannelStep
<1>1. /\ length' = length /\ delivered' = delivered /\ aggregated' = aggregated
      /\ queue' = queue /\ current' = current
      /\ kind' = kind /\ sent' = sent /\ shuttingDown' = shuttingDown
  BY DEF OnAsyncReadSomeDone, senderVars
<1>2. PICK n \in 1..MaxIO :
        /\ n <= Len(socket) /\ n <= FreeMemoryOne(ring) + FreeMemoryTwo(ring)
        /\ ring' = AdvanceWPos(Fill(ring, SubSeq(socket, 1, n)), n)
        /\ socket' = SubSeq(socket, n + 1, Len(socket))
  BY DEF OnAsyncReadSomeDone
<1>3. PICK p \in Seq(Byte) : p = Peek(ring, ring.size)
  BY Parts
<1>4. /\ Sound(ring) /\ ring.size \in Nat /\ socket \in Seq(Byte) /\ current \in Seq(Byte)
  BY Parts
<1>5. n \in 0..Len(socket) /\ n \in Nat /\ n <= Free(ring)
  BY <1>2, <1>4, SizesAssumption, FreeMemory
<1>6. PICK t : t = SubSeq(socket, 1, n)
  OBVIOUS
<1>7. PICK u : u = SubSeq(socket, n + 1, Len(socket))
  OBVIOUS
<1>8. /\ t \in Seq(Byte) /\ Len(t) = n /\ u \in Seq(Byte)
      /\ ((p \o t) \o u) \o current = (p \o socket) \o current
  BY <1>4, <1>5, <1>6, <1>7, PartialRead
<1>9. PICK r : r = AdvanceWPos(Fill(ring, t), Len(t))
  OBVIOUS
<1>10. Peek(r, r.size) = p \o t
  <2>1. Len(t) <= Free(ring)
    BY <1>5, <1>8
  <2> QED BY <1>3, <1>4, <1>8, <1>9, <2>1, AdvanceWrite
<1>11. ring' = r /\ socket' = u
  BY <1>2, <1>6, <1>7, <1>8, <1>9
<1>12. UnderWay' = UnderWay
  <2>1. UnderWay = ((p \o socket) \o current) \o FlattenSeq(queue)
    BY <1>3 DEF UnderWay
  <2>2. UnderWay' = (((p \o t) \o u) \o current) \o FlattenSeq(queue)
    BY <1>1, <1>10, <1>11 DEF UnderWay
  <2> QED BY <1>8, <2>1, <2>2
<1> QED BY <1>1, <1>12, StayStep

LEMMA DispatchStep ==
  ASSUME Inv, Inv', DispatchMessage
  PROVE  ChannelStep
<1>1. /\ length' = length /\ socket' = socket /\ aggregated' = aggregated
      /\ queue' = queue /\ current' = current /\ msgSize # 0
      /\ kind' = kind /\ sent' = sent /\ shuttingDown' = shuttingDown
  BY DEF DispatchMessage, senderVars
<1>2. PICK p \in Seq(Byte) : p = Peek(ring, ring.size)
  BY Parts
<1>3. PICK L : L = length
  OBVIOUS
<1>4. PICK m : m = p[1][1]
  OBVIOUS
<1>5. /\ Sound(ring) /\ ring.size \in Nat /\ Len(p) = ring.size
      /\ socket \in Seq(Byte) /\ current \in Seq(Byte) /\ queue \in Seq(Seq(Byte))
      /\ msgSize \in Nat /\ msgSize = L[m]
  BY <1>1, <1>2, <1>3, <1>4, Parts, UnderWayBytes DEF Incoming
<1>6. PICK r : r = ring'
  OBVIOUS
<1>7. CASE ring.size < msgSize
  <2>1. r = Reserve(ring, msgSize) /\ delivered' = delivered
    BY <1>6, <1>7 DEF DispatchMessage
  <2>2. Peek(r, r.size) = p
    BY <1>2, <1>5, <2>1, ReserveBytes
  <2>3. UnderWay' = UnderWay
    BY <1>1, <1>2, <1>6, <2>2 DEF UnderWay
  <2> QED BY <1>1, <2>1, <2>3, StayStep
<1>8. CASE ~(ring.size < msgSize)
  <2>1. delivered' = Append(delivered, Peek(ring, msgSize)) /\ r = AdvanceRPos(ring, msgSize)
    BY <1>6, <1>8 DEF DispatchMessage
  <2>2. PICK n \in Nat : n = msgSize
    BY <1>5
  <2>3. n <= ring.size /\ n > 0 /\ m = Peek(ring, ring.size)[1][1] /\ n <= length[m] /\ n = length[m]
    BY <1>1, <1>2, <1>3, <1>4, <1>5, <1>8, <2>2
  <2>4. m \in Messages /\ Peek(ring, n) = SubSeq(Blob(m), 1, n)
        /\ \A i \in 1..n : p[i] = <<m, i>>
    BY <1>2, <2>3, FirstInRing
  <2>5. PICK b \in Seq(Byte) : b = Blob(m) /\ Done(length, b) = <<m>>
    BY <2>4, DoneBlob
  <2>6. b = [i \in 1..n |-> <<m, i>>]
    BY <2>3, <2>5 DEF Blob
  <2>7. Len(b) = n /\ b[1][1] = m /\ \A i \in 1..n : b[i] = <<m, i>>
    <3>1. \A i \in 1..n : b[i] = <<m, i>>
      BY <2>6
    <3>2. b[1][1] = m
      BY <2>3, <3>1
    <3>3. b \in [1..n -> Byte]
      BY <2>4, <2>6 DEF Byte
    <3> QED BY <3>1, <3>2, <3>3, TableIsSequence
  <2>8. n \in 0..Len(p) /\ n \in 0..ring.size
    BY <1>5, <2>3
  <2>9. PICK u \in Seq(Byte) : u = SubSeq(p, n + 1, Len(p))
    BY <2>8, Cut
  <2>10. p = b \o u
    <3>1. PICK t : t = SubSeq(p, 1, n)
      OBVIOUS
    <3>2. t \in Seq(Byte) /\ Len(t) = n /\ t \o u = p
      BY <2>8, <2>9, <3>1, Cut
    <3>3. \A i \in 1..n : t[i] = p[i]
      BY <3>2, Concatenation
    <3>4. t = b
      BY <2>4, <2>7, <3>2, <3>3, SameBytes
    <3> QED BY <3>2, <3>4
  <2>11. Peek(r, r.size) = u
    BY <1>2, <1>5, <2>1, <2>2, <2>8, <2>9, AdvanceRead
  <2>12. PICK f \in Seq(Byte) : f = FlattenSeq(queue)
    BY UnderWayBytes
  <2>13. PICK v \in Seq(Byte) : v = (u \o socket) \o current
    <3>1. PICK y \in Seq(Byte) : y = u \o socket
      BY <1>5, Concatenation
    <3>2. y \o current \in Seq(Byte)
      BY <1>5, Concatenation
    <3> QED BY <3>1, <3>2
  <2>14. PICK w \in Seq(Byte) : w = v \o f
    BY Concatenation
  <2>15. UnderWay' = w
    BY <1>1, <1>6, <2>11, <2>12, <2>13, <2>14 DEF UnderWay
  <2>16. UnderWay = b \o w
    <3>1. Regrouped(b, u, socket, current)
      BY <1>5, RegroupTwice
    <3>2. (p \o socket) \o current = b \o v
      BY <2>10, <2>13, <3>1 DEF Regrouped
    <3>3. Associates(b, v, f)
      BY Regroup
    <3>4. UnderWay = (b \o v) \o f
      BY <1>2, <2>12, <3>2 DEF UnderWay
    <3> QED BY <2>14, <3>3, <3>4 DEF Associates
  <2>17. Held' = Held /\ Line = Done(L, b \o w) /\ Line' = Done(L, w)
    BY <1>1, <1>3, <2>15, <2>16, Mapping
  <2>18. PICK x \in Seq(Names) : x = Done(L, w)
    BY DoneConcat
  <2>19. Line = <<m>> \o x /\ Line' = x
    <3>1. Done(L, b \o w) = Done(L, b) \o Done(L, w)
      BY DoneConcat
    <3> QED BY <1>3, <2>5, <2>17, <2>18, <3>1
  <2>20. m \in Names
    BY <2>4, MessageNames
  <2>21. Line # <<>> /\ Head(Line) = m /\ Tail(Line) = x
    BY <2>19, <2>20
  <2>22. Got' = Append(Got, m)
    <3>1. PICK d \in Seq(Seq(Byte)) : d = delivered
      BY Parts DEF Delivered
    <3>2. SubSeq(b, 1, n) = b
      BY <2>7
    <3>3. delivered' = Append(d, b)
      BY <2>1, <2>2, <2>4, <2>5, <3>1, <3>2
    <3>4. PICK e : e = Append(d, b)
      OBVIOUS
    <3>5. /\ Len(e) = Len(d) + 1 /\ Len(d) \in Nat
          /\ \A i \in 1..Len(d) : e[i] = d[i]
          /\ e[Len(d) + 1] = b
      BY <3>4
    <3>6. Got' = [i \in 1..(Len(d) + 1) |-> e[i][1][1]] /\ Got = [i \in 1..Len(d) |-> d[i][1][1]]
      BY <3>1, <3>3, <3>4, <3>5 DEF Got
    <3>7. PICK k \in Nat : k = Len(d)
      BY <3>5
    <3>8. (\A i \in 1..k : e[i] = d[i]) /\ e[k + 1][1][1] = m
      BY <2>7, <3>5, <3>7
    <3>9. Got' = [i \in 1..(k + 1) |-> e[i][1][1]] /\ Got = [i \in 1..k |-> d[i][1][1]]
      BY <3>6, <3>7
    <3>10. PICK s : s = Got
      OBVIOUS
    <3>11. PICK t : t = Got'
      OBVIOUS
    <3>12. PICK S : S = {e[i][1][1] : i \in 1..(k + 1)}
      OBVIOUS
    <3>13. t \in [1..(k + 1) -> S] /\ \A i \in 1..(k + 1) : t[i] = e[i][1][1]
      BY <3>9, <3>11, <3>12
    <3>14. s \in [1..k -> S] /\ \A i \in 1..k : s[i] = t[i]
      <4>1. \A i \in 1..k : i \in 1..(k + 1) /\ d[i][1][1] = e[i][1][1]
        <5>1. \A i \in 1..k : i \in 1..(k + 1)
          OBVIOUS
        <5>2. \A i \in 1..k : d[i] = e[i]
          BY <3>8
        <5> QED BY <5>1, <5>2
      <4>2. \A i \in 1..k : s[i] = e[i][1][1] /\ s[i] = t[i]
        BY <3>9, <3>10, <3>13, <4>1
      <4>3. s = [i \in 1..k |-> s[i]]
        BY <3>9, <3>10
      <4> QED BY <3>12, <4>1, <4>2, <4>3
    <3>15. s \in Seq(S) /\ Len(s) = k /\ t \in Seq(S) /\ Len(t) = k + 1
      <4>1. k + 1 \in Nat
        OBVIOUS
      <4> QED BY <3>13, <3>14, <4>1, TableIsSequence
    <3>16. t[k + 1] = m
      BY <3>8, <3>13
    <3>17. t = Append(s, m)
      BY <3>14, <3>15, <3>16, Extended
    <3> QED BY <3>10, <3>11, <3>17
  <2>23. Waits
    BY <1>1 DEF Waits, Open, Urgent
  <2> QED BY <2>17, <2>19, <2>21, <2>22, <2>23 DEF ChannelStep
<1> QED BY <1>5, <1>7, <1>8

LEMMA QuietStep ==
  ASSUME Inv, Inv', EnableAggregation \/ ReadSize \/ UNCHANGED vars
  PROVE  ChannelStep
<1>1. /\ length' = length /\ aggregated' = aggregated /\ delivered' = delivered
      /\ ring' = ring /\ socket' = socket /\ current' = current /\ queue' = queue
      /\ kind' = kind /\ sent' = sent /\ shuttingDown' = shuttingDown
  BY DEF EnableAggregation, ReadSize, vars, senderVars, receiverVars
<1>2. UnderWay' = UnderWay
  BY <1>1 DEF UnderWay
<1> QED BY <1>1, <1>2, StayStep

LEMMA EmptyAtFirst ==
  ASSUME Init
  PROVE  Held = <<>> /\ Line = <<>> /\ Got = <<>>
<1>1. Inv
  BY InitInv
<1>2. aggregated = <<>> /\ queue = <<>> /\ current = <<>> /\ socket = <<>> /\ delivered = <<>>
  BY DEF Init
<1>3. Completed = CHOOSE x : CompletedBy(length, x)
  BY DEF Completed, CompletedBy
<1>4. PICK f : f = Completed
  OBVIOUS
<1>5. PICK L : L = length
  OBVIOUS
<1>6. \A s \in Seq(Byte) : f[s] = Done(L, s)
  BY <1>3, <1>4, <1>5, CompletedIs
<1>7. f[<<>>] = <<>>
  <2>1. PICK s : s = <<>>
    OBVIOUS
  <2>2. s \in Seq(Byte)
    BY <2>1
  <2>3. f[s] = Done(L, s)
    BY <1>6, <2>2
  <2>4. Done(L, <<>>) = <<>>
    BY DoneEmpty
  <2> QED BY <2>1, <2>3, <2>4
<1>8. UnderWay = <<>>
  <2>1. PICK p : p = Peek(ring, ring.size)
    OBVIOUS
  <2>2. p \in Seq(Byte) /\ Len(p) = ring.size
    BY <1>1, <2>1, Parts
  <2>3. ring.size = 0
    BY DEF Init
  <2>4. p = <<>>
    BY <2>2, <2>3, NoElements
  <2>5. UnderWay = ((<<>> \o <<>>) \o <<>>) \o <<>>
    BY <1>2, <2>1, <2>4, FlattenEmpty DEF UnderWay
  <2>6. <<>> \o <<>> = <<>>
    OBVIOUS
  <2> QED BY <2>5, <2>6
<1>9. Got = <<>>
  BY <1>2 DEF Got
<1> QED BY <1>2, <1>4, <1>7, <1>8, <1>9 DEF Held, Line

-----------------------------------------------------------------------------
(* The theorems. *)

(* Every variable of the two peers keeps its type. *)
THEOREM TypeCorrect == Spec => []TypeOK
BY InvHolds, InvImplies, PTL

(* The positions of the ring buffer stay consistent through wrap-around,   *)
(* partial reads and growth, for messages of any length, and whenever the  *)
(* receiver waits for data there is room for some: the assertion in        *)
(* ReadSomeAsync never fails, and no connection stalls on a full buffer.   *)
THEOREM RingStaysSound == Spec => []RingIsSound
BY InvHolds, InvImplies, PTL

(* Every message that reaches OnSocketData is one message of the sender,   *)
(* whole: aggregation, partial writes and reads, wrap-around, growth and   *)
(* shutting down in the middle of a write never make the receiver cut the  *)
(* stream in the wrong place.                                              *)
THEOREM DeliversWhole == Spec => []DeliveredWhole
BY InvHolds, InvImplies, PTL

(* One direction of a connection implements a channel of whole messages,   *)
(* for messages of any lengths, buffers of any sizes and any way in which  *)
(* writes and reads are cut.  Until the sender shuts down, every message   *)
(* handed over is held back, under way or delivered, in that order and     *)
(* once; only messages that are never aggregated go ahead of those held    *)
(* back by aggregation, however flushes, the size threshold and the timer  *)
(* fall.  Shutting down loses a suffix of what is under way, and nothing   *)
(* is put on the line after it.                                            *)
THEOREM RefinesChannel == Spec => ImplementsChannel
<1>1. Init => Abstract!Init
  <2>1. ASSUME Init PROVE sent = 0 /\ shuttingDown = FALSE /\ Urgent \in SUBSET Messages
    BY <2>1 DEF Init, Urgent
  <2> QED BY <2>1, EmptyAtFirst DEF Abstract!Init, Held, Line, Got, Urgent
<1>2. ASSUME Inv, Inv', Enabled, [Next]_vars
      PROVE  [Abstract!Next]_<<Urgent, sent, shuttingDown, Held, Line, Got>>
  <2>1. ChannelStep
    <3>1. CASE \E m \in Messages : SendSilKitMsg(m)
      BY <1>2, <3>1, SendStep
    <3>2. CASE OnTimerExpired
      BY <1>2, <3>2, TimerStep
    <3>3. CASE OnAsyncWriteSomeDone
      BY <1>2, <3>3, WriteStep
    <3>4. CASE Shutdown
      BY <1>2, <3>4, ShutdownStep
    <3>5. CASE OnAsyncReadSomeDone
      BY <1>2, <3>5, ReadStep
    <3>6. CASE DispatchMessage
      BY <1>2, <3>6, DispatchStep
    <3>7. CASE EnableAggregation \/ ReadSize \/ UNCHANGED vars
      BY <1>2, <3>7, QuietStep
    <3> QED BY <1>2, <3>1, <3>2, <3>3, <3>4, <3>5, <3>6, <3>7 DEF Next, Sender, Receiver
  <2> QED BY <2>1, StepOfChannel
<1>3. ASSUME Inv, Inv', Enabled, [Next]_vars PROVE [Abstract!Next]_(Abstract!channelVars)
  BY <1>2, <1>3 DEF Urgent, Held, Line, Got, Abstract!channelVars
<1> QED BY <1>1, <1>3, InvHolds, EnabledHolds, PTL DEF Spec, ImplementsChannel, Abstract!Spec

=============================================================================
