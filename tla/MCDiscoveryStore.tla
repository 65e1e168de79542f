-------------------------- MODULE MCDiscoveryStore --------------------------
(* Instances of DiscoveryStore for TLC. *)
EXTENDS DiscoveryStore, TLC

CONSTANTS s1, s2, s3, h1, h2

M(k, v) == [key |-> k, value |-> v, kind |-> "Mandatory"]
O(k, v) == [key |-> k, value |-> v, kind |-> "Optional"]

(* One and two labels of both kinds, in both orders, with two values. *)
ShortLists ==
  {<<>>, <<M("A", 1)>>, <<O("A", 2)>>, <<M("B", 1), M("A", 1)>>, <<M("A", 1), O("B", 1)>>}
(* Optional labels only. *)
OptionalLists == {<<O("A", 1)>>, <<O("B", 1)>>}

Symmetry == Permutations(Services) \cup Permutations(Handlers)

=============================================================================
