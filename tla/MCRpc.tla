------------------------------- MODULE MCRpc -------------------------------
(* Instances of Rpc for TLC. *)
EXTENDS Rpc

CONSTANTS s1, s2, c1, c2

=============================================================================
