---------------------------- MODULE MCTransport ----------------------------
(* Instances of Transport for TLC. *)
EXTENDS Transport

ShortAndLong == {3, 5}

=============================================================================
