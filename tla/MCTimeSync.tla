----------------------------- MODULE MCTimeSync -----------------------------
(* Instances of TimeSync for TLC. *)
EXTENDS TimeSync

CONSTANTS a, b, c

UnitSizes == [p \in Participants |-> {1}]
SlowSizes == [p \in Participants |-> IF p = a THEN {2} ELSE {1}]
FreeSizes == [p \in Participants |-> IF p = a THEN {1, 2} ELSE {1}]

=============================================================================
