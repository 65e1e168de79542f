----------------------------- MODULE MCJoining -----------------------------
(* Instances of Joining for TLC. *)
EXTENDS Joining

CONSTANTS pa, pb, pc

OwnNames == [p \in Procs |-> IF p = pa THEN "A" ELSE IF p = pb THEN "B" ELSE "C"]
All == [p \in Procs |-> Capabilities]
Scenario(present, joining, c_caps) ==
  [present |-> present, joining |-> joining, caps |-> [All EXCEPT ![pc] = c_caps]]
Joins ==
  { Scenario({pb, pc}, {pa}, {"ProxyMessage"}),
    Scenario({}, {pa, pc}, {}),
    Scenario({}, {pa, pc}, Capabilities),
    Scenario({pc}, {pa}, {"RequestParticipantConnection"}) }
SecondOfAName == {[present |-> {pa}, joining |-> {pb, pc}, caps |-> All]}
SameNames == [p \in Procs |-> "A"]

=============================================================================
