------------------------------- MODULE MCLin -------------------------------
(* Instances of Lin for TLC. *)
EXTENDS Lin

CONSTANTS lm, ls, lt

R(md, form) == [id \in Ids |-> [mode |-> md, form |-> form]]

(* Slave lt responds, if it is not dynamic; slave ls may become a second   *)
(* responder, and the master a receiver or a third one, by                 *)
(* SetFrameResponse.                                                       *)
SomeConfigs ==
  [c \in Controllers |-> IF c = lt THEN {R("TxUnconditional", "f")} ELSE {NoResponses}]
SomeSettings == {R("TxUnconditional", "f"), R("Rx", "f")}

=============================================================================
