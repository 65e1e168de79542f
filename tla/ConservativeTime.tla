-------------------------- MODULE ConservativeTime --------------------------
(***************************************************************************)
(* What virtual time promises to a group of participants, without any      *)
(* message: a step at time T starts only when no member of the group can   *)
(* still act at a time before T, and the time of each member increases.    *)
(***************************************************************************)
EXTENDS Integers

CONSTANTS Group

VARIABLES
  time,   \* time[p]: when p's last step took place, -1 before the first
  floor,  \* floor[p]: the earliest time p may still act at
  busy,   \* the members in the middle of a step
  left    \* the members that have left the group

cvars == <<time, floor, busy, left>>

CInit ==
  /\ time = [p \in Group |-> -1]
  /\ floor = [p \in Group |-> 0]
  /\ busy = {}
  /\ left = {}

Begin(p) ==
  /\ p \in Group \ (busy \cup left)
  /\ \A q \in Group \ left : floor[p] <= floor[q]
  /\ time' = [time EXCEPT ![p] = floor[p]]
  /\ busy' = busy \cup {p}
  /\ UNCHANGED <<floor, left>>

(* The step ends and promises a later time for the next one. *)
End(p) ==
  /\ p \in busy
  /\ floor'[p] \in Nat /\ floor'[p] > time[p]
  /\ floor' = [floor EXCEPT ![p] = floor'[p]]
  /\ busy' = busy \ {p}
  /\ UNCHANGED <<time, left>>

Quit(p) ==
  /\ p \in Group \ left
  /\ left' = left \cup {p}
  /\ UNCHANGED <<time, floor, busy>>

CNext == \E p \in Group : Begin(p) \/ End(p) \/ Quit(p)

CSpec == CInit /\ [][CNext]_cvars
=============================================================================
