------------------------------ MODULE Channel ------------------------------
(***************************************************************************)
(* What one direction of a connection between two participants promises.   *)
(*                                                                         *)
(* The sender hands over its messages one after the other.  A message that *)
(* may be aggregated is held back or put on the line, but never ahead of   *)
(* what is held back; the urgent ones go ahead of it.  What is on the line *)
(* is delivered in its order, each message whole and once.                 *)
(*                                                                         *)
(* As long as the connection is open nothing is lost.  When it is closed,  *)
(* a suffix of what is on the line is lost; nothing is put on the line     *)
(* from then on, and what is held back may be discarded.                   *)
(***************************************************************************)
EXTENDS Integers, Sequences

CONSTANT Messages  \* numbered in the order in which the sender hands them over

VARIABLES
  urgent,    \* the messages that are not held back
  accepted,  \* the last message handed over
  closed,    \* the sender has closed the connection
  held,      \* messages held back for aggregation, the oldest first
  line,      \* messages under way, the oldest first
  delivered  \* messages handed to the receiver, the oldest first

channelVars == <<urgent, accepted, closed, held, line, delivered>>

Init ==
  /\ urgent \in SUBSET Messages
  /\ accepted = 0 /\ closed = FALSE
  /\ held = <<>> /\ line = <<>> /\ delivered = <<>>

Accept(m) == m = accepted + 1 /\ accepted' = m /\ UNCHANGED <<urgent, closed, delivered>>

Hold(m) ==
  /\ Accept(m) /\ m \notin urgent
  /\ held' = Append(held, m) /\ UNCHANGED line

Put(m) ==
  /\ Accept(m) /\ ~closed
  /\ m \in urgent \/ held = <<>>
  /\ line' = Append(line, m) /\ UNCHANGED held

HoldAndFlush(m) ==
  /\ Accept(m) /\ ~closed /\ m \notin urgent
  /\ line' = line \o Append(held, m) /\ held' = <<>>

Flush ==
  /\ ~closed
  /\ line' = line \o held /\ held' = <<>>
  /\ UNCHANGED <<urgent, accepted, closed, delivered>>

Deliver ==
  /\ line # <<>>
  /\ delivered' = Append(delivered, Head(line))
  /\ line' = Tail(line)
  /\ UNCHANGED <<urgent, accepted, closed, held>>

Close ==
  /\ ~closed /\ closed' = TRUE
  /\ \E n \in 0..Len(line) : line' = SubSeq(line, 1, n)
  /\ UNCHANGED <<urgent, accepted, held, delivered>>

(* A message handed over after the connection was closed. *)
Refuse(m) ==
  /\ Accept(m) /\ closed
  /\ held' \in {held, <<>>} /\ UNCHANGED line

Discard ==
  /\ closed
  /\ held' = <<>>
  /\ UNCHANGED <<urgent, accepted, closed, line, delivered>>

Next ==
  \/ \E m \in Messages : Hold(m) \/ Put(m) \/ HoldAndFlush(m) \/ Refuse(m)
  \/ Flush \/ Deliver \/ Close \/ Discard

Spec == Init /\ [][Next]_channelVars

=============================================================================
