----------------------------- MODULE Transport -----------------------------
(***************************************************************************)
(* One direction of the connection between two participants: the sending   *)
(* side of one VAsioPeer and the receiving side of its counterpart, with   *)
(* the byte stream between them.                                           *)
(*                                                                         *)
(* The sender may aggregate user data into one write, flushed by certain   *)
(* messages, a size threshold or a timer.  Writes are partial.  The        *)
(* receiver collects the bytes in a RingBuffer and cuts the stream into    *)
(* messages by the size at the start of each.                              *)
(*                                                                         *)
(* All steps of a side run on its IO thread.  A byte is modelled as <<m,   *)
(* k>>, the k-th byte of message m; the size field is its first HeaderSize *)
(* bytes.                                                                  *)
(***************************************************************************)
EXTENDS Integers, Sequences, SequencesExt

CONSTANTS
  NumMessages,      \* bound: messages sent
  Lengths,          \* the lengths they may have
  HeaderSize,       \* sizeof(uint32_t), scaled
  InitialCapacity,  \* of the ring buffer, scaled
  Threshold,        \* _aggregationBufferThreshold, scaled
  SocketSize,       \* bound: bytes the operating system buffers
  MaxIO             \* bound: bytes moved by one write or read

ASSUME SizesAssumption ==
  /\ NumMessages \in Nat /\ HeaderSize \in Nat \ {0}
  /\ Lengths \subseteq Nat /\ \A n \in Lengths : n > HeaderSize
  /\ InitialCapacity \in Nat /\ InitialCapacity >= HeaderSize
  /\ Threshold \in Nat
  /\ SocketSize \in Nat \ {0} /\ MaxIO \in Nat \ {0}

(* Messages are numbered in the order in which they are sent. *)
Messages == 1..NumMessages
Kinds == {"UserData", "Flush", "Other"}

VARIABLES
  kind,           \* kind[m]: MessageAggregationKind
  length,         \* length[m]: bytes of m on the wire, size field included
  sent,           \* the number of messages sent
  useAggregation, \* _useAggregation
  aggregated,     \* _aggregatedMessages
  timer,          \* _flushTimer is running
  timerStarted,   \* _initialTimerStarted
  shuttingDown,   \* _isShuttingDown of the sender
  queue,          \* _sendingQueue
  sending,        \* _sending
  current,        \* what is left of _currentSendingBuffer
  socket,         \* bytes written and not yet read
  ring,           \* _msgBuffer: [buffer, rPos, wPos, size]
  msgSize,        \* _currentMsgSize
  dispatching,    \* the receiver is inside DispatchBuffer
  delivered       \* messages given to OnSocketData, in order

senderVars == <<useAggregation, aggregated, timer, timerStarted, shuttingDown, queue, sending,
                current, sent>>
receiverVars == <<ring, msgSize, dispatching, delivered>>
vars == <<kind, length, senderVars, socket, receiverVars>>

Blob(m) == [k \in 1..length[m] |-> <<m, k>>]

-----------------------------------------------------------------------------
(* The ring buffer. *)

NoByte == <<>>
Capacity(r) == Len(r.buffer)
Free(r) == Capacity(r) - r.size

(* The piece behind the wrap-around is forgotten. *)
PeekOnePiece(r, n) ==
  LET one == IF Capacity(r) - r.rPos < n THEN Capacity(r) - r.rPos ELSE n
  IN  SubSeq(r.buffer, r.rPos + 1, r.rPos + one)

(* The n bytes from the read position on, in two contiguous pieces.        *)
Peek(r, n) ==
  LET one == IF Capacity(r) - r.rPos < n THEN Capacity(r) - r.rPos ELSE n
  IN  SubSeq(r.buffer, r.rPos + 1, r.rPos + one) \o SubSeq(r.buffer, 1, n - one)

AdvanceRPos(r, n) == [r EXCEPT !.rPos = (@ + n) % Capacity(r), !.size = @ - n]
AdvanceWPos(r, n) == [r EXCEPT !.wPos = (@ + n) % Capacity(r), !.size = @ + n]

(* The sizes of the two pieces of free memory; the first starts at wPos,   *)
(* the second at 0.                                                        *)
FreeMemoryOne(r) ==
  IF r.size = 0 \/ Capacity(r) - r.wPos < Free(r) THEN Capacity(r) - r.wPos ELSE Free(r)
FreeMemoryTwo(r) ==
  IF r.size = 0 THEN r.wPos ELSE Free(r) - FreeMemoryOne(r)

(* The stream fills the pieces in this order. *)
Fill(r, bytes) ==
  LET one == FreeMemoryOne(r)
      At(i) == IF i > r.wPos /\ i <= r.wPos + one /\ i - r.wPos <= Len(bytes) THEN bytes[i - r.wPos]
               ELSE IF i <= FreeMemoryTwo(r) /\ i + one <= Len(bytes) THEN bytes[i + one]
               ELSE r.buffer[i]
  IN  [r EXCEPT !.buffer = [i \in 1..Capacity(r) |-> At(i)]]

(* The write position survives the growth. *)
ReserveKeepsWPos(r, n) ==
  IF n <= Capacity(r) THEN r
  ELSE [buffer |-> Peek(r, r.size) \o [i \in 1..(n - r.size) |-> NoByte],
        rPos |-> 0, wPos |-> r.wPos, size |-> r.size]

Reserve(r, n) ==
  IF n <= Capacity(r) THEN r
  ELSE [buffer |-> Peek(r, r.size) \o [i \in 1..(n - r.size) |-> NoByte],
        rPos |-> 0, wPos |-> r.size, size |-> r.size]

-----------------------------------------------------------------------------
Init ==
  /\ kind \in [Messages -> Kinds]
  /\ length \in [Messages -> Lengths]
  /\ sent = 0
  /\ useAggregation = FALSE
  /\ aggregated = <<>> /\ timer = FALSE /\ timerStarted = FALSE
  /\ shuttingDown = FALSE
  /\ queue = <<>> /\ sending = FALSE /\ current = <<>>
  /\ socket = <<>>
  /\ ring = [buffer |-> [i \in 1..InitialCapacity |-> NoByte], rPos |-> 0, wPos |-> 0, size |-> 0]
  /\ msgSize = 0 /\ dispatching = FALSE
  /\ delivered = <<>>

-----------------------------------------------------------------------------
(* The sender. *)

(* StartAsyncWrite, given the queue and whether a write is under way.      *)
StartAsyncWrite(q, busy) ==
  IF busy
    THEN queue' = q /\ UNCHANGED <<sending, current>>
    ELSE IF q = <<>>
      THEN queue' = q /\ sending' = FALSE /\ current' = <<>>
      ELSE queue' = Tail(q) /\ sending' = TRUE /\ current' = Head(q)

(* SendSilKitMsgInternal, for the blobs of one call of SendSilKitMsg; the  *)
(* write starts with the first one.                                        *)
SendSilKitMsgInternal(blobs) ==
  IF shuttingDown THEN UNCHANGED <<queue, sending, current>>
                  ELSE StartAsyncWrite(queue \o blobs, sending)

(* The message that flushes goes ahead of what it flushes. *)
AggregateOvertaken(m) ==
  /\ aggregated' = IF kind[m] = "Flush" THEN <<>> ELSE aggregated \o Blob(m)
  /\ timer' = (timer \/ ~timerStarted \/ kind[m] = "Flush")
  /\ timerStarted' = TRUE
  /\ SendSilKitMsgInternal(IF kind[m] = "Flush" THEN <<Blob(m), aggregated>> ELSE <<>>)

(* Aggregate: the initial timer, and a flush when the buffer is too large. *)
(* After a message that flushes, Flush is called once more.                *)
Aggregate(m) ==
  LET bytes == aggregated \o Blob(m)
      full == Len(bytes) > Threshold
      blobs == (IF full THEN <<bytes>> ELSE <<>>)
               \o (IF kind[m] = "Flush" THEN <<IF full THEN <<>> ELSE bytes>> ELSE <<>>)
  IN  /\ aggregated' = IF blobs = <<>> THEN bytes ELSE <<>>
      /\ timer' = (timer \/ ~timerStarted \/ blobs # <<>>)
      /\ timerStarted' = TRUE
      /\ SendSilKitMsgInternal(blobs)

SendSilKitMsg(m) ==
  /\ m = sent + 1
  /\ sent' = m
  /\ IF useAggregation /\ kind[m] # "Other"
       THEN Aggregate(m)
       ELSE SendSilKitMsgInternal(<<Blob(m)>>) /\ UNCHANGED <<aggregated, timer, timerStarted>>
  /\ UNCHANGED <<kind, length, useAggregation, shuttingDown, socket, receiverVars>>

EnableAggregation ==
  /\ useAggregation' = TRUE
  /\ UNCHANGED <<kind, length, aggregated, timer, timerStarted, shuttingDown, queue, sending,
                 current, sent, socket, receiverVars>>

OnTimerExpired ==
  /\ timer
  /\ IF aggregated = <<>>
       THEN timer' = FALSE /\ UNCHANGED <<aggregated, queue, sending, current>>
       ELSE timer' = TRUE /\ aggregated' = <<>> /\ SendSilKitMsgInternal(<<aggregated>>)
  /\ UNCHANGED <<kind, length, useAggregation, timerStarted, shuttingDown, sent, socket,
                 receiverVars>>

(* The completed write is not followed by the next one. *)
WriteDoneAndIdle ==
  /\ sending /\ ~shuttingDown
  /\ \E n \in 1..MaxIO :
       /\ n <= Len(current) /\ n + Len(socket) <= SocketSize
       /\ socket' = socket \o SubSeq(current, 1, n)
       /\ current' = SubSeq(current, n + 1, Len(current))
       /\ sending' = (n < Len(current))
  /\ UNCHANGED <<kind, length, useAggregation, aggregated, timer, timerStarted, shuttingDown,
                 queue, sent, receiverVars>>

(* The operating system takes n bytes of the current buffer; then          *)
(* OnAsyncWriteSomeDone.  An empty buffer is written at once.              *)
OnAsyncWriteSomeDone ==
  /\ sending /\ ~shuttingDown
  /\ \E n \in 0..MaxIO :
       /\ n <= Len(current) /\ n + Len(socket) <= SocketSize
       /\ n = 0 => current = <<>>
       /\ socket' = socket \o SubSeq(current, 1, n)
       /\ IF n < Len(current)
            THEN current' = SubSeq(current, n + 1, Len(current)) /\ UNCHANGED <<queue, sending>>
            ELSE StartAsyncWrite(queue, FALSE)
  /\ UNCHANGED <<kind, length, useAggregation, aggregated, timer, timerStarted, shuttingDown,
                 sent, receiverVars>>

(* Shutdown: the queue is cleared, the write under way abandoned.          *)
Shutdown ==
  /\ ~shuttingDown
  /\ shuttingDown' = TRUE
  /\ queue' = <<>> /\ current' = <<>> /\ timer' = FALSE
  /\ UNCHANGED <<kind, length, useAggregation, aggregated, timerStarted, sending, sent, socket,
                 receiverVars>>

-----------------------------------------------------------------------------
(* The receiver. *)

(* ReadSomeAsync has offered the free memory; n bytes arrive, then         *)
(* OnAsyncReadSomeDone.                                                    *)
OnAsyncReadSomeDone ==
  /\ ~dispatching
  /\ socket # <<>>
  /\ \E n \in 1..MaxIO :
       /\ n <= Len(socket) /\ n <= FreeMemoryOne(ring) + FreeMemoryTwo(ring)
       /\ ring' = AdvanceWPos(Fill(ring, SubSeq(socket, 1, n)), n)
       /\ socket' = SubSeq(socket, n + 1, Len(socket))
  /\ dispatching' = TRUE
  /\ UNCHANGED <<kind, length, senderVars, msgSize, delivered>>

(* The size field of the message that starts with these bytes; 0 stands    *)
(* for whatever other bytes would be taken for a size.                     *)
SizeIn(bytes) ==
  LET m == bytes[1][1]
  IN  IF bytes = SubSeq(Blob(m), 1, HeaderSize) THEN length[m] ELSE 0

(* DispatchBuffer, first part: determine the message size.                 *)
ReadSize ==
  /\ dispatching /\ msgSize = 0
  /\ IF ring.size >= HeaderSize
       THEN msgSize' = SizeIn(Peek(ring, HeaderSize)) /\ UNCHANGED dispatching
       ELSE dispatching' = FALSE /\ UNCHANGED msgSize
  /\ UNCHANGED <<kind, length, senderVars, socket, ring, delivered>>

(* A message is delivered one byte too early. *)
DispatchMessageEarly ==
  /\ dispatching /\ msgSize # 0
  /\ IF ring.size + 1 < msgSize
       THEN /\ ring' = Reserve(ring, msgSize)
            /\ dispatching' = FALSE
            /\ UNCHANGED <<msgSize, delivered>>
       ELSE /\ delivered' = Append(delivered, Peek(ring, msgSize))
            /\ ring' = AdvanceRPos(ring, msgSize)
            /\ msgSize' = 0
            /\ UNCHANGED dispatching
  /\ UNCHANGED <<kind, length, senderVars, socket>>

(* Second part: wait for the rest, in a buffer large enough for it, or     *)
(* deliver the message and start over.                                     *)
DispatchMessage ==
  /\ dispatching /\ msgSize # 0
  /\ IF ring.size < msgSize
       THEN /\ ring' = Reserve(ring, msgSize)
            /\ dispatching' = FALSE
            /\ UNCHANGED <<msgSize, delivered>>
       ELSE /\ delivered' = Append(delivered, Peek(ring, msgSize))
            /\ ring' = AdvanceRPos(ring, msgSize)
            /\ msgSize' = 0
            /\ UNCHANGED dispatching
  /\ UNCHANGED <<kind, length, senderVars, socket>>

-----------------------------------------------------------------------------
Sender ==
  \/ \E m \in Messages : SendSilKitMsg(m)
  \/ EnableAggregation \/ OnTimerExpired \/ OnAsyncWriteSomeDone \/ Shutdown

Receiver == OnAsyncReadSomeDone \/ ReadSize \/ DispatchMessage

Next == Sender \/ Receiver

Spec == Init /\ [][Next]_vars

(* The operating system completes writes and reads, running timers expire, *)
(* and the receiver's IO thread goes on.                                   *)
Fairness ==
  /\ WF_vars(OnAsyncWriteSomeDone)
  /\ WF_vars(OnTimerExpired)
  /\ WF_vars(Receiver)

FairSpec == Spec /\ Fairness

-----------------------------------------------------------------------------
Byte == {NoByte} \cup (Messages \X Nat)

(* Every variable keeps its type. *)
TypeOK ==
  /\ kind \in [Messages -> Kinds] /\ length \in [Messages -> Lengths]
  /\ sent \in 0..NumMessages
  /\ useAggregation \in BOOLEAN /\ timer \in BOOLEAN /\ timerStarted \in BOOLEAN
  /\ shuttingDown \in BOOLEAN /\ sending \in BOOLEAN /\ dispatching \in BOOLEAN
  /\ aggregated \in Seq(Byte) /\ current \in Seq(Byte) /\ socket \in Seq(Byte)
  /\ queue \in Seq(Seq(Byte))
  /\ ring \in [buffer : Seq(Byte), rPos : Nat, wPos : Nat, size : Nat]
  /\ msgSize \in Nat
  /\ delivered \in Seq(Seq(Byte))

(* The positions of the ring buffer stay consistent through wrap-around    *)
(* and growth, and whenever the receiver waits for data there is room for  *)
(* some: the assertion in ReadSomeAsync.                                   *)
RingIsSound ==
  /\ ring.size <= Capacity(ring) /\ ring.rPos < Capacity(ring)
  /\ ring.wPos = (ring.rPos + ring.size) % Capacity(ring)
  /\ FreeMemoryOne(ring) + FreeMemoryTwo(ring) = Free(ring)
  /\ ~dispatching => Free(ring) > 0

(* What a run of bytes says of messages: those whose last byte is in it.   *)
Completed[bytes \in Seq(Byte)] ==
  IF bytes = <<>> THEN <<>>
  ELSE (IF Head(bytes)[2] = length[Head(bytes)[1]] THEN <<Head(bytes)[1]>> ELSE <<>>)
       \o Completed[Tail(bytes)]

UnderWay == Peek(ring, ring.size) \o socket \o current \o FlattenSeq(queue)

(* The byte streams, partial writes, ring buffer and dispatching implement *)
(* a channel of whole messages, which loses none before it is closed and   *)
(* in which only messages that are never aggregated go ahead of those held *)
(* back.  A detailed state stands for the messages whose last byte is      *)
(* still held back or under way.                                           *)
Abstract == INSTANCE Channel WITH
  urgent <- {m \in Messages : kind[m] = "Other"},
  accepted <- sent,
  closed <- shuttingDown,
  held <- Completed[aggregated],
  line <- Completed[UnderWay],
  delivered <- [i \in 1..Len(delivered) |-> delivered[i][1][1]]

ImplementsChannel == Abstract!Spec

(* Every message is delivered whole. *)
DeliveredWhole == \A i \in DOMAIN delivered : delivered[i] = Blob(delivered[i][1][1])

Has(m) == \E i \in DOMAIN delivered : delivered[i][1][1] = m

(* Unless the connection is shut down, everything up to a flush arrives:   *)
(* held back data goes out with the message that flushes, behind whatever  *)
(* write is under way.                                                     *)
FlushedArrives ==
  \A m \in Messages :
    (\E f \in m..sent : kind[f] = "Flush")
      ~> (Has(m) \/ shuttingDown)

=============================================================================
