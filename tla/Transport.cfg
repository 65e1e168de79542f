\* Three messages, aggregated, flushed or sent at once, through a small ring buffer.
SPECIFICATION FairSpec
CONSTANTS
  NumMessages = 3
  Lengths <- ShortAndLong
  HeaderSize = 2
  InitialCapacity = 4
  Threshold = 7
  SocketSize = 2
  MaxIO = 2
INVARIANT TypeOK
INVARIANT RingIsSound
INVARIANT DeliveredWhole
PROPERTY ImplementsChannel
PROPERTY FlushedArrives
CHECK_DEADLOCK FALSE
