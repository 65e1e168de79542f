\* Two coordinated participants; pause, continue, stop, error, abort and crash.
SPECIFICATION Spec
CONSTANTS
  a = a
  b = b
  Participants = {a, b}
  Required = {a, b}
  Coordinated = {a, b}
  First = a
  AsyncReady = {a}
  Faulty = {b}
  Scripts <- Endings
INVARIANTS TypeOK FinalIsKnown
PROPERTIES StopCompletes NoFalseAlarm StoppingHasArrived
CHECK_DEADLOCK FALSE
