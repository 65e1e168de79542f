\* Three coordinated participants start together; one pauses and stops.
SPECIFICATION Spec
CONSTANTS
  a = a
  b = b
  c = c
  Participants = {a, b, c}
  Coordinated = {a, b, c}
  Blocking = {a}
  StepSizes <- SlowSizes
  Pausers = {a}
  Stoppers = {a}
  Crashers = {}
  MaxTime = 2
  MaxPauses = 1
INVARIANTS TypeOK
PROPERTIES ImplementsConservativeTime
CHECK_DEADLOCK FALSE
