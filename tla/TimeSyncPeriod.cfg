\* Two autonomous participants; one changes its step size and pauses, the other stops or crashes.
SPECIFICATION Spec
CONSTANTS
  a = a
  b = b
  c = c
  Participants = {a, c}
  Coordinated = {}
  Blocking = {a}
  StepSizes <- FreeSizes
  Pausers = {a}
  Stoppers = {c}
  Crashers = {c}
  MaxTime = 1
  MaxPauses = 1
INVARIANTS Chronology
PROPERTIES StepWaitsForOthers Progress
CHECK_DEADLOCK FALSE
