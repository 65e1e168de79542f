\* Two coordinated participants and an autonomous one that starts at any time.
SPECIFICATION Spec
CONSTANTS
  a = a
  b = b
  c = c
  Participants = {a, b, c}
  Coordinated = {a, b}
  Blocking = {a}
  StepSizes <- UnitSizes
  Pausers = {}
  Stoppers = {}
  Crashers = {}
  MaxTime = 1
  MaxPauses = 0
INVARIANTS Chronology RunningIsKnown
PROPERTIES TimeOnlyIncreases StepWaitsForOthers JoinsAtAdvancedTime
CHECK_DEADLOCK FALSE
