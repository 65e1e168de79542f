\* A coordinated and a required autonomous participant start.
SPECIFICATION Spec
CONSTANTS
  a = a
  b = b
  Participants = {a, b}
  Required = {a, b}
  Coordinated = {a}
  First = a
  AsyncReady = {a}
  Faulty = {}
  Scripts <- CreateOne
INVARIANTS StartTogether
PROPERTIES EverybodyRuns
CHECK_DEADLOCK FALSE
