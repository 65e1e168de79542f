\* Two servers, one of which leaves; a call with a timeout and one without.
SPECIFICATION FairSpec
CONSTANTS
  s1 = s1
  s2 = s2
  c1 = c1
  c2 = c2
  Servers = {s1, s2}
  Calls = {c1, c2}
  Timed = {c1}
  Synchronized = TRUE
  Leavers = {s1}
  MaxTimeout = 2
INVARIANT TypeOK
INVARIANT CounterIsExact
INVARIANT TimeoutIsFinal
INVARIANT ForgottenIsComplete
PROPERTY TimedCallEnds
CHECK_DEADLOCK FALSE
