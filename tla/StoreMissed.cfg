\* Optional labels of parties that were there first.
SPECIFICATION Spec
CONSTANTS
  s1 = s1
  s2 = s2
  s3 = s3
  h1 = h1
  h2 = h2
  Services = {s1, s2}
  Handlers = {h1, h2}
  Keys = {"A", "B"}
  Values = {1, 2}
  LabelLists <- OptionalLists
INVARIANT NoMatchMissed
CHECK_DEADLOCK FALSE
