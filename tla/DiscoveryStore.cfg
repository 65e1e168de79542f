\* Publishers and subscribers with mandatory and optional labels come and go.
SPECIFICATION Spec
CONSTANTS
  s1 = s1
  s2 = s2
  s3 = s3
  h1 = h1
  h2 = h2
  Services = {s1, s2, s3}
  Handlers = {h1, h2}
  Keys = {"A", "B"}
  Values = {1, 2}
  LabelLists <- ShortLists
SYMMETRY Symmetry
INVARIANT ClustersExact
INVARIANT NoticesPair
PROPERTY MandatoryMeetsAll
CHECK_DEADLOCK FALSE
