\* Participants join one or two others; acceptors, proxies and requests may fail.
SPECIFICATION FairSpec
CONSTANTS
  pa = pa
  pb = pb
  pc = pc
  Procs = {pa, pb, pc}
  Scenarios <- Joins
  Names = {"A", "B", "C"}
  NameOf <- OwnNames
  Impatient = {pc}
  Leavers = {pb}
INVARIANT TypeOK
INVARIANT JoinedMeansAllReplied
INVARIANT EverybodyConnected
PROPERTY StagesOnlyAdvance
PROPERTY JoinReturns
CHECK_DEADLOCK FALSE
