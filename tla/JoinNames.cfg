\* Two participants of the same name join.
SPECIFICATION Spec
CONSTANTS
  pa = pa
  pb = pb
  pc = pc
  Procs = {pa, pb, pc}
  Scenarios <- SecondOfAName
  Names = {"A"}
  NameOf <- SameNames
  Impatient = {pb, pc}
  Leavers = {}
INVARIANT UniqueNames
CHECK_DEADLOCK FALSE
