\* A master and two slaves; frames, a late response, sleeping and waking up.
SPECIFICATION FairSpec
CONSTANTS
  lm = lm
  ls = ls
  lt = lt
  Controllers = {lm, ls, lt}
  Master = lm
  Dynamic = {lt}
  Ids = {1}
  Forms = {"f"}
  AnyForm = "any"
  Configs <- SomeConfigs
  Settings <- SomeSettings
  MaxSends = 1
  MaxChanges = 1
INVARIANT TypeOK
INVARIANT ViewsCatchUp
INVARIANT RespondedIsExact
PROPERTY OutcomeIsReported
CHECK_DEADLOCK FALSE
