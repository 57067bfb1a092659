SPECIFICATION FairSpec
CONSTANTS
  Values = {v1, v2}
  Unset = Unset
  Window = 40
  MaxStarts = 2
  MaxDrops = 2
  Prompt = FALSE
  Patient = TRUE
CHECK_DEADLOCK FALSE
INVARIANTS
  RecoveryFaithful
  DecisionsFinal
PROPERTIES
  RequestsSettled
  UncertaintyEnds
