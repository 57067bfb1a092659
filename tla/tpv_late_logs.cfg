SPECIFICATION Spec
CONSTANTS
  Values = {v1, v2}
  Unset = Unset
  Window = 40
  MaxStarts = 1
  MaxDrops = 2
  Prompt = FALSE
  Patient = TRUE
CHECK_DEADLOCK FALSE
INVARIANTS
  LogAgreement
