SPECIFICATION Spec
CONSTANTS
  Values = {v1, v2}
  Unset = Unset
  Window = 40
  MaxStarts = 2
  MaxDrops = 2
  Prompt = TRUE
  Patient = FALSE
CHECK_DEADLOCK FALSE
INVARIANTS
  TypeOK
  LogAgreement
  AnswersTrue
  UndroppedAgreement
  TwoPhaseInv
PROPERTIES
  AppearsAtomic
