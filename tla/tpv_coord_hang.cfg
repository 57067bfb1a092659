SPECIFICATION Spec
CONSTANTS
  Values = {v1, v2}
  Unset = Unset
  Window = 40
  MaxStarts = 1
  MaxDrops = 0
  Prompt = TRUE
  Patient = FALSE
CHECK_DEADLOCK FALSE
INVARIANTS
  CoordNeverHangs
