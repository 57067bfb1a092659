SPECIFICATION Spec
CONSTANTS
  b1 = b1
  b2 = b2
  guitar = guitar
  bass = bass
  drums = drums
  Browsers <- Two
  Fields <- SelOnly
  Limited = {}
  Values <- Instruments
  Default = guitar
  BufSize = 1
  CountTo = 3
  MaxEdits <- ThreeEdits
  Leavers = {}
  Patient = TRUE
CHECK_DEADLOCK FALSE
INVARIANT InSync
