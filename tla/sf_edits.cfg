SPECIFICATION Spec
CONSTANTS
  b1 = b1
  b2 = b2
  guitar = guitar
  bass = bass
  drums = drums
  Browsers <- Two
  Fields <- SelAndBand
  Limited <- Band
  Values <- Instruments
  Default = guitar
  BufSize = 1
  CountTo = 3
  MaxEdits <- TwoAndOne
  Leavers = {b2}
  Patient = FALSE
CHECK_DEADLOCK FALSE
INVARIANTS
  TypeOK
  NoEcho
  LastShareShows
  RegisteredCanSend
  PanicAfterOverflow
PROPERTIES
  Settles
