SPECIFICATION Spec
CONSTANTS
  N = 2
  Values <- TwoWords
  NoValue = NoValue
  MaxInstance = 1
  MaxNumber = 2
  MaxSent = 10
  MaxReqQ = 1
  Duplicates = FALSE
  Hears <- LongRequest
  Learners = {}
  Mortals = {0}
  MaxCrashes = 1
CHECK_DEADLOCK FALSE
INVARIANT PromisedWasAccepted
