SPECIFICATION Spec
CONSTANTS
  N = 3
  Values <- OneWord
  NoValue = NoValue
  MaxInstance = 1
  MaxNumber = 2
  MaxSent = 14
  MaxReqQ = 1
  Duplicates = FALSE
  Hears <- OneLeader
  Learners = {}
  Mortals = {0}
  MaxCrashes = 0
CHECK_DEADLOCK FALSE
INVARIANT OkMeansConsensus
