SPECIFICATION Spec
CONSTANTS
  N = 2
  Values <- OneWord
  NoValue = NoValue
  MaxInstance = 2
  MaxNumber = 3
  MaxSent = 11
  MaxReqQ = 1
  Duplicates = FALSE
  Hears <- TwoLeaders
  Learners = {0}
  Mortals = {0}
  MaxCrashes = 1
CHECK_DEADLOCK FALSE
INVARIANTS
  TypeOK
  LearnedByMajority
  HistoryKept
PROPERTIES
  PromisesKept
  PromisesTell
  WritesAdopt
