SPECIFICATION FairSpec
CONSTANTS
  N = 2
  NIters <- Once
  MaxDeaths = 0
CHECK_DEADLOCK FALSE
PROPERTY AllStart
