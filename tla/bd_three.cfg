SPECIFICATION FairSpec
CONSTANTS
  N = 3
  NIters <- LastTwice
  MaxDeaths = 1
CHECK_DEADLOCK FALSE
INVARIANTS
  TypeOK
  MutualExclusion
  TicketOrder
  ObserverQuiet
  NobodyLeavesEarly
PROPERTY Served
