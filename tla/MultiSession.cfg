SPECIFICATION FairSpec
CONSTANTS
  Order <- Three
  Jobs = 2
  MaxCalls = 3
  MaxFaults = 2
CHECK_DEADLOCK FALSE
INVARIANTS
  TypeOK
  JoinsFreshSessions
PROPERTIES
  CallEnds
