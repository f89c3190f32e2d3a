SPECIFICATION FairSpec
CONSTANTS
  Recordings = {"A", "B"}
  WithImages = {"A", "B"}
  Selections <- FromAnywhere
  MaxFaults = 1
  KillOverCompleted = FALSE
INVARIANTS
  RecordsHonest
