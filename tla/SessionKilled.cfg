SPECIFICATION FairSpec
CONSTANTS
  Recordings = {"A", "B"}
  WithImages = {"A", "B"}
  Selections <- ToNormalize
  MaxFaults = 1
  KillOverCompleted = TRUE
INVARIANTS
  RecordsHonest
