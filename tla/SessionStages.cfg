SPECIFICATION FairSpec
CONSTANTS
  Recordings = {"A", "B"}
  WithImages = {"A", "B"}
  Selections <- ToNormalize
  MaxFaults = 1
  KillOverCompleted = FALSE
CONSTRAINT AloneBeforeFaults
INVARIANTS
  RecordsHonest
PROPERTIES
  SuccessIsCurrent
  SfmForceCompletes
