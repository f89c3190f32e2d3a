SPECIFICATION FairSpec
CONSTANTS
  NumCameras = 2
  LastTick = 4
  History = 1
  MaxQueue = 4
  MinGap = 1
  MaxSaves = 1
CHECK_DEADLOCK FALSE
INVARIANTS
  FramesReady
  SubmapsConnect
PROPERTIES
  PipelineGoesOn
