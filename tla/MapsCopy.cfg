SPECIFICATION FairSpec
CONSTANTS
  Threads = {t1, t2}
  t1 = t1
  t2 = t2
  Keys = {"k1", "k2"}
  NoHandle = NoHandle
  Operations = {"getMapWriteAccess", "copyMap", "loadMapFromFolder"}
  MergePairs <- OneDirection
  MaxCalls = 3
CHECK_DEADLOCK FALSE
PROPERTIES
  CallsReturn
