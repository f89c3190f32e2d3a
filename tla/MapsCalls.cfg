SPECIFICATION FairSpec
CONSTANTS
  Threads = {t1, t2}
  t1 = t1
  t2 = t2
  Keys = {"k1", "k2"}
  NoHandle = NoHandle
  Operations = {"copyMap", "hasMap", "addMap", "loadAllMapsFromFolder", "getMapReadAccess", "getMapWriteAccess", "mergeMaps", "saveMapToFolder", "saveAllMapsToFolder", "loadMapFromFolder", "releaseMap", "renameMap"}
  MergePairs <- OneDirection
  MaxCalls = 5
CHECK_DEADLOCK FALSE
INVARIANTS
  MapsOwned
PROPERTIES
  CallsReturnUnlessCopying
