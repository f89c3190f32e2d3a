SPECIFICATION Spec
CONSTANTS
  Procs = {"p1", "p2", "p3"}
  Paths = {"a1", "a3"}
  Robots = {"r1"}
  Missions = {"A", "B"}
  PathOf <- Duplicate
  RobotOf <- OneRobot
  MissionOf <- MCMissionOf
  IndexOf <- MCIndexOf
  HasAbs6DoF = {"a3"}
  Prefixes <- MCPrefixes
  Requests = {"deleteMission", "mapLookup", "getDenseMapInRange", "visualizeMap", "saveMap"}
  PoolSize = 2
  ResetEvery = 0
  Backups = FALSE
  NoEntry = NoEntry
INVARIANTS
  MapOfItsOwn
  TrajectoryGapless
