SPECIFICATION FairSpec
CONSTANTS
  Procs = {"p1", "p2"}
  Paths = {"a1", "a2", "b1"}
  Robots = {"r1"}
  Missions = {"A", "B"}
  PathOf <- OneMission
  RobotOf <- OneRobot
  MissionOf <- MCMissionOf
  IndexOf <- MCIndexOf
  HasAbs6DoF = {"b1"}
  Prefixes <- MCPrefixes
  Requests = {"deleteMission", "mapLookup", "shutdown"}
  PoolSize = 2
  ResetEvery = 0
  Backups = FALSE
  NoEntry = NoEntry
PROPERTIES
  SubmapConsumed
  DeletedEventuallyGone
  ShutdownCompletes
