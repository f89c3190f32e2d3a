SPECIFICATION FairSpec
CONSTANTS
  Procs = {"p1"}
  Paths = {"a1", "a2", "b1"}
  Robots = {"r1"}
  Missions = {"A", "B"}
  PathOf <- OneSubmap
  RobotOf <- OneRobot
  MissionOf <- MCMissionOf
  IndexOf <- MCIndexOf
  HasAbs6DoF = {"b1"}
  Prefixes <- MCPrefixes
  Requests = {"shutdown"}
  PoolSize = 2
  ResetEvery = 0
  Backups = TRUE
  NoEntry = NoEntry
PROPERTIES
  ShutdownCompletes
CHECK_DEADLOCK FALSE
