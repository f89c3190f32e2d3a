SPECIFICATION Spec
CONSTANTS
  Procs = {"p1", "p2", "p3"}
  Paths = {"a1", "a2", "b1"}
  Robots = {"r1"}
  Missions = {"A", "B"}
  PathOf <- TwoMissions
  RobotOf <- OneRobot
  MissionOf <- MCMissionOf
  IndexOf <- MCIndexOf
  HasAbs6DoF = {"b1"}
  Prefixes <- MCPrefixes
  Requests = {}
  PoolSize = 2
  ResetEvery = 0
  Backups = FALSE
  NoEntry = NoEntry
PROPERTIES
  ResetSurvivesOptimization
