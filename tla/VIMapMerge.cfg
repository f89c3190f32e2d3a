SPECIFICATION Spec
CONSTANTS
  Missions = {m1}
  Vertices = {v1, v2, v3}
  Keypoints = {k1, k2}
  Landmarks = {l1}
  None = None
PROPERTIES
  SeenElsewhereSurvives
CHECK_DEADLOCK FALSE
