SPECIFICATION Spec
CONSTANTS
  Missions = {m1, m2}
  Vertices = {v1, v2, v3}
  Keypoints = {k1, k2}
  Landmarks = {l1, l2}
  None = None
SYMMETRY Ids
CONSTRAINT FewResources
INVARIANTS
  TypeOK
  Consistent
  BackboneIsChain
PROPERTIES
  AbortNeedsLink
  OrphansRemoved
CHECK_DEADLOCK FALSE
