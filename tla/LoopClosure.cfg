SPECIFICATION LCSpec
CONSTANTS
  a = a
  b = b
  d = d
  query = query
  base = base
  k1 = k1
  k2 = k2
  q = q
  m1 = m1
  m2 = m2
  Missions = {query, base}
  Vertices = {a, b, d}
  Keypoints = {k1, k2}
  Landmarks = {q, m1, m2}
  None = None
  Torn = Torn
  Maps <- SmallMaps
  Queries = {a, b}
  Database = {m1, m2}
  MaxMatches = 2
  IdsTear = FALSE
INVARIANTS
  TableLeadsToMap
  DroppedForAnother
PROPERTIES
  ObservationsFollowMerges
  QueriesEnd
CHECK_DEADLOCK FALSE
