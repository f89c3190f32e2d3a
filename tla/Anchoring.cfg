SPECIFICATION Spec
CONSTANTS
  m1 = m1
  m2 = m2
  m3 = m3
  m4 = m4
  Missions <- FourMissions
  Constrained <- OneMission
  Relations <- SymmetricRelations
  Operations = {"select", "set_known", "constraints", "anchor"}
SYMMETRY Symmetry
INVARIANTS
  ResultRight
  DatabaseInView
PROPERTIES
  WorkShrinks
