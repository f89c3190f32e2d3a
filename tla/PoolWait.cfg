SPECIFICATION FairSpec
CONSTANTS
  Workers = {w1, w2}
  w1 = w1
  w2 = w2
  Tasks = {"n1"}
  Groups = {"A", "B"}
  GroupOf <- MCGroupOf
  NonExclusive = NonExclusive
  NoTask = NoTask
  Waiters = {"x"}
  Stoppable = FALSE
PROPERTIES
  OverlappingWaitReturns
