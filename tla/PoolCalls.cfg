SPECIFICATION FairSpec
CONSTANTS
  Workers = {w1, w2}
  w1 = w1
  w2 = w2
  Tasks = {"a1", "a2", "n1"}
  Groups = {"A", "B"}
  GroupOf <- MCGroupOf
  NonExclusive = NonExclusive
  NoTask = NoTask
  Waiters = {"x", "y"}
  Stoppable = TRUE
INVARIANTS
  StateExact
  NoTaskForgotten
PROPERTIES
  IsGroupExecutor
  WaitMeansDone
  PoolGoesOn
