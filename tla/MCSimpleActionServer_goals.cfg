CONSTANTS
  g1 = g1
  g2 = g2
  g3 = g3
  Goals <- ThreeGoals
  NoGoal = NoGoal
  SpinThread = TRUE
  CompletionCallback = FALSE
SPECIFICATION FairSpec
CHECK_DEADLOCK FALSE
INVARIANTS
  NoLostGoal
  HandlesDistinctAndLive
  QuietWhenInactive
PROPERTIES
  ResultsAreFinal
  LifecyclePromise
  EveryGoalEnds
