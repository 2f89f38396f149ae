CONSTANTS
  MaxGoals = 3
  Goals <- GoalIds
  NoGoal = NoGoal
SPECIFICATION FairBtSpec
CHECK_DEADLOCK FALSE
INVARIANTS
  ReportsOwnResult
  NeverDereferencesNull
PROPERTIES
  HaltEndsGoal
  EveryActionEnds
