CONSTANTS
  g1 = g1
  g2 = g2
  Goals <- TwoGoals
  NoGoal = NoGoal
  SpinThread = FALSE
  CompletionCallback = FALSE
  PoseCounts <- Routes
  StopOnFailure = FALSE
SPECIFICATION FollowerSpec
CHECK_DEADLOCK FALSE
INVARIANTS
  FeedbackCountsProcessed
  SuccessCoversRoute
  DrivesForLiveGoal
  CrashesExplained
  BlocksOnlyAfterAnother
