CONSTANTS
  g1 = g1
  g2 = g2
  Goals <- TwoGoals
  NoGoal = NoGoal
  SpinThread = TRUE
  CompletionCallback = FALSE
  Setups <- SetupsTried
  Speeds <- BothWays
  failure_tolerance = 1
  min_velocity <- Backwards
  max_velocity = 1
  max_accel = 1
  max_decel = 1
  deadband = 0
SPECIFICATION FairDriveSpec
CHECK_DEADLOCK FALSE
INVARIANTS
  StandsWhenIdle
  FollowsCurrentGoal
  CrashesOnlyOnDeactivation
PROPERTIES
  RobotStops
  CancelStops
