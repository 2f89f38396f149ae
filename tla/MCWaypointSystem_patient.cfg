CONSTANTS
  ONE_GO = ONE_GO
  TWO_GO = TWO_GO
  Scenes <- TwoScenes
  NoScene = NoScene
  Files <- TwoFiles
  NoFile = NoFile
  NoGoal = NoGoal
  MaxGoals = 3
  Patient = TRUE
  ServerResets = TRUE
SPECIFICATION SystemSpec
CHECK_DEADLOCK FALSE
INVARIANTS
  PausedIsCompleted
  ResumeSkipsNothing
  StoppedMeansStopped
  PauseThrowsStanding
