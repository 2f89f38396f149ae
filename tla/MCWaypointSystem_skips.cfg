CONSTANTS
  ONE_GO = ONE_GO
  TWO_GO = TWO_GO
  Scenes <- TwoScenes
  NoScene = NoScene
  Files <- TwoFiles
  NoFile = NoFile
  NoGoal = NoGoal
  MaxGoals = 3
  Patient = FALSE
  ServerResets = FALSE
SPECIFICATION SystemSpec
CHECK_DEADLOCK FALSE
INVARIANTS
  PausedIsCompleted
