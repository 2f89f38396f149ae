CONSTANTS
  ONE_GO = ONE_GO
  TWO_GO = TWO_GO
  Scenes <- OneScene
  NoScene = NoScene
  Files <- OneFile
  NoFile = NoFile
  NoGoal = NoGoal
  MaxGoals = 2
  Patient = FALSE
  ServerResets = TRUE
SPECIFICATION FairSystemSpec
CHECK_DEADLOCK FALSE
INVARIANTS
  PauseThrowsLate
PROPERTIES
  PauseEnds
