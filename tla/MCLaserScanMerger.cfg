CONSTANTS
  MaxStamp = 4
  Points <- SomePoints
  Turn = 12
  ranges_num = 5
  min_x_range <- FarBehind
  max_x_range = 8
  min_y_range <- FarBehind
  max_y_range = 8
  min_scanner_range = 0
  max_scanner_range = 8
  filter_robot_body = TRUE
  body_min_x <- BodyBehind
  body_max_x = 2
  body_min_y <- BodyBehind
  body_max_y = 2
  Float <- EvenFloat
  Infinity = 10
SPECIFICATION NodeSpec
CHECK_DEADLOCK FALSE
INVARIANTS
  SilenceCostsOneScan
  OneLidarIsSound
  MergedScansAreNeighbours
  BeamIsClosest
  BeamPointsAtItsPoints
PROPERTIES
  NothingShownTwice
