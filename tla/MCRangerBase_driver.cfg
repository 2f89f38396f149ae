CONSTANTS
  Models <- TwoModels
  TxLen = 2
  Twists <- ThreeTwists
  MaxWaits = 1
SPECIFICATION FairBaseSpec
CHECK_DEADLOCK FALSE
INVARIANTS
  OtherCommandsFitMode
PROPERTIES
  EventuallySettles
