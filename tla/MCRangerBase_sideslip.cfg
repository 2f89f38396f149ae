CONSTANTS
  Models <- OneModel
  TxLen = 2
  Twists <- ThreeTwists
  MaxWaits = 1
SPECIFICATION BaseSpec
CHECK_DEADLOCK FALSE
INVARIANTS
  CommandFitsMode
