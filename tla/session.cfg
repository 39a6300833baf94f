SPECIFICATION SessionFairSpec
CONSTANTS
  Limit = 2
  Unlimited = Unlimited
  MaxPairs = 4
  MaxTries = 3
INVARIANTS
  NewestPairInUse
  PairIsKept
  ForcedRefreshesEnd
  GivesUpInTime
PROPERTIES
  StopEnds
CHECK_DEADLOCK FALSE
