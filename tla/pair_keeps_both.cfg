SPECIFICATION FairSpec
CONSTANTS
  Orders <- MCOrders
  Buys <- MCBuys
  Leg <- MCLeg
  After = 1
  Timed = {"s2"}
  Plan <- MCPlan
  MaxTroubles = 1
  MaxEvents = 1
PROPERTIES
  PairLosesTheOther
CHECK_DEADLOCK FALSE
