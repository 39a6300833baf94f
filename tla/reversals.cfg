SPECIFICATION FairSpec
CONSTANTS
  s1 = s1
  s2 = s2
  p1 = p1
  x1 = x1
  NoId = NoId
  Shapes = {s2}
  Positions = {p1}
  ReverseShape <- Reverse1
  Changes = {x1}
  Switches = {"kill", "replay"}
  PlanSize = 1
  MaxOrders = 0
  MaxCalls = 1
  MaxEpoch = 1
CHECK_DEADLOCK FALSE
INVARIANTS
  ReverseFollowsTheClose
PROPERTIES
  ReversalEnds
