SPECIFICATION Spec
CONSTANTS
  s1 = s1
  s2 = s2
  p1 = p1
  x1 = x1
  NoId = NoId
  Shapes = {s1}
  Positions = {}
  ReverseShape <- Reverse0
  Changes = {}
  Switches = {}
  PlanSize = 2
  MaxOrders = 2
  MaxCalls = 2
  MaxEpoch = 0
CHECK_DEADLOCK FALSE
INVARIANTS
  BusyHasItsCall
  DoubtsPredateTheReading
  MissingIsMissing
  NoOrderIsForgotten
  PlanStaysWhole
  PlanStopsAtARefusal
PROPERTIES
  NeverSentAgain
