SPECIFICATION FairSpec
CONSTANTS
  Requests = {r1, r2}
  Retries = 1
  Capacity = 1
  Follows = 1
INVARIANTS
  NoWaiterIsLeft
  NobodyWaitsAlone
PROPERTIES
  IsChannel
  ClosedEndsCalls
  ClosesInTheEnd
CHECK_DEADLOCK FALSE
