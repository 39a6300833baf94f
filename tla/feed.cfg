SPECIFICATION FairSpec
CONSTANTS
  s1 = s1
  s2 = s2
  b1 = b1
  Owners = {"o1"}
  Symbols = {s1, s2}
  Bars = {b1}
  SymbolOf <- BarsOfFirst
  Unknown = {s2}
  Partial = FALSE
  Faults = {"account"}
INVARIANTS
  FollowedIsRecorded
  NothingLost
PROPERTIES
  CatchesUp
  LeavesNothing
