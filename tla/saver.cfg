SPECIFICATION FairSpec
CONSTANTS
  MaxEdits = 3
INVARIANTS
  NewestIsKept
PROPERTIES
  SavedInTheEnd
  IsDurable
CHECK_DEADLOCK FALSE
