SPECIFICATION Spec
CONSTANTS
  Symbols = {a, b}
  NoSymbol = NoSymbol
  Page = 1
  Capacity = 2
  EventCapacity = 2
  Traded = {a}
  Past = 1
  LastSlot = 4
  MaxTicks = 2
  MaxEpoch = 2
  MaxDrops = 1
CHECK_DEADLOCK FALSE
INVARIANTS
  OnlyItsOwn
  NothingIsMissing
