SPECIFICATION Spec
CONSTANTS
  Kinds = {"settings", "accounts"}
  Carried = {"settings", "accounts"}
  Folders = {"f1"}
  Pointer = "locations.toml"
  MayGo = {"locations.toml"}
  MayVanish = {"f1"}
  Nobody = "nobody"
  Stay = "stay"
  MaxVersion = 3
  MaxMoved = 2
INVARIANTS
  NothingIsLost
  MarkedIsWhole
  NewestIsShown
CHECK_DEADLOCK FALSE
