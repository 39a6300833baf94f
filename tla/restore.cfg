SPECIFICATION Spec
CONSTANTS
  Docs = {"prefs", "alerts"}
  Rank <- RankOf
  Scripts = {"rsi"}
  None = None
  Found <- Installs
  Files <- Backups
  Keep <- KeepOne
  MaxText = 3
  MaxCopies = 2
  MaxActs = 4
INVARIANTS
  ReplacedIsKept
  AskedIsDone
CHECK_DEADLOCK FALSE
