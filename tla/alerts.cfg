SPECIFICATION AlertsFairSpec
CONSTANTS
  Values = {1, 2}
  Offered <- Kinds
  Limit = 1
  Share = 100
  Window = 2
  MaxBars = 5
  MaxEdits = 2
  MaxStarts = 1
CHECK_DEADLOCK FALSE
PROPERTIES
  FiresAtMostOnce
  FiresOnWhatItSaw
  BarsAreRead
