CONSTANTS
  i1 = i1
  i2 = i2
  i3 = i3
  Ids = {i1, i2, i3}
  NoId = NoId
  Requests = {1, 5, 10, 20}
  CHUNKSIZE = 16
  MAX_HEAP = 48
  SizeMod = 64
  Junk = Junk
  Index = {i1, i2, i3}
  NoIndex = NoId
  Suites <- MCSuites
  SpeedRuns = 2
  Undo = TRUE
SYMMETRY MCSymmetry
SPECIFICATION MCSpec
INVARIANT Intact
CHECK_DEADLOCK FALSE
