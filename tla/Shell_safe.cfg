CONSTANTS
  p1 = p1
  p2 = p2
  p3 = p3
  Pids = {p1, p2, p3}
  NoPid = NoPid
  MaxJobs = 2
  KeysMax = 1
  Commands <- MCCommands
SPECIFICATION Spec
INVARIANTS
  TypeOK
  NoStaleJob
  ForegroundAwaited
  ReportsKept
  StatesTruthful
PROPERTIES
  JobLife
SYMMETRY Symmetry
CHECK_DEADLOCK FALSE
