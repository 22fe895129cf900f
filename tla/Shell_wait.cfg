CONSTANTS
  p1 = p1
  p2 = p2
  Pids = {p1, p2}
  NoPid = NoPid
  MaxJobs = 2
  KeysMax = 0
  Commands <- FewCommands
SPECIFICATION FairSpec
PROPERTIES
  WaitEnds
CHECK_DEADLOCK FALSE
