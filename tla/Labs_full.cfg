SPECIFICATION MCSpec
CONSTANTS
  Configs <- MCConfigs
  Addrs <- MCAddrs
  MaxTick = 6
  Sizes <- MCSizes
  Markers <- MCMarkers
  BaseA = 0
  BaseB = 262144
  WordBits = 8
  ExpBits = 5
  TestRange = 64
  MaxTestVals = 100
  Draws <- MCDraws
  K = 2
  MaxSamples = 4
  Epsilon = 20
  CtrBits = 2
  Elapsed = {5, 8}
  Ticks = {0, 1}
  CycPerTick = 6
  Colours = {0, 7}
  OddDim = 3
  TestDims <- MCDims
  BufSize = 2
  MaxLine = 4
  Requests <- MCRequests
  UriOf <- MCUriOf
  Files <- MCFiles
INVARIANTS GradedSizesPass AllPointsScored FloatsElsewhere KeepsTheBest KernelsAccepted
PROPERTIES ImplementsLRU ImplementsStream AnsweredWhole MovesOn
CHECK_DEADLOCK FALSE
