CONSTANTS
  WordBits = 8
  Regs <- MCRegs
  MemLen = 120
  Data <- MCData
  NoLabel = NoLabel
  Sources <- BareSources
  Images <- MCImages
  InstrLimit = 30
SPECIFICATION MCSpec
INVARIANT IsaCheck
CHECK_DEADLOCK FALSE
