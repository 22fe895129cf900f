CONSTANTS
  WordBits = 8
  Regs <- MCRegs
  MemLen = 120
  Data <- MCData
  NoLabel = NoLabel
  Sources <- MCSources
  Images <- MCImages
  InstrLimit = 0
SPECIFICATION MCSpec
INVARIANT NoConflict
PROPERTIES
  PipeImplementsISA
  SeqImplementsISA
  KeepsRetiring
CHECK_DEADLOCK FALSE
