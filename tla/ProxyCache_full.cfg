CONSTANTS
  Threads = {t1, t2}
  Uris = {u1, u2, u3}
  small = small
  big = big
  Objects <- MCObjects
  SizeOf <- MCSizeOf
  Capacity = 3
  Nodes = {n1, n2, n3, n4, n5}
  NoUri = NoUri
  NoNode = NoNode
  NoObject = NoObject
  PatienceMin <- MCPatienceMin
SYMMETRY MCSymmetry
SPECIFICATION Spec
INVARIANTS
  TypeOK
  ReaderSafe
  UniqueUris
  NothingLeaks
PROPERTIES
  SecondChance
  WalkShrinks
  ImplementsStore
