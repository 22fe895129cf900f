CONSTANTS
  Producers = {p1}
  Consumers = {c1, c2}
  N = 2
  Sz = 2
  Byte <- MCByte
  Zero = 0
  Items <- MCItems
  SizeMax = 3
  Free = Free
SPECIFICATION FairSpec
INVARIANTS
  TypeOK
  TokensConserved
  CopyHasRoom
  NewestIntact
PROPERTIES
  FrontAdvances
