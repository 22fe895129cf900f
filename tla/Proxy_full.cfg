CONSTANTS
  c1 = c1
  c2 = c2
  c3 = c3
  w1 = w1
  w2 = w2
  long = long
  short = short
  x = x
  y = y
  Conns = {c1, c2, c3}
  Workers = {w1, w2}
  NoConn = NoConn
  Hosts = {x, y}
  Servers = {long, short}
  HostOf <- TwoHosts
  Locs = {"/"}
  LenOf <- MCLenOf
  MaxLen = 2
  Hanging = {short}
  Stalling = {c1}
  Several = {long}
  N = 2
  MaxObject = 1
  Capacity = 1
  NoObject = NoObject
SPECIFICATION FairSpec
INVARIANTS
  OneOwner
  PutsWhatItSent
PROPERTIES
  ImplementsService
  OthersServed
CHECK_DEADLOCK FALSE
