CONSTANTS
  c1 = c1
  c2 = c2
  w1 = w1
  w2 = w2
  long = long
  short = short
  x = x
  y = y
  Conns = {c1, c2}
  Workers = {w1, w2}
  NoConn = NoConn
  Hosts = {x, y}
  Servers = {long, short}
  HostOf <- OneHost
  Locs = {"/"}
  LenOf <- MCLenOf
  MaxLen = 2
  Hanging = {short}
  Stalling = {}
  Several = {long}
  N = 2
  MaxObject = 1
  Capacity = 1
  NoObject = NoObject
SPECIFICATION Spec
INVARIANT RightServer
CHECK_DEADLOCK FALSE
