SPECIFICATION LspSpec
INVARIANTS
  LspInv
PROPERTIES
  DisposeKillsAll
  TouchEnds
CONSTANTS
  p1 = p1
  p2 = p2
  k1 = k1
  None = None
  Call <- MCCall
  Key <- MCKey
  MaxPush = 2
  MaxReg = 2
\* every call is made once: the instance stops when all have ended
CHECK_DEADLOCK FALSE
