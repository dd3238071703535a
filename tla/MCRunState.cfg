CONSTANTS
  s1 = s1
  s2 = s2
  c1 = c1
  c2 = c2
  c3 = c3
  NoRun = NoRun
  Session <- MCSession
  Call <- MCCall
SPECIFICATION RSFairSpec
INVARIANTS
  RSInv
  OneRunPerSession
PROPERTIES
  CancelHitsItsRun
  InterruptReleasesWaiters
\* every call is made once: the instance stops when all have returned
CHECK_DEADLOCK FALSE
