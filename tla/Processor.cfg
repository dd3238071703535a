CONSTANTS
  k1 = k1
  k2 = k2
  answer = answer
  r1 = r1
  Call <- TwoCalls
  Sig <- MCSig
  Structured <- MCStructured
  Key <- MCKey
  MaxEvents = 4
  MaxStale = 1
  MaxParts = 2
  MaxDeltas = 1
  doomLoopThreshold = 2
SPECIFICATION ProcFairSpec
INVARIANTS
  TurnIsStored
  CallsHaveOneOutcome
PROPERTIES
  CompletedStays
  QuietAfterReturn
  AbortEndsTurn
\* a turn is run once
CHECK_DEADLOCK FALSE
