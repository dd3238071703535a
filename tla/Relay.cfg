CONSTANTS
  n1 = n1
  n2 = n2
  n3 = n3
  s1 = s1
  s2 = s2
  phone = phone
  None = None
  Note <- MCNote
  WantedSets <- MCWantedSets
  Session <- MCSession
  SessionOf <- MCSessionOf
  Device <- MCDevice
  Filters <- MCFilters
  Grace = 1
  Window = 2
  QueueDepth = 1
  MaxTime = 2
  MaxTokens = 2
SPECIFICATION RelayFairSpec
INVARIANTS
  RelayInv
  WithheldForAReason
PROPERTIES
  ReconnectIsQuiet
  PushesAreSpaced
  ConsumerNeverStalls
