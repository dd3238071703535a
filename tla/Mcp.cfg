SPECIFICATION McpSpec
INVARIANTS
  McpInv
  StaleForAReason
PROPERTIES
  CloseReleasesAll
CONSTANTS
  sse = sse
  auth = auth
  p1 = p1
  p2 = p2
  Server <- MCServer
  Call <- MCCall
  Configured <- MCConfigured
  Addable <- MCAddable
  Ops <- MCOps
  Deaf <- MCDeaf
  MaxConn = 3
  MaxChanges = 2
\* every operation is run once: the instance stops when all have ended
CHECK_DEADLOCK FALSE
