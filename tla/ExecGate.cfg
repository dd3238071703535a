CONSTANTS
  c1 = c1
  c2 = c2
  s1 = s1
  cmd = cmd
  Ask <- MCCall
  Inquiry <- MCCall
  Session <- MCSession
  Pattern <- MCPattern
  Matches <- MCMatches
  Rulesets <- NoRules
  Kinds <- MCKinds
SPECIFICATION ExecFairSpec
INVARIANTS
  ExecInv
  QInv
  RunsOnlyIfAllowed
PROPERTIES
  QuestionDeferred
  AbortedCallsEnd
\* every call is made once: the instance stops when all have ended
CHECK_DEADLOCK FALSE
