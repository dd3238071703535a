CONSTANTS
  a1 = a1
  a2 = a2
  s1 = s1
  s2 = s2
  cmd = cmd
  any = any
  Ask <- MCAsk
  Session <- MCSession
  Pattern <- MCPattern
  Matches <- MCMatches
  Rulesets <- MCRulesets
SPECIFICATION PermSpec
INVARIANTS
  PermInv
PROPERTIES
  IsDeferred
SYMMETRY MCSymmetry
\* every ask is made once: the instance stops when all have returned
CHECK_DEADLOCK FALSE
