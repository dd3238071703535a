CONSTANTS
  s1 = s1
  c1 = c1
  c2 = c2
  NoRun = NoRun
  Session <- MCSession
  Call <- TwoCalls
  MaxSteps = 2
  Kinds = {"prompt"}
  Outcomes = {}
  Finishes = {"stop"}
  Prior = 0
  Interrupts <- NoCall
SPECIFICATION Spec
INVARIANTS
  PromptAnswered
