CONSTANTS
  s1 = s1
  c1 = c1
  c2 = c2
  NoRun = NoRun
  Session <- MCSession
  Call <- TwoCalls
  MaxSteps = 4
  Kinds = {"prompt", "summarize"}
  Outcomes = {"overflow"}
  Finishes = {"stop"}
  Prior = 0
  Interrupts <- OneCall
SPECIFICATION Spec
INVARIANTS
  LoopInv
  FreshPromptAnswered
PROPERTIES
  NoNewMessageAfterAbort
