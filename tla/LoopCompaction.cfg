CONSTANTS
  s1 = s1
  c1 = c1
  c2 = c2
  NoRun = NoRun
  Session <- MCSession
  Call <- OneCall
  MaxSteps = 5
  Kinds = {"prompt", "summarize"}
  Outcomes = {"overflow", "structured", "fail"}
  Finishes = {"", "stop"}
  Prior = 3
  Interrupts <- OneCall
SPECIFICATION FairSpec
INVARIANTS
  HiddenWasSummarised
  OneSummaryPerTask
PROPERTIES
  RunsEnd
\* a run that stands still is a violation of RunsEnd, not a deadlock
CHECK_DEADLOCK FALSE
