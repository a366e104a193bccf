SPECIFICATION Spec
CONSTANTS
  k1 = k1
  r1 = r1
  r2 = r2
  c1 = c1
  c2 = c2
  s1 = s1
  s2 = s2
  None = None
  Keys <- OneKey
  RunIds <- OneRun
  Callers <- TwoCallers
  Sweepers <- OneSweeper
PROPERTY FirstOutcomeWins
CHECK_DEADLOCK FALSE
