SPECIFICATION FairSpec
CONSTANTS
  k1 = k1
  r1 = r1
  r2 = r2
  c1 = c1
  c2 = c2
  s1 = s1
  None = None
  Keys <- OneKey
  RunIds <- TwoRuns
  Callers <- TwoCallers
  Sweepers <- OneSweeper
INVARIANT AnnouncedOutcomeIsTheOutcome
PROPERTIES
  PaidOnceAndFinal
  RequestedRunsSettle
CHECK_DEADLOCK FALSE
