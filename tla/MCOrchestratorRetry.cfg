SPECIFICATION Spec
CONSTANTS
  d1 = d1
  d2 = d2
  e1 = e1
  e2 = e2
  k1 = k1
  k2 = k2
  r1 = r1
  r2 = r2
  i1 = i1
  i2 = i2
  s1 = s1
  None = None
  Definitions <- OneDefinition
  Events <- OneEvent
  Keys <- OneKey
  RunIds <- OneRun
  Callers <- TwoCallers
  Sweepers <- OneSweeper
  Matchings <- MatchTheEvent
  KeyOf <- OneKeyPerEvent
  ScheduleKeys <- OneKey
  MaxAttempts = 3
INVARIANT ActionsFireAtMostOnce
