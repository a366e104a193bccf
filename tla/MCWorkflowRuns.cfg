SPECIFICATION Spec
CONSTANTS
  d1 = d1
  e1 = e1
  k1 = k1
  r1 = r1
  r2 = r2
  c1 = c1
  c2 = c2
  s1 = s1
  s2 = s2
  None = None
  Definitions <- OneDefinition
  Events <- OneEvent
  Keys <- OneKey
  RunIds <- TwoRuns
  Callers <- TwoCallers
  Sweepers <- TwoSweepers
  Matchings <- MatchTheEvent
SYMMETRY MCSymmetry
INVARIANTS
  OneRunPerDedupeKey
  LogAgreesWithStatus
PROPERTIES
  ReapSparesResults
  EndedRunsStayEnded
