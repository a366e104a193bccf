--------------------------- MODULE MCOrchestrator ---------------------------
(* Instances of Orchestrator for TLC. *)
EXTENDS Orchestrator, TLC

CONSTANTS d1, d2, e1, e2, k1, k2, r1, r2, i1, i2, s1

OneDefinition == {d1}
TwoDefinitions == {d1, d2}
OneEvent == {e1}
TwoEvents == {e1, e2}
OneKey == {k1}
TwoKeys == {k1, k2}
OneRun == {r1}
TwoRuns == {r1, r2}
TwoCallers == {i1, i2}
OneCaller == {i1}
OneSweeper == {s1}
NoSweeper == {}
MatchTheEvent == {{e1}}

NoKeys == {}
MatchEitherEvent == {{e1, e2}}

OneKeyPerEvent == (e1 :> k1)
IdAndEmptyPayload == (e1 :> k1 @@ e2 :> None)
SameRecordId == (e1 :> k1 @@ e2 :> k1)

MCSymmetry == Permutations(Callers) \cup Permutations(RunIds) \cup Permutations(Definitions)
=============================================================================
