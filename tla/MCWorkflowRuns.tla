--------------------------- MODULE MCWorkflowRuns ---------------------------
(* Instances of WorkflowRuns for TLC: two callers and two sweeps race over   *)
(* one definition.                                                           *)
EXTENDS WorkflowRuns, TLC

CONSTANTS d1, e1, k1, r1, r2, c1, c2, s1, s2

OneDefinition == {d1}
OneEvent == {e1}
OneKey == {k1}
TwoRuns == {r1, r2}
TwoCallers == {c1, c2}
TwoSweepers == {s1, s2}
MatchTheEvent == {{e1}}

MCSymmetry == Permutations(Definitions) \cup Permutations(Keys) \cup Permutations(RunIds)
                \cup Permutations(Callers) \cup Permutations(Sweepers)
=============================================================================
