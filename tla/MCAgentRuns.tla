---------------------------- MODULE MCAgentRuns -----------------------------
(* Instances of AgentRuns for TLC. *)
EXTENDS AgentRuns, TLC

CONSTANTS k1, r1, r2, c1, c2, s1, s2

OneKey == {k1}
OneRun == {r1}
TwoRuns == {r1, r2}
TwoCallers == {c1, c2}
OneSweeper == {s1}
TwoSweepers == {s1, s2}

MCSymmetry == Permutations(RunIds) \cup Permutations(Callers) \cup Permutations(Sweepers)
=============================================================================
