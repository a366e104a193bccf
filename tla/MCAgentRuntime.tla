--------------------------- MODULE MCAgentRuntime --------------------------
(* Instances of AgentRuntime for TLC. *)
EXTENDS AgentRuntime

CONSTANTS k1, r1, r2, c1, c2, s1

OneKey == {k1}
TwoRuns == {r1, r2}
TwoCallers == {c1, c2}
OneSweeper == {s1}
=============================================================================
