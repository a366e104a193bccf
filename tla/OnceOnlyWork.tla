---------------------------- MODULE OnceOnlyWork ----------------------------
(***************************************************************************)
(* What claiming, executing and reporting promise of each piece of work:   *)
(* it is started once at most, it is not started after it has ended, and   *)
(* its outcome, once there, stays.  Orchestrator and AgentRuntime both     *)
(* implement this specification.                                           *)
(***************************************************************************)
EXTENDS Naturals

CONSTANTS
  Works,     \* pieces of work
  Outcomes,  \* what may become of one
  None       \* no outcome yet

VARIABLES
  starts,  \* starts[w]: how often somebody began to execute w
  outcome  \* outcome[w]: what became of w, or None

vars == <<starts, outcome>>

Init ==
  /\ starts = [w \in Works |-> 0]
  /\ outcome = [w \in Works |-> None]

Start(w) ==
  /\ starts[w] = 0
  /\ outcome[w] = None
  /\ starts' = [starts EXCEPT ![w] = 1]
  /\ UNCHANGED outcome

\* Several pieces of work may end together: a sweep fails all it can.
End(ended, o) ==
  /\ \A w \in ended : outcome[w] = None
  /\ outcome' = [w \in Works |-> IF w \in ended THEN o ELSE outcome[w]]
  /\ UNCHANGED starts

Next ==
  \/ \E w \in Works : Start(w)
  \/ \E ended \in SUBSET Works, o \in Outcomes : End(ended, o)

Spec == Init /\ [][Next]_vars
=============================================================================
