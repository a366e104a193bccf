---------------------------- MODULE AgentRuntime ----------------------------
(***************************************************************************)
(* The agent runtime plugin (services/_plugins/agent-runtime) against      *)
(* Core's store of agent runs: concurrent Lambda invocations that are      *)
(* handed agent.run.requested events, claim a run, execute it against a    *)
(* paid model and report once.                                             *)
(*                                                                         *)
(* A requested event that reached the bus is delivered any number of       *)
(* times, none included; a response may be lost; an invocation may die at  *)
(* any point, while the request it made of Core goes on.                   *)
(*                                                                         *)
(* The lease.  A run is not stale while an invocation that claimed it is   *)
(* alive or its report is being written: Lambda ends an invocation within  *)
(* 900 seconds, and the sweep's cutoff for claimed runs is 1800            *)
(* (agent_run_stale_after_seconds).  The cutoff for unclaimed runs bounds  *)
(* the delivery of an event, which nothing bounds: such a run may become   *)
(* stale at any time, also while an invocation is about to claim it.       *)
(***************************************************************************)
EXTENDS Naturals, Sequences

CONSTANTS Keys, RunIds, Callers, Sweepers, None

ASSUME NoneAssumption == None \notin Keys \cup RunIds

VARIABLES
  runs, report, sweep, requested, announced,  \* Core's: see AgentRuns
  inv,        \* inv[i]: the invocation in sandbox i
  executions  \* executions[r]: how often an invocation began executing r

Core == INSTANCE AgentRuns

coreVars == <<runs, report, sweep, requested, announced>>
vars == <<coreVars, inv, executions>>

Idle == [pc |-> "idle", run |-> None]
At(pc, r) == [pc |-> pc, run |-> r]
Invocation == [pc: {"checked", "executing", "reporting"}, run: RunIds] \cup {Idle}

Init ==
  /\ Core!Init
  /\ inv = [i \in Callers |-> Idle]
  /\ executions = [r \in RunIds |-> 0]

-----------------------------------------------------------------------------
(* Invocations *)

\* process_event, and _claim up to its GET: a run that is not pending is skipped.
ReceiveRequested(i, r) ==
  /\ inv[i].pc = "idle"
  /\ r \in requested
  /\ runs[r].status = "pending"
  /\ inv' = [inv EXCEPT ![i] = At("checked", r)]
  /\ UNCHANGED <<coreVars, executions>>

\* Core grants the claim: the run is executed.
WinClaim(i) ==
  /\ inv[i].pc = "checked"
  /\ Core!ClaimRun(inv[i].run)
  /\ inv' = [inv EXCEPT ![i].pc = "executing"]
  /\ executions' = [executions EXCEPT ![inv[i].run] = @ + 1]

\* Core grants the claim and its answer is lost: the run is left alone.
LoseAnswer(i) ==
  /\ inv[i].pc = "checked"
  /\ Core!ClaimRun(inv[i].run)
  /\ inv' = [inv EXCEPT ![i] = Idle]
  /\ UNCHANGED executions

\* 409: another invocation owns the run, or it has ended.
LoseClaim(i) ==
  /\ inv[i].pc = "checked"
  /\ runs[inv[i].run].status # "pending"
  /\ inv' = [inv EXCEPT ![i] = Idle]
  /\ UNCHANGED <<coreVars, executions>>

\* _execute returns an outcome, whatever happens in it; _report posts it.
Report(i, status) ==
  /\ inv[i].pc = "executing"
  /\ Core!CompleteRead(i, inv[i].run, status)
  /\ inv' = [inv EXCEPT ![i].pc = "reporting"]
  /\ UNCHANGED executions

\* The report is answered; an error is logged and swallowed.  A refusal cannot be
\* the answer: the lease keeps the run in flight until its report is written.
ReportAnswered(i) ==
  /\ inv[i].pc = "reporting"
  /\ report[i] = Core!NoReport
  /\ inv' = [inv EXCEPT ![i] = Idle]
  /\ UNCHANGED <<coreVars, executions>>

\* The invocation dies or gives up; what it asked of Core goes on.
Crash(i) ==
  /\ inv[i].pc # "idle"
  /\ inv' = [inv EXCEPT ![i] = Idle]
  /\ UNCHANGED <<coreVars, executions>>

-----------------------------------------------------------------------------
(* Around the invocations *)

Make(r) == Core!Make(r) /\ UNCHANGED <<inv, executions>>

CompleteCommit(i) == Core!CompleteCommit(i) /\ UNCHANGED <<inv, executions>>
AbortComplete(i) == Core!AbortComplete(i) /\ UNCHANGED <<inv, executions>>

ReapSelect(s) == Core!ReapSelect(s) /\ UNCHANGED <<inv, executions>>
ReapCommit(s) == Core!ReapCommit(s) /\ UNCHANGED <<inv, executions>>
AbortReap(s) == Core!AbortReap(s) /\ UNCHANGED <<inv, executions>>

\* Somebody is executing r or writing its report.
Leased(r) ==
  \E i \in Callers : \/ inv[i].run = r /\ inv[i].pc \in {"executing", "reporting"}
                     \/ report[i].run = r

\* The lease: see the head of the module.
Age(r) ==
  /\ runs[r].status = "pending" \/ ~Leased(r)
  /\ Core!Age(r)
  /\ UNCHANGED <<inv, executions>>

-----------------------------------------------------------------------------

\* What an invocation that has begun does next.
Step(i) ==
  \/ WinClaim(i)
  \/ LoseAnswer(i)
  \/ LoseClaim(i)
  \/ \E status \in Core!Terminal : Report(i, status)
  \/ ReportAnswered(i)
  \/ Crash(i)

Next ==
  \/ \E r \in RunIds : Make(r)
  \/ \E i \in Callers, r \in RunIds : ReceiveRequested(i, r)
  \/ \E i \in Callers : Step(i)
  \/ \E i \in Callers : CompleteCommit(i) \/ AbortComplete(i)
  \/ \E s \in Sweepers : ReapSelect(s) \/ ReapCommit(s) \/ AbortReap(s)
  \/ \E r \in RunIds : Age(r)

\* An invocation goes on or dies (the Lambda timeout), a request of Core's ends;
\* the clock runs; the reap tick comes again and again, and not every sweep fails.
Fairness ==
  /\ \A i \in Callers : WF_vars(Step(i)) /\ WF_vars(CompleteCommit(i) \/ AbortComplete(i))
  /\ \A r \in RunIds : WF_vars(Age(r))
  /\ \A s \in Sweepers : WF_vars(ReapSelect(s)) /\ SF_vars(ReapCommit(s))

Spec == Init /\ [][Next]_vars
FairSpec == Spec /\ Fairness

-----------------------------------------------------------------------------
(* Properties *)

\* Every variable stays in its type.
TypeOK ==
  /\ Core!TypeOK
  /\ inv \in [Callers -> Invocation]
  /\ executions \in [RunIds -> Nat]

\* Subscribers are told once at most how a run ended, and what they are told is
\* what the run's row says for ever: no second completion starts the work that
\* follows the run again (complete_agent_run, reap_stale_agent_runs).
AnnouncedOutcomeIsTheOutcome ==
  \A r \in RunIds : announced[r] \in {<<>>, <<runs[r].status>>}

\* The promise of claim_run and of the statuses' comment: of N deliveries of a
\* request one pays for the model, none does after the run has ended, and the
\* run reaches exactly one terminal state.
Outcome == [r \in RunIds |-> IF runs[r].status \in Core!Terminal THEN runs[r].status
                             ELSE None]
Contract == INSTANCE OnceOnlyWork WITH
  Works <- RunIds, Outcomes <- Core!Terminal, starts <- executions, outcome <- Outcome
PaidOnceAndFinal == Contract!Spec

\* Nothing stays in flight: neither a run whose request was never published or
\* delivered, nor one whose runtime died or failed to report (reap_stale_runs).
RequestedRunsSettle ==
  \A r \in RunIds : runs[r].status \in Core!InFlight ~> runs[r].status \in Core!Terminal
=============================================================================
