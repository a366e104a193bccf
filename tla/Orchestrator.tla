---------------------------- MODULE Orchestrator ----------------------------
(***************************************************************************)
(* The orchestrator plugin (services/_plugins/orchestrator) against Core's *)
(* orchestration store: concurrent Lambda invocations that claim runs,     *)
(* create schedules, execute actions with bounded retries and record their *)
(* outcomes, while definitions are edited and the stale-run sweep runs.    *)
(*                                                                         *)
(* The environment is at-least-once throughout: an event or a schedule's   *)
(* callback may be delivered any number of times, also while an earlier    *)
(* delivery is still being handled, and an invocation may die at any step  *)
(* (an exception out of the handler, the Lambda timeout).  A caller of     *)
(* WorkflowRuns is a sandbox that runs one invocation after another.       *)
(*                                                                         *)
(* The lease.  The Lambda platform ends an invocation within 900 seconds   *)
(* and the sweep's cutoff is at least that old, so a run in flight whose   *)
(* updated_at is of the invocation that holds it does not age: Age waits   *)
(* for the holder to end.  A run that waits for its fire time ages freely. *)
(***************************************************************************)
EXTENDS Naturals

CONSTANTS Definitions, Events, Keys, RunIds, Callers, Sweepers, Matchings, None,
  KeyOf,         \* the key of an event's payload; None when the payload is empty
  ScheduleKeys,  \* the keys instance code passes to schedule_run_at
  MaxAttempts    \* _MAX_ATTEMPTS

ASSUME NoneAssumption == None \notin Keys \cup Definitions \cup Events \cup RunIds
ASSUME MatchingsAssumption == Matchings \subseteq SUBSET Events
ASSUME KeyOfAssumption == KeyOf \in [Events -> Keys \cup {None}]
ASSUME ScheduleKeysAssumption == ScheduleKeys \subseteq Keys
ASSUME MaxAttemptsAssumption == MaxAttempts \in Nat \ {0}

VARIABLES
  defs, runs, log, request, sweep,   \* Core's: see WorkflowRuns
  inv,         \* inv[i]: the invocation in sandbox i
  schedules,   \* the runs for which an EventBridge schedule was ever created
  executions,  \* executions[r]: how often an invocation began executing r
  performed    \* performed[r]: how often r's action took effect outside

Core == INSTANCE WorkflowRuns

coreVars == <<defs, runs, log, request, sweep>>
vars == <<coreVars, inv, schedules, executions, performed>>

Invocation == [pc: {"idle", "claiming", "working", "executing", "recording"},
               todo: SUBSET RunIds, run: RunIds \cup {None},
               attempt: 0..MaxAttempts, outcome: {"succeeded", "failed", "none"}]

Idle == [pc |-> "idle", todo |-> {}, run |-> None, attempt |-> 0, outcome |-> "none"]

Init ==
  /\ Core!Init
  /\ inv = [i \in Callers |-> Idle]
  /\ schedules = {}
  /\ executions = [r \in RunIds |-> 0]
  /\ performed = [r \in RunIds |-> 0]

\* r is claimed by i's invocation, which has yet to execute it or is doing so.
Holds(i, r) == r = inv[i].run \/ r \in inv[i].todo

\* What is left of an invocation: the rest of its claimed runs, or nothing.
Working(todo) == IF todo = {} THEN Idle ELSE [Idle EXCEPT !.pc = "working", !.todo = todo]

\* _execute_run begins: the first attempt of run r, with todo left for later.
Executing(r, todo) ==
  [pc |-> "executing", todo |-> todo, run |-> r, attempt |-> 1, outcome |-> "none"]

-----------------------------------------------------------------------------
(* Claiming *)

UsedKeys == {runs[r].key : r \in RunIds} \cup {request[i].key : i \in Callers}
FreshKeys == Keys \ (UsedKeys \cup ScheduleKeys \cup {KeyOf[e] : e \in Events})

\* Mutant: an empty payload is hashed like any other.
HashOfNothing(e) ==
  {IF KeyOf[e] # None THEN KeyOf[e] ELSE CHOOSE k \in Keys : TRUE}

\* _idempotency_key: the payload's id or content hash; a new UUID for an empty one.
IdempotencyKeys(e) == IF KeyOf[e] # None THEN {KeyOf[e]} ELSE FreshKeys

\* process_event calls Core.
ProcessEvent(i, e) ==
  /\ inv[i].pc = "idle"
  /\ \E k \in IdempotencyKeys(e) : Core!DispatchRead(i, e, k)
  /\ inv' = [inv EXCEPT ![i].pc = "claiming"]
  /\ UNCHANGED <<schedules, executions, performed>>

\* schedule_run_at, called by an instance's own handler, calls Core.
RequestRunAt(i, d, k) ==
  /\ inv[i].pc = "idle"
  /\ Core!ScheduleRead(i, d, k)
  /\ inv' = [inv EXCEPT ![i].pc = "claiming"]
  /\ UNCHANGED <<schedules, executions, performed>>

\* Core commits the claim and answers: runs not created are skipped.
ReceiveClaims(i, ids) ==
  /\ inv[i].pc = "claiming"
  /\ Core!ClaimRuns(i, ids)
  /\ inv' = [inv EXCEPT ![i] = Working({ids[p] : p \in DOMAIN ids})]
  /\ UNCHANGED <<schedules, executions, performed>>

\* _schedule_run, for a run whose response carries scheduled_for.
CreateSchedule(i, r) ==
  /\ inv[i].pc = "working" /\ r \in inv[i].todo
  /\ runs[r].delayed
  /\ schedules' = schedules \cup {r}
  /\ inv' = [inv EXCEPT ![i] = Working(inv[i].todo \ {r})]
  /\ UNCHANGED <<coreVars, executions, performed>>

\* Mutant: scheduled_for is not looked at.
StartAnyRun(i, r) ==
  /\ inv[i].pc = "working" /\ r \in inv[i].todo
  /\ inv' = [inv EXCEPT ![i] = Executing(r, inv[i].todo \ {r})]
  /\ executions' = [executions EXCEPT ![r] = @ + 1]
  /\ UNCHANGED <<coreVars, schedules, performed>>

\* _execute_run, for a run to be dispatched at once.
StartRun(i, r) ==
  /\ inv[i].pc = "working" /\ r \in inv[i].todo
  /\ ~runs[r].delayed
  /\ inv' = [inv EXCEPT ![i] = Executing(r, inv[i].todo \ {r})]
  /\ executions' = [executions EXCEPT ![r] = @ + 1]
  /\ UNCHANGED <<coreVars, schedules, performed>>

\* The scheduler's callback, first or repeated: fire_scheduled_run.  Core's
\* refusals (already fired) change nothing and are left out.
FireCallback(i, r) ==
  /\ inv[i].pc = "idle"
  /\ r \in schedules
  /\ Core!FireScheduledRun(r)
  /\ IF runs'[r].status = "dispatching"
     THEN /\ inv' = [inv EXCEPT ![i] = Executing(r, {})]
          /\ executions' = [executions EXCEPT ![r] = @ + 1]
     ELSE UNCHANGED <<inv, executions>>
  /\ UNCHANGED <<schedules, performed>>

-----------------------------------------------------------------------------
(* Executing *)

\* The action may have taken effect although the attempt is reported failed:
\* any exception of the HTTP client, a read timeout included, is transient.
MaybePerformed(r) == performed' \in {performed, [performed EXCEPT ![r] = @ + 1]}

Recording(i, outcome) ==
  inv' = [inv EXCEPT ![i].pc = "recording", ![i].outcome = outcome]

AttemptSucceeds(i) ==
  /\ inv[i].pc = "executing"
  /\ performed' = [performed EXCEPT ![inv[i].run] = @ + 1]
  /\ Recording(i, "succeeded")
  /\ UNCHANGED <<coreVars, schedules, executions>>

\* Mutant: one attempt too many.
AttemptFailsOneTooMany(i) ==
  /\ inv[i].pc = "executing"
  /\ MaybePerformed(inv[i].run)
  /\ IF inv[i].attempt > MaxAttempts
     THEN Recording(i, "failed")
     ELSE inv' = [inv EXCEPT ![i].attempt = @ + 1]
  /\ UNCHANGED <<coreVars, schedules, executions>>

\* TransientActionError: try again, or give up after the last attempt.
AttemptFailsTransiently(i) ==
  /\ inv[i].pc = "executing"
  /\ MaybePerformed(inv[i].run)
  /\ IF inv[i].attempt = MaxAttempts
     THEN Recording(i, "failed")
     ELSE inv' = [inv EXCEPT ![i].attempt = @ + 1]
  /\ UNCHANGED <<coreVars, schedules, executions>>

\* Any other exception, an unknown action_type included.
AttemptFailsPermanently(i) ==
  /\ inv[i].pc = "executing"
  /\ MaybePerformed(inv[i].run)
  /\ Recording(i, "failed")
  /\ UNCHANGED <<coreVars, schedules, executions>>

\* _record, then the next claimed run.
Record(i) ==
  /\ inv[i].pc = "recording"
  /\ Core!RecordResult(inv[i].run, inv[i].outcome)
  /\ inv' = [inv EXCEPT ![i] = Working(inv[i].todo)]
  /\ UNCHANGED <<schedules, executions, performed>>

\* The invocation dies, and with it whatever it held; so does its open request.
Crash(i) ==
  /\ inv[i].pc # "idle"
  /\ inv' = [inv EXCEPT ![i] = Idle]
  /\ IF inv[i].pc = "claiming" THEN Core!AbortClaim(i) ELSE UNCHANGED coreVars
  /\ UNCHANGED <<schedules, executions, performed>>

-----------------------------------------------------------------------------
(* Around the invocations *)

ReapSelect(s) ==
  /\ Core!ReapSelect(s)
  /\ UNCHANGED <<inv, schedules, executions, performed>>

ReapCommit(s) ==
  /\ Core!ReapCommit(s)
  /\ UNCHANGED <<inv, schedules, executions, performed>>

AbortReap(s) ==
  /\ Core!AbortReap(s)
  /\ UNCHANGED <<inv, schedules, executions, performed>>

\* The lease: see the head of the module.
Age(r) ==
  /\ runs[r].status = "scheduled" \/ \A i \in Callers : ~Holds(i, r)
  /\ Core!Age(r)
  /\ UNCHANGED <<inv, schedules, executions, performed>>

EditDefinition(d) ==
  /\ Core!EditDefinition(d)
  /\ UNCHANGED <<inv, schedules, executions, performed>>

-----------------------------------------------------------------------------

\* What an invocation that has begun does next.
Step(i) ==
  \/ \E ids \in [Core!Unclaimed(i) -> Core!FreeIds] : ReceiveClaims(i, ids)
  \/ \E r \in RunIds : CreateSchedule(i, r) \/ StartRun(i, r)
  \/ AttemptSucceeds(i)
  \/ AttemptFailsTransiently(i)
  \/ AttemptFailsPermanently(i)
  \/ Record(i)
  \/ Crash(i)

Next ==
  \/ \E i \in Callers, e \in Events : ProcessEvent(i, e)
  \/ \E i \in Callers, d \in Definitions, k \in ScheduleKeys : RequestRunAt(i, d, k)
  \/ \E i \in Callers, r \in RunIds : FireCallback(i, r)
  \/ \E i \in Callers : Step(i)
  \/ \E s \in Sweepers : ReapSelect(s) \/ ReapCommit(s) \/ AbortReap(s)
  \/ \E r \in RunIds : Age(r)
  \/ \E d \in Definitions : EditDefinition(d)

\* An invocation goes on or dies (the Lambda timeout); the clock runs; the
\* reap tick comes again and again, and not every sweep fails.
Fairness ==
  /\ \A i \in Callers : WF_vars(Step(i))
  /\ \A r \in RunIds : WF_vars(Age(r))
  /\ \A s \in Sweepers : WF_vars(ReapSelect(s)) /\ SF_vars(ReapCommit(s))

Spec == Init /\ [][Next]_vars
FairSpec == Spec /\ Fairness

-----------------------------------------------------------------------------
(* Properties *)

\* Every variable stays in its type.
TypeOK ==
  /\ Core!TypeOK
  /\ inv \in [Callers -> Invocation]
  /\ schedules \subseteq RunIds
  /\ executions \in [RunIds -> Nat]
  /\ performed \in [RunIds -> Nat]

\* A run skipped because its definition was disabled or deleted while it waited
\* has not been executed, and a delayed run is executed only after its schedule
\* was created.
DelayedRunsAreChecked ==
  \A r \in RunIds :
    /\ runs[r].status = "skipped" => executions[r] = 0
    /\ runs[r].delayed /\ executions[r] > 0 => r \in schedules

\* Every event that matches a definition gets a run of that definition that was
\* made for it and no other event: "one run per (definition, event)"
\* (_idempotency_key, _dedupe_key).  A payload-less tick is such an event.
EveryEventGetsItsRun ==
  [][\A i \in Callers :
       (\E ids \in [Core!Unclaimed(i) -> Core!FreeIds] : ReceiveClaims(i, ids))
       => \A p \in request[i].seen :
            \E r \in RunIds : /\ runs'[r].definition = p[1]
                             /\ runs'[r].event = request[i].event]_vars

\* The sweep fails only orphans: no live invocation holds a run when it is
\* reaped, also when it waited for weeks before it was fired (updated_at).
OnlyOrphansAreReaped ==
  [][\A r \in RunIds : "reap" \in log'[r] \ log[r]
                       => \A i \in Callers : ~Holds(i, r)]_vars

\* However often its event or its schedule's callback is delivered and wherever
\* invocations die, a run is executed by one invocation at most, not after it
\* has ended, and its outcome is final: neither a late result nor a sweep changes
\* it, although record_result has no guard of its own (_claim_run's created flag,
\* fire_scheduled_run's conditional UPDATE, the lease).
Outcome == [r \in RunIds |-> IF runs[r].status \in Core!Results THEN runs[r].status
                             ELSE None]
Contract == INSTANCE OnceOnlyWork WITH
  Works <- RunIds, Outcomes <- Core!Results, starts <- executions, outcome <- Outcome
ExecutedOnceAndFinal == Contract!Spec

\* A claimed run does not stay in flight: it is recorded by its invocation, or,
\* when that died, failed by a sweep (reap_stale_runs).
ClaimedRunsSettle ==
  \A r \in RunIds :
    runs[r].status \in Core!InFlight ~> runs[r].status \in Core!Results

\* The promise of the plugin's README: a replayed event fires each action
\* exactly once, so never more than once.
ActionsFireAtMostOnce == \A r \in RunIds : performed[r] <= 1

\* The promise of POST /runs/schedule: the engine creates the schedule of the
\* run that was claimed.
ScheduledRunsGetASchedule ==
  \A r \in RunIds : runs[r].status = "scheduled" ~> r \in schedules
=============================================================================
