------------------------- MODULE Orchestrator_proofs -------------------------
(***************************************************************************)
(* For every set of definitions, events, runs, invocations and sweeps:     *)
(* the orchestrator's steps are steps of the store (WorkflowRuns), a run   *)
(* is executed once at most and its outcome is final (OnceOnlyWork), a     *)
(* delayed run only after its schedule was created, and a sweep fails only *)
(* runs that no invocation holds.                                          *)
(***************************************************************************)
EXTENDS Orchestrator, TLAPS

CoreProofs == INSTANCE WorkflowRuns_proofs

-----------------------------------------------------------------------------
(* The invocations *)

\* What each stage of an invocation has in hand.
Stage(v) ==
  /\ v.pc = "idle" => v = Idle
  /\ v.pc = "claiming" => v.todo = {}
  /\ v.pc \in {"claiming", "working"} => v.run = None
  /\ v.pc \in {"executing", "recording"} => v.run \in RunIds
  /\ v.pc = "executing" => v.attempt \in 1..MaxAttempts
  /\ v.pc = "recording" => v.outcome \in {"succeeded", "failed"}

Typed ==
  /\ inv \in [Callers -> Invocation]
  /\ \A i \in Callers : Stage(inv[i])
  /\ schedules \subseteq RunIds
  /\ executions \in [RunIds -> Nat]
  /\ performed \in [RunIds -> Nat]

\* Every sandbox starts idle.
LEMMA TypedInit == Init => Typed
BY MaxAttemptsAssumption DEF Init, Typed, Stage, Idle, Invocation

\* An invocation that goes to a stage with what belongs to it.
LEMMA NewStage ==
  ASSUME Typed, NEW i \in Callers, NEW v \in Invocation, Stage(v),
         inv' = [inv EXCEPT ![i] = v],
         schedules' \subseteq RunIds, executions' \in [RunIds -> Nat],
         performed' \in [RunIds -> Nat]
  PROVE  Typed'
<1>1. \A j \in Callers : inv'[j] = IF j = i THEN v ELSE inv[j]
  BY DEF Typed
<1>2. \A j \in Callers : Stage(inv'[j])
  BY <1>1 DEF Typed
<1> QED
  BY <1>1, <1>2 DEF Typed, Stage

\* The stages between the claims and the executions.
LEMMA Stages ==
  ASSUME NEW todo \in SUBSET RunIds
  PROVE  /\ Idle \in Invocation /\ Stage(Idle)
         /\ Working(todo) \in Invocation /\ Stage(Working(todo))
         /\ \A r \in RunIds : Executing(r, todo) \in Invocation /\ Stage(Executing(r, todo))
<1>1. Idle \in Invocation /\ Stage(Idle)
  BY MaxAttemptsAssumption DEF Idle, Invocation, Stage
<1>2. Working(todo) \in Invocation /\ Stage(Working(todo))
  <2>1. CASE todo = {}
    BY <1>1, <2>1 DEF Working
  <2>2. CASE todo # {}
    <3>1. Working(todo) = [pc |-> "working", todo |-> todo, run |-> None, attempt |-> 0,
                           outcome |-> "none"]
      BY <2>2 DEF Working, Idle
    <3> QED
      BY <3>1, MaxAttemptsAssumption DEF Invocation, Stage
  <2> QED
    BY <2>1, <2>2
<1>3. ASSUME NEW r \in RunIds
      PROVE  Executing(r, todo) \in Invocation /\ Stage(Executing(r, todo))
  <2>2. 1 \in 1..MaxAttempts /\ 1 \in 0..MaxAttempts
    BY MaxAttemptsAssumption
  <2>3. Executing(r, todo) \in Invocation
    BY <2>2 DEF Executing, Invocation
  <2>4. Stage(Executing(r, todo))
    BY <2>2 DEF Executing, Stage
  <2> QED
    BY <2>3, <2>4
<1> QED
  BY <1>1, <1>2, <1>3

\* Counting one more keeps a count.
LEMMA Counted ==
  ASSUME NEW f \in [RunIds -> Nat], NEW r \in RunIds
  PROVE  [f EXCEPT ![r] = @ + 1] \in [RunIds -> Nat]
OBVIOUS

\* Every step keeps the invocations in their types and stages.
LEMMA TypedStep == Typed /\ [Next]_vars => Typed'
<1> SUFFICES ASSUME Typed, [Next]_vars
             PROVE  Typed'
  OBVIOUS
<1>0. /\ inv \in [Callers -> Invocation] /\ schedules \subseteq RunIds
      /\ executions \in [RunIds -> Nat] /\ performed \in [RunIds -> Nat]
      /\ \A i \in Callers : inv[i] \in Invocation /\ Stage(inv[i])
  BY DEF Typed
<1>1. ASSUME NEW i \in Callers,
             \/ \E e \in Events : ProcessEvent(i, e)
             \/ \E d \in Definitions, k \in ScheduleKeys : RequestRunAt(i, d, k)
      PROVE  Typed'
  <2> DEFINE v == [inv[i] EXCEPT !.pc = "claiming"]
  <2>1. inv[i] = Idle
    BY <1>0, <1>1 DEF ProcessEvent, RequestRunAt, Stage
  <2>2. v = [pc |-> "claiming", todo |-> {}, run |-> None, attempt |-> 0, outcome |-> "none"]
    BY <2>1 DEF Idle
  <2>3. v \in Invocation /\ Stage(v)
    BY <2>2, MaxAttemptsAssumption DEF Invocation, Stage
  <2>4. inv' = [inv EXCEPT ![i] = v] /\ UNCHANGED <<schedules, executions, performed>>
    BY <1>1 DEF ProcessEvent, RequestRunAt
  <2> HIDE DEF v
  <2> QED
    BY <1>0, <2>3, <2>4, NewStage
<1>2. ASSUME NEW i \in Callers, NEW r \in RunIds, FireCallback(i, r)
      PROVE  Typed'
  <2>1. CASE UNCHANGED <<inv, executions>>
    BY <1>2, <2>1 DEF FireCallback, Typed
  <2>2. CASE /\ inv' = [inv EXCEPT ![i] = Executing(r, {})]
             /\ executions' = [executions EXCEPT ![r] = @ + 1]
    <3>1. Executing(r, {}) \in Invocation /\ Stage(Executing(r, {}))
      BY Stages
    <3> QED
      BY <1>0, <1>2, <2>2, <3>1, NewStage, Counted DEF FireCallback
  <2> QED
    BY <1>2, <2>1, <2>2 DEF FireCallback
<1>3. ASSUME NEW i \in Callers, Step(i)
      PROVE  Typed'
  <2>1. inv[i].todo \in SUBSET RunIds
    BY <1>0 DEF Invocation
  <2>2. ASSUME NEW ids \in [Core!Unclaimed(i) -> Core!FreeIds], ReceiveClaims(i, ids)
        PROVE  Typed'
    <3>1. {ids[p] : p \in DOMAIN ids} \in SUBSET RunIds
      BY DEF Core!FreeIds
    <3> QED
      BY <1>0, <2>2, <3>1, Stages, NewStage DEF ReceiveClaims
  <2>3. ASSUME NEW r \in RunIds, CreateSchedule(i, r)
        PROVE  Typed'
    <3>1. inv[i].todo \ {r} \in SUBSET RunIds
      BY <2>1
    <3> QED
      BY <1>0, <2>3, <3>1, Stages, NewStage DEF CreateSchedule
  <2>4. ASSUME NEW r \in RunIds, StartRun(i, r)
        PROVE  Typed'
    <3>1. inv[i].todo \ {r} \in SUBSET RunIds
      BY <2>1
    <3> QED
      BY <1>0, <2>4, <3>1, Stages, NewStage, Counted DEF StartRun
  <2>5. ASSUME NEW outcome \in {"succeeded", "failed"}, inv[i].pc = "executing",
               Recording(i, outcome), performed' \in [RunIds -> Nat],
               UNCHANGED <<schedules, executions>>
        PROVE  Typed'
    <3> DEFINE v == [inv[i] EXCEPT !.pc = "recording", !.outcome = outcome]
    <3>1. v \in Invocation /\ v.pc = "recording" /\ v.run = inv[i].run /\ v.outcome = outcome
      BY <1>0 DEF Invocation
    <3>2. inv' = [inv EXCEPT ![i] = v]
      BY <2>5 DEF Recording
    <3>3. inv[i].run \in RunIds
      BY <1>0, <2>5 DEF Stage
    <3> HIDE DEF v
    <3>4. Stage(v)
      BY <3>1, <3>3 DEF Stage
    <3> QED
      BY <1>0, <2>5, <3>1, <3>2, <3>4, NewStage
  <2>6. inv[i].pc = "executing" /\ MaybePerformed(inv[i].run)
        => performed' \in [RunIds -> Nat]
    BY <1>0, Counted DEF MaybePerformed, Stage
  <2>7. CASE AttemptSucceeds(i)
    <3>1. performed' \in [RunIds -> Nat]
      BY <1>0, <2>7, Counted DEF AttemptSucceeds, Stage
    <3> QED
      BY <2>5, <2>7, <3>1 DEF AttemptSucceeds
  <2>8. CASE AttemptFailsPermanently(i)
    BY <2>5, <2>6, <2>8 DEF AttemptFailsPermanently
  <2>9. CASE AttemptFailsTransiently(i)
    <3>1. CASE inv[i].attempt = MaxAttempts
      BY <2>5, <2>6, <2>9, <3>1 DEF AttemptFailsTransiently
    <3>2. CASE inv[i].attempt # MaxAttempts
      <4> DEFINE v == [inv[i] EXCEPT !.attempt = @ + 1]
      <4>1. inv[i].attempt \in 1..MaxAttempts /\ inv[i].pc = "executing"
        BY <1>0, <2>9 DEF AttemptFailsTransiently, Stage
      <4>2. inv[i].attempt + 1 \in 1..MaxAttempts /\ inv[i].attempt + 1 \in 0..MaxAttempts
        BY <3>2, <4>1, MaxAttemptsAssumption
      <4>3. /\ v \in Invocation /\ v.pc = "executing" /\ v.run = inv[i].run
            /\ v.attempt = inv[i].attempt + 1
        BY <1>0, <4>1, <4>2 DEF Invocation
      <4>4. inv' = [inv EXCEPT ![i] = v] /\ UNCHANGED <<schedules, executions>>
        BY <2>9, <3>2 DEF AttemptFailsTransiently
      <4> HIDE DEF v
      <4>5. Stage(v)
        BY <1>0, <4>1, <4>2, <4>3 DEF Stage
      <4> QED
        BY <1>0, <2>6, <2>9, <4>1, <4>3, <4>4, <4>5, NewStage DEF AttemptFailsTransiently
    <3> QED
      BY <3>1, <3>2
  <2>10. CASE Record(i)
    BY <1>0, <2>1, <2>10, Stages, NewStage DEF Record
  <2>11. CASE Crash(i)
    BY <1>0, <2>11, Stages, NewStage DEF Crash
  <2> QED
    BY <1>3, <2>2, <2>3, <2>4, <2>7, <2>8, <2>9, <2>10, <2>11 DEF Step
<1>4. UNCHANGED <<inv, schedules, executions, performed>> => Typed'
  BY DEF Typed, Stage
<1> QED
  BY <1>1, <1>2, <1>3, <1>4
  DEF Next, ReapSelect, ReapCommit, AbortReap, Age, EditDefinition, vars

-----------------------------------------------------------------------------
(* The store *)

\* A key the plugin sends is a key.
LEMMA PluginKeys == \A e \in Events : IdempotencyKeys(e) \subseteq Keys
BY KeyOfAssumption DEF IdempotencyKeys, FreshKeys

\* A step of an invocation, a request or the clock is a step of the store.
LEMMA CoreStep == Typed /\ [Next]_vars => [CoreProofs!Next]_CoreProofs!vars
<1> SUFFICES ASSUME Typed, [Next]_vars
             PROVE  [CoreProofs!Next]_CoreProofs!vars
  OBVIOUS
<1>1. ASSUME NEW i \in Callers, NEW e \in Events, ProcessEvent(i, e)
      PROVE  CoreProofs!Next
  <2>1. PICK k \in Keys : Core!DispatchRead(i, e, k)
    BY <1>1, PluginKeys DEF ProcessEvent
  <2>2. CoreProofs!DispatchRead(i, e, k)
    BY <2>1 DEF Core!DispatchRead, CoreProofs!DispatchRead, Core!NoRequest,
                CoreProofs!NoRequest, Core!InitialStatus, CoreProofs!InitialStatus,
                Core!MatchedBy, CoreProofs!MatchedBy, Core!Runnable, CoreProofs!Runnable
  <2> QED
    BY <2>2 DEF CoreProofs!Claim, CoreProofs!Next
<1>2. ASSUME NEW i \in Callers, NEW d \in Definitions, NEW k \in ScheduleKeys,
             RequestRunAt(i, d, k)
      PROVE  CoreProofs!Next
  <2>1. CoreProofs!ScheduleRead(i, d, k)
    BY <1>2 DEF RequestRunAt, Core!ScheduleRead, CoreProofs!ScheduleRead, Core!NoRequest,
                CoreProofs!NoRequest, Core!Runnable, CoreProofs!Runnable
  <2>2. k \in Keys
    BY ScheduleKeysAssumption
  <2> QED
    BY <2>1, <2>2 DEF CoreProofs!Claim, CoreProofs!Next
<1>3. ASSUME NEW i \in Callers, NEW r \in RunIds, FireCallback(i, r)
      PROVE  CoreProofs!Next
  <2>1. CoreProofs!FireScheduledRun(r)
    BY <1>3 DEF FireCallback, Core!FireScheduledRun, CoreProofs!FireScheduledRun,
                Core!Moved, CoreProofs!Moved, Core!Fired, CoreProofs!Fired,
                Core!Runnable, CoreProofs!Runnable
  <2> QED
    BY <2>1 DEF CoreProofs!Next
<1>4. ASSUME NEW i \in Callers, NEW ids \in [Core!Unclaimed(i) -> Core!FreeIds],
             ReceiveClaims(i, ids)
      PROVE  CoreProofs!Next
  <2>1. /\ Core!Unclaimed(i) = CoreProofs!Unclaimed(i)
        /\ Core!FreeIds = CoreProofs!FreeIds
        /\ Core!Inserted(i, ids) = CoreProofs!Inserted(i, ids)
    BY DEF Core!Unclaimed, CoreProofs!Unclaimed, Core!Claimed, CoreProofs!Claimed,
           Core!Exists, CoreProofs!Exists, Core!FreeIds, CoreProofs!FreeIds,
           Core!Inserted, CoreProofs!Inserted
  <2>2. CoreProofs!ClaimRuns(i, ids)
    BY <1>4, <2>1 DEF ReceiveClaims, Core!ClaimRuns, CoreProofs!ClaimRuns,
                      Core!NoRequest, CoreProofs!NoRequest
  <2> QED
    BY <2>1, <2>2 DEF CoreProofs!Claim, CoreProofs!Next
<1>5. ASSUME NEW i \in Callers, Record(i)
      PROVE  CoreProofs!Next
  <2>1. inv[i].run \in RunIds /\ inv[i].outcome \in CoreProofs!Results
    BY <1>5 DEF Typed, Stage, Record, CoreProofs!Results
  <2>2. CoreProofs!RecordResult(inv[i].run, inv[i].outcome)
    BY <1>5 DEF Record, Core!RecordResult, CoreProofs!RecordResult, Core!Exists,
                CoreProofs!Exists, Core!Moved, CoreProofs!Moved
  <2> QED
    BY <2>1, <2>2 DEF CoreProofs!Next
<1>6. ASSUME NEW i \in Callers, Crash(i)
      PROVE  [CoreProofs!Next]_CoreProofs!vars
  <2>1. Core!AbortClaim(i) => CoreProofs!AbortClaim(i)
    BY DEF Core!AbortClaim, CoreProofs!AbortClaim, Core!NoRequest, CoreProofs!NoRequest
  <2>2. Core!AbortClaim(i) => CoreProofs!Next
    BY <2>1 DEF CoreProofs!Claim, CoreProofs!Next
  <2> QED
    BY <1>6, <2>2 DEF Crash, coreVars, CoreProofs!vars
<1>7. ASSUME NEW i \in Callers, Step(i)
      PROVE  [CoreProofs!Next]_CoreProofs!vars
  <2>1. ASSUME \/ \E r \in RunIds : CreateSchedule(i, r) \/ StartRun(i, r)
               \/ AttemptSucceeds(i)
               \/ AttemptFailsTransiently(i)
               \/ AttemptFailsPermanently(i)
        PROVE  UNCHANGED CoreProofs!vars
    BY <2>1 DEF CreateSchedule, StartRun, AttemptSucceeds, AttemptFailsTransiently,
                AttemptFailsPermanently, coreVars, CoreProofs!vars
  <2> QED
    BY <1>4, <1>5, <1>6, <1>7, <2>1 DEF Step
<1>8. ASSUME NEW s \in Sweepers, ReapSelect(s) \/ ReapCommit(s) \/ AbortReap(s)
      PROVE  CoreProofs!Next
  <2>1. Core!ReapSelect(s) => CoreProofs!ReapSelect(s)
    BY DEF Core!ReapSelect, CoreProofs!ReapSelect, Core!Stale, CoreProofs!Stale,
           Core!InFlight, CoreProofs!InFlight
  <2>2. Core!ReapCommit(s) => CoreProofs!ReapCommit(s)
    BY DEF Core!ReapCommit, CoreProofs!ReapCommit, Core!Reapable, CoreProofs!Reapable,
           Core!Reaped, CoreProofs!Reaped, Core!Moved, CoreProofs!Moved
  <2>3. Core!AbortReap(s) => CoreProofs!AbortReap(s)
    BY DEF Core!AbortReap, CoreProofs!AbortReap
  <2> QED
    BY <1>8, <2>1, <2>2, <2>3
    DEF ReapSelect, ReapCommit, AbortReap, CoreProofs!Sweep, CoreProofs!Next
<1>9. ASSUME NEW r \in RunIds, Age(r)
      PROVE  CoreProofs!Next
  <2>1. CoreProofs!Age(r)
    BY <1>9 DEF Age, Core!Age, CoreProofs!Age, Core!InFlight, CoreProofs!InFlight
  <2> QED
    BY <2>1 DEF CoreProofs!Next
<1>10. ASSUME NEW d \in Definitions, EditDefinition(d)
       PROVE  CoreProofs!Next
  <2>1. CoreProofs!EditDefinition(d)
    BY <1>10
    DEF EditDefinition, Core!EditDefinition, CoreProofs!EditDefinition,
        Core!CreateDefinition, CoreProofs!CreateDefinition, Core!UpdateDefinition,
        CoreProofs!UpdateDefinition, Core!SetDefinitionEnabled,
        CoreProofs!SetDefinitionEnabled, Core!DeleteDefinition,
        CoreProofs!DeleteDefinition, Core!Written, CoreProofs!Written,
        Core!NoDefinition, CoreProofs!NoDefinition
  <2> QED
    BY <2>1 DEF CoreProofs!Next
<1>11. UNCHANGED vars => UNCHANGED CoreProofs!vars
  BY DEF vars, coreVars, CoreProofs!vars
<1> QED
  BY <1>1, <1>2, <1>3, <1>7, <1>8, <1>9, <1>10, <1>11 DEF Next

\* The store's types.
StoreOK == CoreProofs!TypeOK

\* They are the types Orchestrator states of its store.
LEMMA StoreTypes ==
  ASSUME StoreOK
  PROVE  Core!TypeOK
BY DEF StoreOK, CoreProofs!TypeOK, CoreProofs!Definition, CoreProofs!Run,
       CoreProofs!Request, CoreProofs!Statuses, CoreProofs!InFlight, CoreProofs!Results,
       Core!TypeOK, Core!Definition, Core!Run, Core!Request, Core!Statuses,
       Core!InFlight, Core!Results

\* The store starts as WorkflowRuns says.
LEMMA StoreInit == Init => StoreOK
<1>1. Core!Init => CoreProofs!Init
  BY DEF Core!Init, CoreProofs!Init, Core!NoDefinition, CoreProofs!NoDefinition,
         Core!NoRun, CoreProofs!NoRun, Core!NoRequest, CoreProofs!NoRequest
<1>2. None \notin Keys \cup Definitions \cup Events
  BY NoneAssumption
<1> QED
  BY <1>1, <1>2, MatchingsAssumption, CoreProofs!TypeInit DEF Init, StoreOK

\* And keeps its types.
LEMMA StoreStep == StoreOK /\ Typed /\ [Next]_vars => StoreOK'
<1>1. None \notin Keys \cup Definitions \cup Events
  BY NoneAssumption
<1> QED
  BY <1>1, CoreStep, MatchingsAssumption, CoreProofs!TypeStep DEF StoreOK

-----------------------------------------------------------------------------
(* The inductive invariant *)

\* A run is in one pair of hands at most, and there claimed or executed, not both.
HeldOnce ==
  \A r \in RunIds : \A i, j \in Callers :
    /\ Holds(i, r) /\ Holds(j, r) => i = j
    /\ ~(r = inv[i].run /\ r \in inv[i].todo)

\* A claimed run that waits for its turn is as it was inserted.
TodoUntouched ==
  \A i \in Callers, r \in RunIds :
    r \in inv[i].todo =>
      /\ executions[r] = 0
      /\ r \notin schedules
      /\ runs[r].status = IF runs[r].delayed THEN "scheduled" ELSE "pending"

\* A run that is being executed or recorded has no outcome yet.
RunOpen ==
  \A i \in Callers, r \in RunIds : r = inv[i].run => runs[r].status \in Core!InFlight

\* The lease: no sweep has selected a run that is held, nor will one.
HeldYoung ==
  \A i \in Callers, r \in RunIds :
    Holds(i, r) /\ runs[r].status \in Core!InFlight =>
      /\ ~runs[r].aged
      /\ \A s \in Sweepers : <<r, runs[r].status>> \notin sweep[s]

\* A run that waits for its fire time, or was skipped then, has not been executed.
Waiting ==
  \A r \in RunIds :
    /\ runs[r].status \in {"absent", "scheduled", "skipped"} => executions[r] = 0
    /\ runs[r].status = "scheduled" => runs[r].delayed
    /\ r \in schedules => runs[r].delayed /\ runs[r].status # "absent"
    /\ runs[r].delayed /\ executions[r] > 0 => r \in schedules

\* Snapshots are of rows, and no fired run is scheduled again.
Snapshots ==
  \A s \in Sweepers, r \in RunIds :
    /\ \A status \in Core!InFlight : <<r, status>> \in sweep[s] => runs[r].status # "absent"
    /\ <<r, "dispatching">> \in sweep[s] => runs[r].status # "scheduled"

Hands == HeldOnce /\ TodoUntouched /\ RunOpen /\ HeldYoung /\ Waiting /\ Snapshots

IInv == StoreOK /\ Typed /\ Hands

\* At the start nobody holds anything.
LEMMA HandsInit == Init => Hands
<1> SUFFICES ASSUME Init
             PROVE  Hands
  OBVIOUS
<1>1. \A i \in Callers, r \in RunIds : r # inv[i].run /\ r \notin inv[i].todo
  BY NoneAssumption DEF Init, Idle
<1>2. \A r \in RunIds : runs[r].status = "absent" /\ ~runs[r].delayed /\ executions[r] = 0
  BY DEF Init, Core!Init, Core!NoRun
<1>3. schedules = {} /\ \A s \in Sweepers : sweep[s] = {}
  BY DEF Init, Core!Init
<1> QED
  BY <1>1, <1>2, <1>3
  DEF Hands, HeldOnce, TodoUntouched, RunOpen, HeldYoung, Waiting, Snapshots, Holds

\* Hands only let go.
LettingGo ==
  \A i \in Callers, r \in RunIds :
    /\ r \in inv'[i].todo => r \in inv[i].todo
    /\ r = inv'[i].run => r = inv[i].run

SweepsShrink == \A s \in Sweepers : sweep'[s] \subseteq sweep[s]

\* Hands that only let go still hold each run once.
LEMMA HeldLess ==
  ASSUME Hands, LettingGo
  PROVE  HeldOnce' /\ \A i \in Callers, r \in RunIds : Holds(i, r)' => Holds(i, r)
<1>1. \A i \in Callers, r \in RunIds : Holds(i, r)' => Holds(i, r)
  BY DEF LettingGo, Holds
<1> QED
  BY <1>1 DEF Hands, HeldOnce, LettingGo

\* No row changes.
LEMMA SameRows ==
  ASSUME Hands, LettingGo, SweepsShrink, UNCHANGED <<runs, schedules, executions>>
  PROVE  Hands' /\ UNCHANGED Outcome
<1>1. HeldOnce' /\ \A i \in Callers, r \in RunIds : Holds(i, r)' => Holds(i, r)
  BY HeldLess
<1>2. TodoUntouched'
  BY DEF Hands, TodoUntouched, LettingGo
<1>3. RunOpen'
  BY DEF Hands, RunOpen, LettingGo
<1>4. HeldYoung'
  BY <1>1 DEF Hands, HeldYoung, SweepsShrink
<1>5. Waiting'
  BY DEF Hands, Waiting
<1>6. Snapshots'
  BY DEF Hands, Snapshots, SweepsShrink
<1>7. UNCHANGED Outcome
  BY DEF Outcome
<1> QED
  BY <1>1, <1>2, <1>3, <1>4, <1>5, <1>6, <1>7 DEF Hands

\* Rows that nobody holds any more end together.
LEMMA EndRows ==
  ASSUME Hands, LettingGo, SweepsShrink, UNCHANGED <<schedules, executions>>,
         NEW ended \in SUBSET RunIds, NEW o \in Core!Results,
         \A r \in ended : /\ runs[r].status \notin Core!Results \cup {"absent"}
                          /\ runs'[r].status = o
                          /\ runs'[r].delayed = runs[r].delayed
                          /\ o = "skipped" => executions[r] = 0
                          /\ \A i \in Callers : ~Holds(i, r)',
         \A r \in RunIds \ ended : runs'[r] = runs[r]
  PROVE  Hands' /\ Contract!End(ended, o)
<1>1. HeldOnce' /\ \A i \in Callers, r \in RunIds : Holds(i, r)' => Holds(i, r)
  BY HeldLess
<1>2. o \notin Core!InFlight \cup {"absent", "scheduled"}
  BY DEF Core!Results, Core!InFlight
<1>3. TodoUntouched'
  BY DEF Hands, TodoUntouched, LettingGo, Holds
<1>4. RunOpen'
  BY DEF Hands, RunOpen, LettingGo, Holds
<1>5. HeldYoung'
  BY <1>1 DEF Hands, HeldYoung, SweepsShrink
<1>6. Waiting'
  BY <1>2 DEF Hands, Waiting
<1>7. Snapshots'
  BY <1>2 DEF Hands, Snapshots, SweepsShrink
<1>8. Contract!End(ended, o)
  BY DEF Contract!End, Outcome
<1> QED
  BY <1>1, <1>3, <1>4, <1>5, <1>6, <1>7, <1>8 DEF Hands
-----------------------------------------------------------------------------
(* What each step does to the hands and to the contract *)

\* An invocation that keeps at most what it had; the others are not touched.
LEMMA LetGo ==
  ASSUME Typed, NEW i \in Callers, NEW v, inv' = [inv EXCEPT ![i] = v],
         v.todo \subseteq inv[i].todo, v.run \in {inv[i].run, None}
  PROVE  LettingGo
<1>1. \A j \in Callers : inv'[j] = IF j = i THEN v ELSE inv[j]
  BY DEF Typed
<1> QED
  BY <1>1, NoneAssumption DEF LettingGo

\* What is left of an invocation holds what is left to do.
LEMMA WorkingHands ==
  ASSUME NEW todo
  PROVE  Working(todo).todo = todo /\ Working(todo).run = None
BY DEF Working, Idle

\* A run leaves the hands of its invocation for its schedule.
LEMMA ScheduleKeeps ==
  ASSUME IInv, NEW i \in Callers, NEW r \in RunIds, CreateSchedule(i, r)
  PROVE  Hands' /\ UNCHANGED Contract!vars
<1>1. /\ r \in inv[i].todo /\ runs[r].delayed
      /\ schedules' = schedules \cup {r}
      /\ inv' = [inv EXCEPT ![i] = Working(inv[i].todo \ {r})]
      /\ UNCHANGED <<runs, sweep, executions>>
  BY DEF CreateSchedule, coreVars
<1>2. LettingGo
  BY <1>1, LetGo, WorkingHands DEF IInv
<1>3. HeldOnce' /\ \A j \in Callers, q \in RunIds : Holds(j, q)' => Holds(j, q)
  BY <1>2, HeldLess DEF IInv
<1>4. \A j \in Callers : r \notin inv'[j].todo
  <2>1. Holds(i, r)
    BY <1>1 DEF Holds
  <2>2. \A j \in Callers \ {i} : inv'[j] = inv[j] /\ ~Holds(j, r)
    BY <1>1, <2>1 DEF IInv, Typed, Hands, HeldOnce
  <2>3. inv'[i].todo = inv[i].todo \ {r}
    BY <1>1, WorkingHands DEF IInv, Typed
  <2> QED
    BY <2>2, <2>3 DEF Holds
<1>5. TodoUntouched'
  BY <1>1, <1>2, <1>4 DEF IInv, Hands, TodoUntouched, LettingGo
<1>6. RunOpen'
  BY <1>1, <1>2 DEF IInv, Hands, RunOpen, LettingGo
<1>7. HeldYoung'
  BY <1>1, <1>3 DEF IInv, Hands, HeldYoung
<1>8. Waiting'
  BY <1>1 DEF IInv, Hands, Waiting, TodoUntouched
<1>9. Snapshots'
  BY <1>1 DEF IInv, Hands, Snapshots
<1> QED
  BY <1>1, <1>3, <1>5, <1>6, <1>7, <1>8, <1>9 DEF Hands, Contract!vars, Outcome

\* An invocation begins to execute a run: nobody else has it, and it is new.
LEMMA StartKeeps ==
  ASSUME IInv, NEW i \in Callers, NEW r \in RunIds, StartRun(i, r)
  PROVE  Hands' /\ Contract!Start(r)
<1>1. /\ r \in inv[i].todo /\ ~runs[r].delayed
      /\ inv' = [inv EXCEPT ![i] = Executing(r, inv[i].todo \ {r})]
      /\ executions' = [executions EXCEPT ![r] = @ + 1]
      /\ inv[i].pc = "working"
      /\ UNCHANGED <<runs, sweep, schedules>>
  BY DEF StartRun, coreVars
<1>2. /\ inv'[i].todo = inv[i].todo \ {r} /\ inv'[i].run = r
      /\ \A j \in Callers \ {i} : inv'[j] = inv[j]
  BY <1>1 DEF IInv, Typed, Executing
<1>3. executions[r] = 0 /\ runs[r].status = "pending"
  BY <1>1 DEF IInv, Hands, TodoUntouched
<1>4. executions' = [executions EXCEPT ![r] = 1]
  BY <1>1, <1>3 DEF IInv, Typed
<1>5. executions'[r] = 1 /\ \A q \in RunIds \ {r} : executions'[q] = executions[q]
  BY <1>4 DEF IInv, Typed
<1>6. Holds(i, r) /\ \A j \in Callers \ {i} : ~Holds(j, r)
  BY <1>1 DEF IInv, Hands, HeldOnce, Holds
<1>7. \A j \in Callers, q \in RunIds : Holds(j, q)' => Holds(j, q)
  BY <1>2, <1>6 DEF Holds
<1>8. HeldOnce'
  BY <1>2, <1>7 DEF IInv, Hands, HeldOnce
<1>9. TodoUntouched'
  <2>1. \A j \in Callers, q \in RunIds :
          q \in inv'[j].todo => q \in inv[j].todo /\ q # r
    BY <1>2, <1>6 DEF Holds
  <2> QED
    BY <1>1, <1>5, <2>1 DEF IInv, Hands, TodoUntouched
<1>10. RunOpen'
  <2>1. \A j \in Callers, q \in RunIds : q = inv'[j].run => q = inv[j].run \/ q = r
    BY <1>2
  <2>2. runs[r].status \in Core!InFlight
    BY <1>3 DEF Core!InFlight
  <2> QED
    BY <1>1, <2>1, <2>2 DEF IInv, Hands, RunOpen
<1>11. HeldYoung'
  BY <1>1, <1>7 DEF IInv, Hands, HeldYoung
<1>12. Waiting'
  BY <1>1, <1>3, <1>5 DEF IInv, Hands, Waiting
<1>13. Snapshots'
  BY <1>1 DEF IInv, Hands, Snapshots
<1>14. Contract!Start(r)
  BY <1>1, <1>3, <1>4 DEF Contract!Start, Outcome, Core!Results
<1> QED
  BY <1>8, <1>9, <1>10, <1>11, <1>12, <1>13, <1>14 DEF Hands

\* A changed row.
LEMMA MovedRow ==
  ASSUME IInv, NEW r \in RunIds, NEW status \in Core!Statuses
  PROVE  /\ Core!Moved(runs[r], status).status = status
         /\ Core!Moved(runs[r], status).delayed = runs[r].delayed
         /\ ~Core!Moved(runs[r], status).aged
BY StoreTypes DEF IInv, Core!TypeOK, Core!Run, Core!Moved

\* A fired run is begun or skipped; until then it waited in nobody's hands.
LEMMA FireKeeps ==
  ASSUME IInv, NEW i \in Callers, NEW r \in RunIds, FireCallback(i, r)
  PROVE  Hands' /\ (Contract!Start(r) \/ Contract!End({r}, "skipped"))
<1>1. /\ inv[i].pc = "idle" /\ r \in schedules /\ runs[r].status = "scheduled"
      /\ runs' = [runs EXCEPT ![r] = Core!Moved(@, Core!Fired(r))]
      /\ UNCHANGED <<sweep, schedules>>
  BY DEF FireCallback, Core!FireScheduledRun
<1>2. Core!Fired(r) \in {"dispatching", "skipped"}
  BY DEF Core!Fired
<1>3. Core!Fired(r) \in Core!Statuses
  BY <1>2 DEF Core!Statuses, Core!InFlight, Core!Results
<1>4. /\ runs'[r].status = Core!Fired(r) /\ runs'[r].delayed = runs[r].delayed
      /\ ~runs'[r].aged
      /\ \A q \in RunIds \ {r} : runs'[q] = runs[q]
  BY <1>1, <1>3, MovedRow, StoreTypes DEF IInv, Core!TypeOK
<1>5. executions[r] = 0 /\ runs[r].delayed
  BY <1>1 DEF IInv, Hands, Waiting
<1>6. \A j \in Callers : ~Holds(j, r)
  BY <1>1 DEF IInv, Hands, TodoUntouched, RunOpen, Holds, Core!InFlight
<1>7. CASE Core!Fired(r) = "dispatching"
  <2>1. /\ inv' = [inv EXCEPT ![i] = Executing(r, {})]
        /\ executions' = [executions EXCEPT ![r] = @ + 1]
    BY <1>4, <1>7 DEF FireCallback
  <2>2. executions' = [executions EXCEPT ![r] = 1]
    BY <1>5, <2>1 DEF IInv, Typed
  <2>3. executions'[r] = 1 /\ \A q \in RunIds \ {r} : executions'[q] = executions[q]
    BY <2>2 DEF IInv, Typed
  <2>4. /\ inv'[i].todo = {} /\ inv'[i].run = r
        /\ \A j \in Callers \ {i} : inv'[j] = inv[j]
    BY <2>1 DEF IInv, Typed, Executing
  <2>5. \A j \in Callers, q \in RunIds : Holds(j, q)' => Holds(j, q) \/ (j = i /\ q = r)
    BY <2>4 DEF Holds
  <2>6. HeldOnce'
    BY <1>6, <2>4, <2>5 DEF IInv, Hands, HeldOnce
  <2>7. TodoUntouched'
    <3>1. \A j \in Callers, q \in RunIds :
            q \in inv'[j].todo => q \in inv[j].todo /\ q # r
      BY <1>6, <2>4 DEF Holds
    <3> QED
      BY <1>1, <1>4, <2>3, <3>1 DEF IInv, Hands, TodoUntouched
  <2>8. RunOpen'
    <3>1. \A j \in Callers, q \in RunIds : q = inv'[j].run => q = inv[j].run \/ q = r
      BY <2>4
    <3>2. runs'[r].status \in Core!InFlight
      BY <1>4, <1>7 DEF Core!InFlight
    <3> QED
      BY <1>4, <3>1, <3>2 DEF IInv, Hands, RunOpen
  <2>9. HeldYoung'
    <3>1. \A s \in Sweepers : <<r, "dispatching">> \notin sweep'[s]
      BY <1>1 DEF IInv, Hands, Snapshots
    <3> QED
      BY <1>1, <1>4, <1>7, <2>5, <3>1 DEF IInv, Hands, HeldYoung
  <2>10. Waiting'
    BY <1>1, <1>4, <1>5, <1>7, <2>3 DEF IInv, Hands, Waiting
  <2>11. Snapshots'
    BY <1>1, <1>4, <1>7 DEF IInv, Hands, Snapshots
  <2>12. UNCHANGED Outcome /\ Outcome[r] = None
    BY <1>1, <1>4, <1>7 DEF Outcome, Core!Results
  <2>13. Contract!Start(r)
    BY <1>5, <2>2, <2>12 DEF Contract!Start
  <2> QED
    BY <2>6, <2>7, <2>8, <2>9, <2>10, <2>11, <2>13 DEF Hands
<1>8. CASE Core!Fired(r) = "skipped"
  <2>1. UNCHANGED <<inv, executions, schedules>>
    BY <1>4, <1>8 DEF FireCallback
  <2>2. LettingGo /\ SweepsShrink
    BY <1>1, <2>1 DEF LettingGo, SweepsShrink
  <2>3. \A j \in Callers : ~Holds(j, r)'
    BY <1>6, <2>1 DEF Holds
  <2>4. \A q \in {r} : /\ runs[q].status \notin Core!Results \cup {"absent"}
                       /\ runs'[q].status = "skipped"
                       /\ runs'[q].delayed = runs[q].delayed
                       /\ executions[q] = 0
                       /\ \A j \in Callers : ~Holds(j, q)'
    BY <1>1, <1>4, <1>5, <1>8, <2>3 DEF Core!Results
  <2>5. {r} \in SUBSET RunIds /\ "skipped" \in Core!Results
    BY DEF Core!Results
  <2> QED
    BY <1>4, <2>1, <2>2, <2>4, <2>5, EndRows DEF IInv
<1> QED
  BY <1>2, <1>7, <1>8

\* What a claim does to a row: it is one of those inserted, or not touched.
LEMMA InsertedRow ==
  ASSUME IInv, NEW i \in Callers, NEW ids \in [Core!Unclaimed(i) -> Core!FreeIds],
         ReceiveClaims(i, ids), NEW r \in RunIds
  PROVE  /\ r \notin {ids[p] : p \in DOMAIN ids} => runs'[r] = runs[r]
         /\ r \in {ids[p] : p \in DOMAIN ids} =>
              /\ runs[r].status = "absent"
              /\ runs'[r].delayed => runs'[r].status = "scheduled"
              /\ ~runs'[r].delayed => runs'[r].status = "pending"
              /\ ~runs'[r].aged
<1>1. runs'[r] = Core!Inserted(i, ids)[r]
  BY DEF ReceiveClaims, Core!ClaimRuns
<1>2. CASE \E p \in DOMAIN ids : ids[p] = r
  <2> DEFINE p == CHOOSE p \in DOMAIN ids : ids[p] = r
  <2>1. p \in Core!Unclaimed(i) /\ ids[p] = r
    BY <1>2
  <2>2. p[2] \in {"pending", "scheduled"}
    BY <2>1, StoreTypes DEF IInv, Core!Unclaimed, Core!TypeOK, Core!Request
  <2>3. runs[r].status = "absent"
    BY <2>1 DEF Core!FreeIds, Core!Exists
  <2>4. runs'[r] = [definition |-> p[1], key |-> request[i].key, event |-> request[i].event,
                    status |-> p[2], delayed |-> p[2] = "scheduled", aged |-> FALSE]
    BY <1>1, <1>2 DEF Core!Inserted
  <2> HIDE DEF p
  <2>5. runs'[r].status = p[2]
    BY <2>4
  <2>6. runs'[r].aged = FALSE
    BY <2>4
  <2>7. runs'[r].delayed = (p[2] = "scheduled")
    BY <2>4
  <2> QED
    BY <1>2, <2>2, <2>3, <2>5, <2>6, <2>7
<1>3. CASE ~\E p \in DOMAIN ids : ids[p] = r
  BY <1>1, <1>3 DEF Core!Inserted
<1> QED
  BY <1>2, <1>3

\* The claimed runs are new: nobody had them, and no sweep has seen them.
LEMMA ClaimsKeep ==
  ASSUME IInv, NEW i \in Callers, NEW ids \in [Core!Unclaimed(i) -> Core!FreeIds],
         ReceiveClaims(i, ids)
  PROVE  Hands' /\ UNCHANGED Contract!vars
<1> DEFINE new == {ids[p] : p \in DOMAIN ids}
<1>1. /\ inv[i].pc = "claiming"
      /\ inv' = [inv EXCEPT ![i] = Working(new)]
      /\ UNCHANGED <<sweep, schedules, executions>>
  BY DEF ReceiveClaims, Core!ClaimRuns
<1>2. /\ inv'[i].todo = new /\ inv'[i].run = None
      /\ \A j \in Callers \ {i} : inv'[j] = inv[j]
  BY <1>1, WorkingHands DEF IInv, Typed
<1>3. \A r \in RunIds : ~Holds(i, r)
  BY <1>1, NoneAssumption DEF IInv, Typed, Stage, Holds
<1>4. \A r \in RunIds :
        /\ r \notin new => runs'[r] = runs[r]
        /\ r \in new => /\ runs[r].status = "absent"
                        /\ runs'[r].delayed => runs'[r].status = "scheduled"
                        /\ ~runs'[r].delayed => runs'[r].status = "pending"
                        /\ ~runs'[r].aged
  BY InsertedRow
<1> HIDE DEF new
<1>5. \A r \in RunIds : runs[r].status = "absent" =>
        /\ executions[r] = 0 /\ r \notin schedules
        /\ \A j \in Callers : ~Holds(j, r)
        /\ \A s \in Sweepers : /\ <<r, "pending">> \notin sweep[s]
                               /\ <<r, "dispatching">> \notin sweep[s]
  <2> SUFFICES ASSUME NEW r \in RunIds, runs[r].status = "absent"
               PROVE  /\ executions[r] = 0 /\ r \notin schedules
                      /\ \A j \in Callers : ~Holds(j, r)
                      /\ \A s \in Sweepers : /\ <<r, "pending">> \notin sweep[s]
                                             /\ <<r, "dispatching">> \notin sweep[s]
    OBVIOUS
  <2>1. executions[r] = 0 /\ r \notin schedules
    BY DEF IInv, Hands, Waiting
  <2>2. \A j \in Callers : ~Holds(j, r)
    BY DEF IInv, Hands, TodoUntouched, RunOpen, Holds, Core!InFlight
  <2>3. \A s \in Sweepers : /\ <<r, "pending">> \notin sweep[s]
                           /\ <<r, "dispatching">> \notin sweep[s]
    BY DEF IInv, Hands, Snapshots, Core!InFlight
  <2> QED
    BY <2>1, <2>2, <2>3
<1>6. \A j \in Callers, r \in RunIds :
        Holds(j, r)' => (j # i /\ Holds(j, r) /\ r \notin new) \/ (j = i /\ r \in new)
  <2>1. \A r \in RunIds : Holds(i, r)' => r \in new
    BY <1>2, NoneAssumption DEF Holds
  <2>2. \A j \in Callers \ {i}, r \in RunIds : Holds(j, r)' => Holds(j, r)
    BY <1>2 DEF Holds
  <2>3. \A j \in Callers, r \in RunIds : r \in new => ~Holds(j, r)
    BY <1>4, <1>5
  <2> QED
    BY <2>1, <2>2, <2>3
<1>7. HeldOnce'
  <2>1. \A j \in Callers, r \in RunIds : ~(r = inv'[j].run /\ r \in inv'[j].todo)
    BY <1>2, NoneAssumption DEF IInv, Hands, HeldOnce
  <2> QED
    BY <1>6, <2>1 DEF IInv, Hands, HeldOnce
<1>8. TodoUntouched'
  <2>1. \A j \in Callers, r \in RunIds :
          r \in inv'[j].todo => (r \in inv[j].todo /\ r \notin new) \/ r \in new
    BY <1>2
  <2> QED
    BY <1>1, <1>4, <1>5, <2>1 DEF IInv, Hands, TodoUntouched
<1>9. RunOpen'
  <2>1. \A j \in Callers, r \in RunIds : r = inv'[j].run => r = inv[j].run /\ r \notin new
    BY <1>2, <1>6, NoneAssumption DEF Holds
  <2> QED
    BY <1>4, <2>1 DEF IInv, Hands, RunOpen
<1>10. HeldYoung'
  <2> SUFFICES ASSUME NEW j \in Callers, NEW r \in RunIds, Holds(j, r)',
                      runs'[r].status \in Core!InFlight
               PROVE  /\ ~runs'[r].aged
                      /\ \A s \in Sweepers : <<r, runs'[r].status>> \notin sweep'[s]
    BY DEF HeldYoung
  <2>1. CASE r \in new
    <3>1. runs[r].status = "absent" /\ runs'[r].status \in {"pending", "dispatching"}
          /\ ~runs'[r].aged
      BY <1>4, <2>1 DEF Core!InFlight
    <3>2. \A s \in Sweepers : /\ <<r, "pending">> \notin sweep[s]
                             /\ <<r, "dispatching">> \notin sweep[s]
      BY <1>5, <3>1
    <3> QED
      BY <1>1, <3>1, <3>2
  <2>2. CASE r \notin new
    BY <1>1, <1>4, <1>6, <2>2 DEF IInv, Hands, HeldYoung
  <2> QED
    BY <2>1, <2>2
<1>11. Waiting'
  <2>1. \A r \in RunIds \ new : runs'[r] = runs[r]
    BY <1>4
  <2>2. \A r \in new \cap RunIds :
          executions'[r] = 0 /\ r \notin schedules' /\ (runs'[r].status = "scheduled" => runs'[r].delayed)
    BY <1>1, <1>4, <1>5
  <2> QED
    BY <1>1, <2>1, <2>2 DEF IInv, Hands, Waiting
<1>12. Snapshots'
  BY <1>1, <1>4, <1>5 DEF IInv, Hands, Snapshots, Core!InFlight
<1>13. UNCHANGED Outcome
  <2>1. \A r \in RunIds : \/ runs'[r] = runs[r]
                          \/ /\ runs[r].status \notin Core!Results
                             /\ runs'[r].status \notin Core!Results
    BY <1>4 DEF Core!Results
  <2> QED
    BY <2>1 DEF Outcome
<1> QED
  BY <1>1, <1>7, <1>8, <1>9, <1>10, <1>11, <1>12, <1>13 DEF Hands, Contract!vars

\* A run that is recorded was open, and leaves its invocation's hands.
LEMMA RecordKeeps ==
  ASSUME IInv, NEW i \in Callers, Record(i)
  PROVE  Hands' /\ [Contract!Next]_(Contract!vars)
<1>1. inv[i].run \in RunIds /\ inv[i].outcome \in {"succeeded", "failed"}
  BY DEF IInv, Typed, Stage, Record
<1>2. PICK r \in RunIds : r = inv[i].run
  BY <1>1
<1>3. PICK o \in {"succeeded", "failed"} : o = inv[i].outcome
  BY <1>1
<1>4. /\ inv' = [inv EXCEPT ![i] = Working(inv[i].todo)]
      /\ runs' = [runs EXCEPT ![r] = Core!Moved(@, o)]
      /\ UNCHANGED <<sweep, schedules, executions>>
  BY <1>2, <1>3 DEF Record, Core!RecordResult
<1>5. o \in Core!Results /\ o \in Core!Statuses
  BY DEF Core!Results, Core!Statuses
<1>6. /\ runs'[r].status = o /\ runs'[r].delayed = runs[r].delayed
      /\ \A q \in RunIds \ {r} : runs'[q] = runs[q]
  BY <1>4, <1>5, MovedRow, StoreTypes DEF IInv, Core!TypeOK
<1>7. LettingGo /\ SweepsShrink
  BY <1>4, LetGo, WorkingHands DEF IInv, SweepsShrink
<1>8. runs[r].status \notin Core!Results \cup {"absent"}
  BY <1>2 DEF IInv, Hands, RunOpen, Core!InFlight, Core!Results
<1>9. \A j \in Callers : ~Holds(j, r)'
  <2>1. inv'[i].todo = inv[i].todo /\ inv'[i].run = None
    BY <1>4, WorkingHands DEF IInv, Typed
  <2>2. ~Holds(i, r)'
    BY <1>2, <2>1, NoneAssumption DEF IInv, Hands, HeldOnce, Holds
  <2>3. \A j \in Callers \ {i} : inv'[j] = inv[j] /\ ~Holds(j, r)
    BY <1>2, <1>4 DEF IInv, Typed, Hands, HeldOnce, Holds
  <2> QED
    BY <2>2, <2>3 DEF Holds
<1>10. {r} \in SUBSET RunIds /\ o # "skipped"
  OBVIOUS
<1>11. Hands' /\ Contract!End({r}, o)
  BY <1>4, <1>5, <1>6, <1>7, <1>8, <1>9, <1>10, EndRows DEF IInv
<1> QED
  BY <1>5, <1>10, <1>11 DEF Contract!Next

\* What a sweep fails is held by nobody: the lease.
LEMMA ReapKeeps ==
  ASSUME IInv, NEW s \in Sweepers, ReapCommit(s)
  PROVE  /\ Hands' /\ [Contract!Next]_(Contract!vars)
         /\ \A r \in Core!Reapable(s), i \in Callers : ~Holds(i, r)
<1>1. Core!TypeOK
  BY StoreTypes DEF IInv
<1>2. UNCHANGED <<inv, schedules, executions>> /\ Core!ReapCommit(s)
  BY DEF ReapCommit
<1>3. PICK ended \in SUBSET RunIds : ended = Core!Reapable(s)
  BY DEF Core!Reapable
<1>4. \A r \in ended : runs[r].status \in Core!InFlight /\ <<r, runs[r].status>> \in sweep[s]
  BY <1>1, <1>3 DEF Core!Reapable, Core!TypeOK
<1>5. \A r \in ended, i \in Callers : ~Holds(i, r)
  BY <1>4 DEF IInv, Hands, HeldYoung
<1>6. "failed" \in Core!Results /\ "failed" \in Core!Statuses
  BY DEF Core!Results, Core!Statuses
<1>7. /\ \A r \in ended : /\ runs'[r].status = "failed"
                          /\ runs'[r].delayed = runs[r].delayed
      /\ \A r \in RunIds \ ended : runs'[r] = runs[r]
  BY <1>2, <1>3, <1>6, MovedRow DEF Core!ReapCommit, Core!Reaped
<1>8. LettingGo
  BY <1>2 DEF LettingGo
<1>9. SweepsShrink
  BY <1>1, <1>2 DEF SweepsShrink, Core!ReapCommit, Core!TypeOK
<1>10. \A r \in ended : /\ runs[r].status \notin Core!Results \cup {"absent"}
                        /\ \A i \in Callers : ~Holds(i, r)'
  BY <1>2, <1>4, <1>5 DEF Holds, Core!InFlight, Core!Results
<1>11. Hands' /\ Contract!End(ended, "failed")
  BY <1>2, <1>6, <1>7, <1>8, <1>9, <1>10, EndRows DEF IInv
<1> QED
  BY <1>3, <1>5, <1>6, <1>11 DEF Contract!Next

\* A sweep selects what is old, and what is held is not.
LEMMA SelectKeeps ==
  ASSUME IInv, NEW s \in Sweepers, ReapSelect(s)
  PROVE  Hands' /\ UNCHANGED Contract!vars
<1>1. UNCHANGED <<runs, inv, schedules, executions>>
  BY DEF ReapSelect, Core!ReapSelect
<1>2. \A t \in Sweepers, r \in RunIds, status \in Core!InFlight :
        <<r, status>> \in sweep'[t] =>
          \/ <<r, status>> \in sweep[t]
          \/ runs[r].aged /\ runs[r].status = status
  <2>1. \A t \in Sweepers :
          sweep'[t] \subseteq sweep[t] \cup {<<r, runs[r].status>> : r \in Core!Stale}
    BY StoreTypes DEF IInv, ReapSelect, Core!ReapSelect, Core!TypeOK
  <2> QED
    BY <2>1 DEF Core!Stale
<1>3. HeldOnce' /\ TodoUntouched' /\ RunOpen' /\ Waiting'
  BY <1>1 DEF IInv, Hands, HeldOnce, TodoUntouched, RunOpen, Waiting, Holds
<1>4. HeldYoung'
  BY <1>1, <1>2 DEF IInv, Hands, HeldYoung, Holds
<1>5. Snapshots'
  BY <1>1, <1>2 DEF IInv, Hands, Snapshots, Core!InFlight
<1> QED
  BY <1>1, <1>3, <1>4, <1>5 DEF Hands, Contract!vars, Outcome

\* Only what nobody holds, or what is still to be fired, grows old.
LEMMA AgeKeeps ==
  ASSUME IInv, NEW r \in RunIds, Age(r)
  PROVE  Hands' /\ UNCHANGED Contract!vars
<1>1. UNCHANGED <<sweep, inv, schedules, executions>>
  BY DEF Age, Core!Age
<1>2. /\ runs'[r].status = runs[r].status /\ runs'[r].delayed = runs[r].delayed
      /\ \A q \in RunIds \ {r} : runs'[q] = runs[q]
  BY StoreTypes DEF IInv, Age, Core!Age, Core!TypeOK, Core!Run
<1>3. \A q \in RunIds : runs'[q].status = runs[q].status /\ runs'[q].delayed = runs[q].delayed
  BY <1>2
<1>4. HeldOnce' /\ TodoUntouched' /\ RunOpen' /\ Waiting' /\ Snapshots'
  BY <1>1, <1>3
  DEF IInv, Hands, HeldOnce, TodoUntouched, RunOpen, Waiting, Snapshots, Holds
<1>5. HeldYoung'
  <2>1. runs[r].status \in Core!InFlight => \A i \in Callers : ~Holds(i, r)
    BY DEF Age, Core!InFlight
  <2>2. \A i \in Callers, q \in RunIds : Holds(i, q)' <=> Holds(i, q)
    BY <1>1 DEF Holds
  <2> QED
    BY <1>1, <1>2, <2>1, <2>2 DEF IInv, Hands, HeldYoung
<1>6. UNCHANGED Outcome
  BY <1>3 DEF Outcome
<1> QED
  BY <1>1, <1>4, <1>5, <1>6 DEF Hands, Contract!vars

\* The steps that change no row and give nobody a run.
LEMMA OtherKeeps ==
  ASSUME IInv,
         \/ \E i \in Callers, e \in Events : ProcessEvent(i, e)
         \/ \E i \in Callers, d \in Definitions, k \in ScheduleKeys : RequestRunAt(i, d, k)
         \/ \E i \in Callers : \/ AttemptSucceeds(i)
                               \/ AttemptFailsTransiently(i)
                               \/ AttemptFailsPermanently(i)
                               \/ Crash(i)
         \/ \E s \in Sweepers : AbortReap(s)
         \/ \E d \in Definitions : EditDefinition(d)
         \/ UNCHANGED vars
  PROVE  Hands' /\ UNCHANGED Contract!vars
<1>1. UNCHANGED <<runs, schedules, executions>>
  BY DEF ProcessEvent, Core!DispatchRead, RequestRunAt, Core!ScheduleRead, AttemptSucceeds,
         AttemptFailsTransiently, AttemptFailsPermanently, Crash, Core!AbortClaim,
         AbortReap, Core!AbortReap, EditDefinition, Core!EditDefinition,
         Core!CreateDefinition, Core!UpdateDefinition, Core!SetDefinitionEnabled,
         Core!DeleteDefinition, vars, coreVars
<1>2. SweepsShrink
  <2>1. ASSUME NEW s \in Sweepers, AbortReap(s)
        PROVE  SweepsShrink
    BY <2>1, StoreTypes DEF IInv, AbortReap, Core!AbortReap, Core!TypeOK, SweepsShrink
  <2>2. UNCHANGED sweep => SweepsShrink
    BY DEF SweepsShrink
  <2> QED
    BY <2>1, <2>2
    DEF ProcessEvent, Core!DispatchRead, RequestRunAt, Core!ScheduleRead, AttemptSucceeds,
        AttemptFailsTransiently, AttemptFailsPermanently, Crash, Core!AbortClaim,
        EditDefinition, Core!EditDefinition, Core!CreateDefinition,
        Core!UpdateDefinition, Core!SetDefinitionEnabled, Core!DeleteDefinition,
        vars, coreVars
<1>3. LettingGo
  <2>1. ASSUME NEW i \in Callers, NEW v, inv' = [inv EXCEPT ![i] = v],
               v.todo = inv[i].todo, v.run = inv[i].run
        PROVE  LettingGo
    BY <2>1, LetGo DEF IInv
  <2>2. \A i \in Callers : inv[i] \in Invocation
    BY DEF IInv, Typed
  <2>3. ASSUME NEW i \in Callers,
               \/ \E e \in Events : ProcessEvent(i, e)
               \/ \E d \in Definitions, k \in ScheduleKeys : RequestRunAt(i, d, k)
        PROVE  LettingGo
    <3> DEFINE v == [inv[i] EXCEPT !.pc = "claiming"]
    <3>1. v.todo = inv[i].todo /\ v.run = inv[i].run
      BY <2>2 DEF Invocation
    <3>2. inv' = [inv EXCEPT ![i] = v]
      BY <2>3 DEF ProcessEvent, RequestRunAt
    <3> HIDE DEF v
    <3> QED
      BY <2>1, <3>1, <3>2
  <2>4. ASSUME NEW i \in Callers, NEW outcome, Recording(i, outcome)
        PROVE  LettingGo
    <3> DEFINE v == [inv[i] EXCEPT !.pc = "recording", !.outcome = outcome]
    <3>1. v.todo = inv[i].todo /\ v.run = inv[i].run
      BY <2>2 DEF Invocation
    <3>2. inv' = [inv EXCEPT ![i] = v]
      BY <2>4 DEF Recording
    <3> HIDE DEF v
    <3> QED
      BY <2>1, <3>1, <3>2
  <2>5. ASSUME NEW i \in Callers, AttemptFailsTransiently(i)
        PROVE  LettingGo
    <3> DEFINE v == [inv[i] EXCEPT !.attempt = @ + 1]
    <3>1. v.todo = inv[i].todo /\ v.run = inv[i].run
      BY <2>2 DEF Invocation
    <3>2. Recording(i, "failed") \/ inv' = [inv EXCEPT ![i] = v]
      BY <2>5 DEF AttemptFailsTransiently
    <3> HIDE DEF v
    <3> QED
      BY <2>1, <2>4, <3>1, <3>2
  <2>6. ASSUME NEW i \in Callers, Crash(i)
        PROVE  LettingGo
    <3>1. Idle.todo \subseteq inv[i].todo /\ Idle.run = None
      BY DEF Idle
    <3> QED
      BY <2>6, <3>1, LetGo DEF IInv, Crash
  <2>7. UNCHANGED inv => LettingGo
    BY DEF LettingGo
  <2> QED
    BY <2>3, <2>4, <2>5, <2>6, <2>7
    DEF AttemptSucceeds, AttemptFailsPermanently, AbortReap, EditDefinition, vars
<1> QED
  BY <1>1, <1>2, <1>3, SameRows DEF IInv, Contract!vars

\* The invariant is inductive, and each step is a step of OnceOnlyWork or stutters.
LEMMA IInvStep ==
  ASSUME IInv, [Next]_vars
  PROVE  IInv' /\ [Contract!Next]_(Contract!vars)
<1>1. StoreOK' /\ Typed'
  BY StoreStep, TypedStep DEF IInv
<1> DEFINE Goal == Hands' /\ [Contract!Next]_(Contract!vars)
<1>2. ASSUME NEW i \in Callers, NEW r \in RunIds, FireCallback(i, r)
      PROVE  Goal
  <2>1. Contract!Start(r) => Contract!Next
    BY DEF Contract!Next
  <2>2. {r} \in SUBSET RunIds /\ "skipped" \in Core!Results
    BY DEF Core!Results
  <2>3. Contract!End({r}, "skipped") => Contract!Next
    BY <2>2 DEF Contract!Next
  <2> QED
    BY <1>2, <2>1, <2>3, FireKeeps
<1>3. ASSUME NEW i \in Callers, NEW r \in RunIds, StartRun(i, r)
      PROVE  Goal
  BY <1>3, StartKeeps DEF Contract!Next
<1>4. ASSUME NEW i \in Callers, Step(i)
      PROVE  Goal
  BY <1>3, <1>4, ScheduleKeeps, ClaimsKeep, RecordKeeps, OtherKeeps DEF Step
<1>5. Goal
  BY <1>2, <1>4, ReapKeeps, SelectKeeps, AgeKeeps, OtherKeeps DEF Next
<1> QED
  BY <1>1, <1>5 DEF IInv

-----------------------------------------------------------------------------

\* Everything the theorems below rest on holds in every reachable state.
THEOREM Invariant == Spec => []IInv
<1>1. Init => IInv
  BY StoreInit, TypedInit, HandsInit DEF IInv
<1>2. IInv /\ [Next]_vars => IInv'
  BY IInvStep
<1> QED
  BY <1>1, <1>2, PTL DEF Spec

\* The type invariant holds for every set of definitions, events, runs,
\* invocations and sweeps.
THEOREM TypeCorrect == Spec => []TypeOK
<1>1. IInv => TypeOK
  BY StoreTypes DEF IInv, Typed, TypeOK
<1> QED
  BY <1>1, Invariant, PTL

\* The plugin makes only the requests the store allows: each of its steps is a
\* step of WorkflowRuns, so what WorkflowRuns_proofs shows of the store holds here.
THEOREM StoreImplemented == Spec => CoreProofs!Spec
<1>1. Init => CoreProofs!Init
  BY DEF Init, Core!Init, CoreProofs!Init, Core!NoDefinition, CoreProofs!NoDefinition,
         Core!NoRun, CoreProofs!NoRun, Core!NoRequest, CoreProofs!NoRequest
<1>2. IInv /\ [Next]_vars => [CoreProofs!Next]_CoreProofs!vars
  BY CoreStep DEF IInv
<1> QED
  BY <1>1, <1>2, Invariant, PTL DEF Spec, CoreProofs!Spec

\* A run that was skipped was not executed, and a delayed one is executed only
\* after its schedule was created.
THEOREM DelayedChecked == Spec => []DelayedRunsAreChecked
<1>1. IInv => DelayedRunsAreChecked
  BY DEF IInv, Hands, Waiting, DelayedRunsAreChecked
<1> QED
  BY <1>1, Invariant, PTL

\* However its event or its callback is delivered and whatever dies or is swept
\* meanwhile, a run is executed once at most, not after it has ended, and its
\* outcome stays: Orchestrator implements OnceOnlyWork.
THEOREM ExecutedOnce == Spec => ExecutedOnceAndFinal
<1>1. Init => Contract!Init
  BY DEF Init, Contract!Init, Outcome, Core!Init, Core!NoRun, Core!Results
<1>2. IInv /\ [Next]_vars => [Contract!Next]_(Contract!vars)
  BY IInvStep
<1> QED
  BY <1>1, <1>2, Invariant, PTL DEF Spec, ExecutedOnceAndFinal, Contract!Spec

\* So under the plugin, too, one idempotency key gives a definition one run.
THEOREM OneRunPerKey == Spec => []Core!OneRunPerDedupeKey
<1>1. None \notin Keys \cup Definitions \cup Events
  BY NoneAssumption
<1>2. CoreProofs!Spec => []CoreProofs!OneRunPerDedupeKey
  BY <1>1, MatchingsAssumption, CoreProofs!OneRunPerKey
<1>3. CoreProofs!OneRunPerDedupeKey => Core!OneRunPerDedupeKey
  BY DEF CoreProofs!OneRunPerDedupeKey, CoreProofs!Exists, Core!OneRunPerDedupeKey,
         Core!Exists
<1> QED
  BY <1>2, <1>3, StoreImplemented, PTL

\* A sweep fails only runs that no live invocation holds, also when they waited
\* for weeks before they were fired.
THEOREM OrphansOnly == Spec => OnlyOrphansAreReaped
<1>1. IInv /\ [Next]_vars
      => \A r \in RunIds : "reap" \in log'[r] \ log[r] => \A i \in Callers : ~Holds(i, r)
  <2> SUFFICES ASSUME IInv, [Next]_vars, NEW r \in RunIds, "reap" \in log'[r] \ log[r]
               PROVE  \A i \in Callers : ~Holds(i, r)
    OBVIOUS
  <2>1. Core!TypeOK
    BY StoreTypes DEF IInv
  <2>2. ASSUME NEW i \in Callers, Record(i)
        PROVE  FALSE
    <3>1. inv[i].run \in RunIds /\ inv[i].outcome \in {"succeeded", "failed"}
      BY <2>2 DEF IInv, Typed, Stage, Record
    <3>2. log' = [log EXCEPT ![inv[i].run] = @ \cup {inv[i].outcome}]
      BY <2>2 DEF Record, Core!RecordResult
    <3> QED
      BY <2>1, <3>1, <3>2 DEF Core!TypeOK
  <2>3. ASSUME NEW s \in Sweepers, ReapCommit(s)
        PROVE  r \in Core!Reapable(s)
    BY <2>3 DEF ReapCommit, Core!ReapCommit
  <2>4. ASSUME NEW i \in Callers, Step(i), ~Record(i)
        PROVE  UNCHANGED log
    BY <2>4
    DEF Step, ReceiveClaims, Core!ClaimRuns, CreateSchedule, StartRun, AttemptSucceeds,
        AttemptFailsTransiently, AttemptFailsPermanently, Crash, Core!AbortClaim, coreVars
  <2>5. log' # log
    OBVIOUS
  <2>6. PICK s \in Sweepers : ReapCommit(s)
    BY <2>2, <2>4, <2>5
    DEF Next, ProcessEvent, Core!DispatchRead, RequestRunAt, Core!ScheduleRead,
        FireCallback, Core!FireScheduledRun, ReapSelect, Core!ReapSelect, AbortReap,
        Core!AbortReap, Age, Core!Age, EditDefinition, Core!EditDefinition,
        Core!CreateDefinition, Core!UpdateDefinition, Core!SetDefinitionEnabled,
        Core!DeleteDefinition, vars, coreVars
  <2> QED
    BY <2>3, <2>6, ReapKeeps
<1> QED
  BY <1>1, Invariant, PTL DEF Spec, OnlyOrphansAreReaped
=============================================================================
