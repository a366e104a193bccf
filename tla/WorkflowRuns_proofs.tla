------------------------ MODULE WorkflowRuns_proofs ------------------------
(***************************************************************************)
(* What WorkflowRuns promises for every set of definitions, events, keys,  *)
(* runs and concurrent requests.                                           *)
(***************************************************************************)
EXTENDS WorkflowRuns, TLAPS

\* A change of status keeps the rest of the row and its type.
LEMMA MovedRow ==
  ASSUME NEW row \in Run, NEW status \in Statuses
  PROVE  /\ Moved(row, status) \in Run
         /\ Moved(row, status).status = status
         /\ Moved(row, status).definition = row.definition
         /\ Moved(row, status).key = row.key
BY DEF Moved, Run

\* What a claim does to one row: it is left alone, or it was free and is now
\* the run of one definition the request read and found unclaimed.
LEMMA InsertedRow ==
  ASSUME TypeOK, NEW c \in Callers, NEW ids \in [Unclaimed(c) -> FreeIds],
         NEW r \in RunIds
  PROVE  /\ Inserted(c, ids)[r] \in Run
         /\ Inserted(c, ids)[r] # runs[r] =>
              \E p \in Unclaimed(c) :
                /\ p \in Definitions \X {"pending", "scheduled"}
                /\ ids[p] = r
                /\ runs[r].status = "absent"
                /\ Inserted(c, ids)[r].definition = p[1]
                /\ Inserted(c, ids)[r].key = request[c].key
                /\ Inserted(c, ids)[r].event = request[c].event
                /\ Inserted(c, ids)[r].status = p[2]
<1>1. CASE \E p \in DOMAIN ids : ids[p] = r
  <2> DEFINE p == CHOOSE p \in DOMAIN ids : ids[p] = r
             row == [definition |-> p[1], key |-> request[c].key,
                     event |-> request[c].event, status |-> p[2],
                     delayed |-> p[2] = "scheduled", aged |-> FALSE]
  <2>1. p \in Unclaimed(c) /\ ids[p] = r
    BY <1>1
  <2>2. p \in Definitions \X {"pending", "scheduled"}
    BY <2>1 DEF Unclaimed, TypeOK, Request
  <2>3. runs[r].status = "absent"
    BY <2>1 DEF FreeIds, Exists
  <2>4. Inserted(c, ids)[r] = row
    BY <1>1 DEF Inserted
  <2> HIDE DEF p
  <2>5. row \in Run
    <3>1. request[c].key \in Keys \cup {None} /\ request[c].event \in Events \cup {None}
      BY DEF TypeOK, Request
    <3>2. p[1] \in Definitions /\ p[2] \in {"pending", "scheduled"}
      BY <2>2
    <3> QED
      BY <3>1, <3>2 DEF Run, Statuses, InFlight
  <2> QED
    BY <2>1, <2>2, <2>3, <2>4, <2>5
<1>2. CASE ~\E p \in DOMAIN ids : ids[p] = r
  BY <1>2 DEF Inserted, TypeOK
<1> QED
  BY <1>1, <1>2

-----------------------------------------------------------------------------

\* The empty store is well typed.
LEMMA TypeInit == Init => TypeOK
BY DEF Init, TypeOK, NoDefinition, NoRun, NoRequest, Definition, Run, Request, Statuses

\* No request takes a variable out of its type.
LEMMA TypeStep == TypeOK /\ [Next]_vars => TypeOK'
<1> USE DEF TypeOK
<1> SUFFICES ASSUME TypeOK, [Next]_vars
             PROVE  TypeOK'
  OBVIOUS
<1>1. ASSUME NEW c \in Callers, NEW e \in Events, NEW k \in Keys, DispatchRead(c, e, k)
      PROVE  TypeOK'
  <2>1. {<<d, InitialStatus(d)>> : d \in MatchedBy(e)} \in SUBSET (Definitions \X {"pending", "scheduled"})
    BY DEF MatchedBy, InitialStatus
  <2>2. [key |-> k, event |-> e,
         seen |-> {<<d, InitialStatus(d)>> : d \in MatchedBy(e)}] \in Request
    BY <2>1 DEF Request
  <2> QED
    BY <1>1, <2>2 DEF DispatchRead
<1>2. ASSUME NEW c \in Callers, NEW d \in Definitions, NEW k \in Keys, ScheduleRead(c, d, k)
      PROVE  TypeOK'
  <2> DEFINE row == [key |-> k, event |-> None, seen |-> {<<d, "scheduled">>}]
  <2>1. {<<d, "scheduled">>} \in SUBSET (Definitions \X {"pending", "scheduled"})
    OBVIOUS
  <2>2. row \in Request
    BY <2>1 DEF Request
  <2>3. request' = [request EXCEPT ![c] = row]
    BY <1>2 DEF ScheduleRead
  <2> HIDE DEF row
  <2> QED
    BY <1>2, <2>2, <2>3 DEF ScheduleRead
<1>3. ASSUME NEW c \in Callers, NEW ids \in [Unclaimed(c) -> FreeIds], ClaimRuns(c, ids)
      PROVE  TypeOK'
  <2>1. \A r \in RunIds : Inserted(c, ids)[r] \in Run
    BY InsertedRow
  <2>2. Inserted(c, ids) = [r \in RunIds |-> Inserted(c, ids)[r]]
    BY DEF Inserted
  <2>3. runs' \in [RunIds -> Run]
    BY <1>3, <2>1, <2>2 DEF ClaimRuns
  <2> QED
    BY <1>3, <2>3 DEF TypeOK, ClaimRuns, NoRequest, Request
<1>4. ASSUME NEW c \in Callers, AbortClaim(c)
      PROVE  TypeOK'
  BY <1>4 DEF AbortClaim, NoRequest, Request
<1>5. ASSUME NEW r \in RunIds, FireScheduledRun(r)
      PROVE  TypeOK'
  <2>1. Fired(r) \in Statuses
    BY DEF Fired, Statuses, InFlight, Results
  <2>2. Moved(runs[r], Fired(r)) \in Run
    BY <2>1, MovedRow
  <2> QED
    BY <1>5, <2>2 DEF FireScheduledRun
<1>6. ASSUME NEW r \in RunIds, NEW status \in Results, RecordResult(r, status)
      PROVE  TypeOK'
  <2>1. Moved(runs[r], status) \in Run
    BY MovedRow DEF Statuses
  <2>2. log[r] \cup {status} \in SUBSET (Results \cup {"reap"})
    OBVIOUS
  <2> QED
    BY <1>6, <2>1, <2>2 DEF RecordResult
<1>7. ASSUME NEW s \in Sweepers, ReapSelect(s)
      PROVE  TypeOK'
  <2>1. {<<r, runs[r].status>> : r \in Stale} \in SUBSET (RunIds \X InFlight)
    BY DEF Stale
  <2> QED
    BY <1>7, <2>1 DEF ReapSelect
<1>8. ASSUME NEW s \in Sweepers, ReapCommit(s)
      PROVE  TypeOK'
  <2>1. \A r \in RunIds : Reaped(r) \in Run
    BY MovedRow DEF Reaped, Statuses, Results
  <2> QED
    BY <1>8, <2>1 DEF ReapCommit
<1>9. ASSUME NEW s \in Sweepers, AbortReap(s)
      PROVE  TypeOK'
  BY <1>9 DEF AbortReap
<1>10. ASSUME NEW r \in RunIds, Age(r)
       PROVE  TypeOK'
  <2>1. [runs[r] EXCEPT !.aged = TRUE] \in Run
    BY DEF Run
  <2>2. runs' = [runs EXCEPT ![r] = [runs[r] EXCEPT !.aged = TRUE]]
    BY <1>10 DEF Age
  <2> QED
    BY <1>10, <2>1, <2>2 DEF Age
<1>11. ASSUME NEW d \in Definitions, EditDefinition(d)
       PROVE  TypeOK'
  <2>1. Written \subseteq Definition
    BY MatchingsAssumption DEF Written, Definition
  <2>2. CASE CreateDefinition(d)
    BY <2>1, <2>2 DEF CreateDefinition
  <2>3. CASE UpdateDefinition(d)
    BY <2>1, <2>3 DEF UpdateDefinition
  <2>4. CASE SetDefinitionEnabled(d)
    <3>1. PICK enabled \in BOOLEAN : defs' = [defs EXCEPT ![d].enabled = enabled]
      BY <2>4 DEF SetDefinitionEnabled
    <3>2. [defs[d] EXCEPT !.enabled = enabled] \in Definition
      BY DEF Definition
    <3>3. defs' = [defs EXCEPT ![d] = [defs[d] EXCEPT !.enabled = enabled]]
      BY <3>1
    <3> QED
      BY <2>4, <3>2, <3>3 DEF SetDefinitionEnabled
  <2>5. CASE DeleteDefinition(d)
    BY <2>5 DEF DeleteDefinition, NoDefinition, Definition
  <2> QED
    BY <1>11, <2>2, <2>3, <2>4, <2>5 DEF EditDefinition
<1>12. CASE UNCHANGED vars
  BY <1>12 DEF vars
<1> QED
  BY <1>1, <1>2, <1>3, <1>4, <1>5, <1>6, <1>7, <1>8, <1>9, <1>10, <1>11, <1>12
     DEF Next, Claim, Sweep

\* Every variable stays in its type, whatever requests arrive in what order.
THEOREM TypeCorrect == Spec => []TypeOK
BY TypeInit, TypeStep, PTL DEF Spec

-----------------------------------------------------------------------------

\* A request reads a definition once, so one claim cannot insert two runs of it.
SeenOnce == \A c \in Callers : \A p, q \in request[c].seen : p[1] = q[1] => p = q

ClaimInv == OneRunPerDedupeKey /\ SeenOnce

\* The rows that a step neither inserts nor removes keep what the dedupe key is
\* made of, and with it the uniqueness of their keys.
LEMMA SameKeysSameClaims ==
  ASSUME OneRunPerDedupeKey,
         \A r \in RunIds : /\ runs'[r].status = "absent" <=> runs[r].status = "absent"
                           /\ runs'[r].definition = runs[r].definition
                           /\ runs'[r].key = runs[r].key
  PROVE  OneRunPerDedupeKey'
BY DEF OneRunPerDedupeKey, Exists

\* One claim keeps the dedupe keys unique: a row it inserts collides neither
\* with an older row (Unclaimed) nor with another row of the same claim.
LEMMA ClaimKeepsKeysUnique ==
  ASSUME TypeOK, ClaimInv, NEW c \in Callers, NEW ids \in [Unclaimed(c) -> FreeIds],
         ClaimRuns(c, ids)
  PROVE  OneRunPerDedupeKey'
<1> SUFFICES ASSUME NEW r \in RunIds, NEW q \in RunIds,
                    runs'[r].status # "absent", runs'[q].status # "absent",
                    runs'[r].definition = runs'[q].definition,
                    runs'[r].key = runs'[q].key
             PROVE  r = q
  BY DEF OneRunPerDedupeKey, Exists
<1> DEFINE Old(x) == runs'[x] = runs[x]
           New(x, p) == /\ p \in Unclaimed(c) /\ ids[p] = x
                        /\ runs'[x].definition = p[1]
                        /\ runs'[x].key = request[c].key
<1>1. ASSUME NEW x \in RunIds, ~Old(x)
      PROVE  \E p \in Definitions \X {"pending", "scheduled"} : New(x, p)
  <2>1. runs'[x] = Inserted(c, ids)[x]
    BY DEF ClaimRuns
  <2> QED
    BY <1>1, <2>1, InsertedRow
<1>2. ASSUME NEW x \in RunIds, NEW y \in RunIds, Old(x), runs'[x].status # "absent",
             NEW p \in Definitions \X {"pending", "scheduled"}, New(y, p)
      PROVE  ~(runs'[x].definition = runs'[y].definition /\ runs'[x].key = runs'[y].key)
  BY <1>2 DEF Unclaimed, Claimed, Exists
<1>3. ASSUME NEW p \in Definitions \X {"pending", "scheduled"}, New(r, p),
             NEW o \in Definitions \X {"pending", "scheduled"}, New(q, o)
      PROVE  r = q
  <2>1. p[1] = o[1] /\ p \in request[c].seen /\ o \in request[c].seen
    BY <1>3 DEF Unclaimed
  <2> QED
    BY <1>3, <2>1 DEF ClaimInv, SeenOnce
<1>4. CASE Old(r) /\ Old(q)
  BY <1>4 DEF ClaimInv, OneRunPerDedupeKey, Exists
<1> QED
  BY <1>1, <1>2, <1>3, <1>4

\* However many callers dispatch one event how often, and whatever is edited,
\* fired, recorded or reaped in between, a definition has one run per key.
THEOREM OneRunPerKey == Spec => []OneRunPerDedupeKey
<1>1. Init => ClaimInv
  BY DEF Init, NoRun, NoRequest, ClaimInv, OneRunPerDedupeKey, SeenOnce, Exists
<1>2. TypeOK /\ ClaimInv /\ [Next]_vars => ClaimInv'
  <2> SUFFICES ASSUME TypeOK, ClaimInv, [Next]_vars
               PROVE  ClaimInv'
    OBVIOUS
  <2> DEFINE SameKeys ==
        \A r \in RunIds : /\ runs'[r].status = "absent" <=> runs[r].status = "absent"
                          /\ runs'[r].definition = runs[r].definition
                          /\ runs'[r].key = runs[r].key
  <2>a. SameKeys /\ UNCHANGED request => ClaimInv'
    BY SameKeysSameClaims DEF ClaimInv, SeenOnce
  <2>1. ASSUME NEW c \in Callers, NEW e \in Events, NEW k \in Keys, DispatchRead(c, e, k)
        PROVE  ClaimInv'
    <3>1. OneRunPerDedupeKey'
      BY <2>1 DEF DispatchRead, ClaimInv, OneRunPerDedupeKey, Exists
    <3>2. SeenOnce'
      BY <2>1 DEF DispatchRead, ClaimInv, SeenOnce, TypeOK
    <3> QED
      BY <3>1, <3>2 DEF ClaimInv
  <2>2. ASSUME NEW c \in Callers, NEW d \in Definitions, NEW k \in Keys, ScheduleRead(c, d, k)
        PROVE  ClaimInv'
    <3>1. OneRunPerDedupeKey'
      BY <2>2 DEF ScheduleRead, ClaimInv, OneRunPerDedupeKey, Exists
    <3>2. SeenOnce'
      BY <2>2 DEF ScheduleRead, ClaimInv, SeenOnce, TypeOK
    <3> QED
      BY <3>1, <3>2 DEF ClaimInv
  <2>3. ASSUME NEW c \in Callers, NEW ids \in [Unclaimed(c) -> FreeIds], ClaimRuns(c, ids)
        PROVE  ClaimInv'
    <3>1. OneRunPerDedupeKey'
      BY <2>3, ClaimKeepsKeysUnique
    <3>2. SeenOnce'
      BY <2>3 DEF ClaimRuns, ClaimInv, SeenOnce, TypeOK, NoRequest
    <3> QED
      BY <3>1, <3>2 DEF ClaimInv
  <2>4. ASSUME NEW c \in Callers, AbortClaim(c)
        PROVE  ClaimInv'
    <3>1. OneRunPerDedupeKey'
      BY <2>4 DEF AbortClaim, ClaimInv, OneRunPerDedupeKey, Exists
    <3>2. SeenOnce'
      BY <2>4 DEF AbortClaim, ClaimInv, SeenOnce, TypeOK, NoRequest
    <3> QED
      BY <3>1, <3>2 DEF ClaimInv
  <2>5. ASSUME NEW r \in RunIds, FireScheduledRun(r)
        PROVE  ClaimInv'
    <3>1. runs[r] \in Run /\ Fired(r) \in Statuses /\ Fired(r) # "absent"
      BY DEF TypeOK, Fired, Statuses, InFlight, Results
    <3>2. runs' = [runs EXCEPT ![r] = Moved(runs[r], Fired(r))]
      BY <2>5 DEF FireScheduledRun
    <3>3. SameKeys
      BY <2>5, <3>1, <3>2, MovedRow DEF FireScheduledRun, TypeOK
    <3> QED
      BY <2>5, <3>3, <2>a DEF FireScheduledRun
  <2>6. ASSUME NEW r \in RunIds, NEW status \in Results, RecordResult(r, status)
        PROVE  ClaimInv'
    <3>1. runs[r] \in Run /\ status \in Statuses /\ status # "absent"
      BY DEF TypeOK, Statuses, Results
    <3>2. SameKeys
      BY <2>6, <3>1, MovedRow DEF RecordResult, TypeOK, Exists
    <3> QED
      BY <2>6, <3>2, <2>a DEF RecordResult
  <2>7. ASSUME NEW s \in Sweepers, ReapSelect(s) \/ AbortReap(s)
        PROVE  ClaimInv'
    BY <2>7, <2>a DEF ReapSelect, AbortReap
  <2>8. ASSUME NEW s \in Sweepers, ReapCommit(s)
        PROVE  ClaimInv'
    <3>1. ASSUME NEW r \in RunIds, r \in Reapable(s)
          PROVE  runs[r].status # "absent"
      BY <3>1 DEF Reapable, TypeOK, InFlight
    <3>2. SameKeys
      BY <2>8, <3>1, MovedRow DEF ReapCommit, Reaped, TypeOK, Statuses, Results
    <3> QED
      BY <2>8, <3>2, <2>a DEF ReapCommit
  <2>9. ASSUME NEW r \in RunIds, Age(r)
        PROVE  ClaimInv'
    <3>1. SameKeys
      BY <2>9 DEF Age, TypeOK, Run
    <3> QED
      BY <2>9, <3>1, <2>a DEF Age
  <2>10. ASSUME NEW d \in Definitions, EditDefinition(d)
         PROVE  ClaimInv'
    BY <2>10, <2>a DEF EditDefinition, CreateDefinition, UpdateDefinition,
                       SetDefinitionEnabled, DeleteDefinition
  <2>11. CASE UNCHANGED vars
    BY <2>11, <2>a DEF vars
  <2> QED
    BY <2>1, <2>2, <2>3, <2>4, <2>5, <2>6, <2>7, <2>8, <2>9, <2>10, <2>11
       DEF Next, Claim, Sweep
<1>3. ClaimInv => OneRunPerDedupeKey
  BY DEF ClaimInv
<1> QED
  BY <1>1, <1>2, <1>3, TypeCorrect, PTL DEF Spec

-----------------------------------------------------------------------------

\* A row's log agrees with a status.
Agrees(status, entries) ==
  /\ status = "succeeded" => "succeeded" \in entries
  /\ status = "failed" => entries \cap {"failed", "reap"} # {}
  /\ status \in InFlight \cup {"absent", "scheduled"} => entries = {}

LEMMA LogAgreesByRow == LogAgreesWithStatus <=> \A r \in RunIds : Agrees(runs[r].status, log[r])
BY DEF LogAgreesWithStatus, Agrees

\* A run's outcome is in the audit log from the moment the run has it, and not
\* before: record_result and the sweep write the row and the log together.
THEOREM LogCorrect == Spec => []LogAgreesWithStatus
<1>1. Init => LogAgreesWithStatus
  BY DEF Init, NoRun, LogAgreesWithStatus, InFlight
<1>2. TypeOK /\ LogAgreesWithStatus /\ [Next]_vars => LogAgreesWithStatus'
  <2> SUFFICES ASSUME TypeOK, LogAgreesWithStatus, [Next]_vars, NEW r \in RunIds
               PROVE  Agrees(runs'[r].status, log'[r])
    BY DEF LogAgreesWithStatus, Agrees
  <2>a. Agrees(runs[r].status, log[r])
    BY LogAgreesByRow
  <2>b. runs[r] \in Run /\ log[r] \in SUBSET (Results \cup {"reap"})
    BY DEF TypeOK
  <2>1. ASSUME NEW c \in Callers, NEW ids \in [Unclaimed(c) -> FreeIds], ClaimRuns(c, ids)
        PROVE  Agrees(runs'[r].status, log'[r])
    <3>1. runs'[r] = Inserted(c, ids)[r] /\ log' = log
      BY <2>1 DEF ClaimRuns
    <3>2. CASE Inserted(c, ids)[r] = runs[r]
      BY <3>1, <3>2, <2>a
    <3>3. CASE Inserted(c, ids)[r] # runs[r]
      <4>1. runs[r].status = "absent" /\ runs'[r].status \in {"pending", "scheduled"}
        BY <3>1, <3>3, InsertedRow
      <4> QED
        BY <3>1, <4>1, <2>a DEF Agrees, InFlight
    <3> QED
      BY <3>2, <3>3
  <2>2. ASSUME NEW q \in RunIds, FireScheduledRun(q)
        PROVE  Agrees(runs'[r].status, log'[r])
    <3>1. CASE q = r
      <4>1. runs[r].status = "scheduled" /\ log' = log
        BY <2>2, <3>1 DEF FireScheduledRun
      <4>2. Fired(r) \in {"dispatching", "skipped"}
        BY DEF Fired
      <4>3. runs'[r].status = Fired(r)
        BY <2>2, <2>b, <3>1, <4>2, MovedRow
           DEF FireScheduledRun, TypeOK, Statuses, InFlight, Results
      <4> QED
        BY <4>1, <4>2, <4>3, <2>a DEF Agrees, InFlight
    <3>2. CASE q # r
      BY <2>2, <2>a, <3>2 DEF FireScheduledRun, TypeOK
    <3> QED
      BY <3>1, <3>2
  <2>3. ASSUME NEW q \in RunIds, NEW status \in Results, RecordResult(q, status)
        PROVE  Agrees(runs'[r].status, log'[r])
    <3>1. CASE q = r
      <4>1. runs'[r].status = status
        BY <2>3, <2>b, <3>1, MovedRow DEF RecordResult, TypeOK, Statuses
      <4>2. log'[r] = log[r] \cup {status}
        BY <2>3, <3>1 DEF RecordResult, TypeOK
      <4> QED
        BY <4>1, <4>2 DEF Agrees, Results, InFlight
    <3>2. CASE q # r
      BY <2>3, <2>a, <3>2 DEF RecordResult, TypeOK
    <3> QED
      BY <3>1, <3>2
  <2>4. ASSUME NEW s \in Sweepers, ReapCommit(s)
        PROVE  Agrees(runs'[r].status, log'[r])
    <3>1. CASE r \in Reapable(s)
      <4>1. runs'[r].status = "failed"
        BY <2>4, <2>b, <3>1, MovedRow DEF ReapCommit, Reaped, Statuses, Results
      <4>2. "reap" \in log'[r]
        BY <2>4, <3>1 DEF ReapCommit
      <4> QED
        BY <4>1, <4>2 DEF Agrees, InFlight
    <3>2. CASE r \notin Reapable(s)
      BY <2>4, <2>a, <3>2 DEF ReapCommit
    <3> QED
      BY <3>1, <3>2
  <2>5. ASSUME NEW q \in RunIds, Age(q)
        PROVE  Agrees(runs'[r].status, log'[r])
    <3>1. runs'[r].status = runs[r].status /\ log' = log
      BY <2>5, <2>b DEF Age, TypeOK, Run
    <3> QED
      BY <3>1, <2>a
  <2>6. ASSUME UNCHANGED <<runs, log>>
        PROVE  Agrees(runs'[r].status, log'[r])
    BY <2>6, <2>a
  <2> QED
    BY <2>1, <2>2, <2>3, <2>4, <2>5, <2>6
       DEF Next, vars, Claim, Sweep, EditDefinition, DispatchRead, ScheduleRead,
           AbortClaim, ReapSelect, AbortReap, CreateDefinition, UpdateDefinition,
           SetDefinitionEnabled, DeleteDefinition
<1> QED
  BY <1>1, <1>2, TypeCorrect, PTL DEF Spec

\* No sweep, however old its snapshot, overwrites an outcome: the status it read
\* is checked again by its UPDATE, and a run in flight has no outcome yet.
THEOREM SweepsSpareResults == Spec => ReapSparesResults
<1>1. TypeOK /\ LogAgreesWithStatus /\ [Next]_vars
      => \A r \in RunIds : "reap" \in log'[r] \ log[r] => log[r] = {}
  <2> SUFFICES ASSUME TypeOK, LogAgreesWithStatus, [Next]_vars, NEW r \in RunIds,
                      "reap" \in log'[r] \ log[r]
               PROVE  log[r] = {}
    OBVIOUS
  <2>1. PICK s \in Sweepers : ReapCommit(s)
    <3>1. ASSUME NEW q \in RunIds, NEW status \in Results, RecordResult(q, status)
          PROVE  FALSE
      BY <3>1 DEF RecordResult, TypeOK, Results
    <3>2. log' # log
      OBVIOUS
    <3> QED
      BY <3>1, <3>2
         DEF Next, vars, Claim, Sweep, EditDefinition, DispatchRead, ScheduleRead,
             ClaimRuns, AbortClaim, FireScheduledRun, ReapSelect, AbortReap, Age,
             CreateDefinition, UpdateDefinition, SetDefinitionEnabled, DeleteDefinition
  <2>2. r \in Reapable(s)
    BY <2>1 DEF ReapCommit, TypeOK
  <2>3. runs[r].status \in InFlight
    BY <2>2 DEF Reapable, TypeOK
  <2> QED
    BY <2>3 DEF LogAgreesWithStatus
<1> QED
  BY <1>1, TypeCorrect, LogCorrect, PTL DEF Spec, ReapSparesResults

\* A run that has ended is not brought back by any request of any caller.
THEOREM NoRevival == Spec => EndedRunsStayEnded
<1>1. TypeOK /\ [Next]_vars
      => \A r \in RunIds : runs[r].status \in Results => runs'[r].status \in Results
  <2> SUFFICES ASSUME TypeOK, [Next]_vars, NEW r \in RunIds, runs[r].status \in Results
               PROVE  runs'[r].status \in Results
    OBVIOUS
  <2>a. runs[r] \in Run
    BY DEF TypeOK
  <2>1. ASSUME NEW c \in Callers, NEW ids \in [Unclaimed(c) -> FreeIds], ClaimRuns(c, ids)
        PROVE  runs'[r].status \in Results
    BY <2>1, InsertedRow DEF ClaimRuns, Results
  <2>2. ASSUME NEW q \in RunIds, FireScheduledRun(q)
        PROVE  runs'[r].status \in Results
    BY <2>2 DEF FireScheduledRun, TypeOK, Results
  <2>3. ASSUME NEW q \in RunIds, NEW status \in Results, RecordResult(q, status)
        PROVE  runs'[r].status \in Results
    BY <2>3, <2>a, MovedRow DEF RecordResult, TypeOK, Statuses
  <2>4. ASSUME NEW s \in Sweepers, ReapCommit(s)
        PROVE  runs'[r].status \in Results
    <3>1. Reaped(r).status = "failed"
      BY <2>a, MovedRow DEF Reaped, Statuses, Results
    <3> QED
      BY <2>4, <3>1 DEF ReapCommit, Results
  <2>5. ASSUME NEW q \in RunIds, Age(q)
        PROVE  runs'[r].status \in Results
    BY <2>5, <2>a DEF Age, TypeOK, Run
  <2>6. ASSUME UNCHANGED runs
        PROVE  runs'[r].status \in Results
    BY <2>6
  <2> QED
    BY <2>1, <2>2, <2>3, <2>4, <2>5, <2>6
       DEF Next, vars, Claim, Sweep, EditDefinition, DispatchRead, ScheduleRead,
           AbortClaim, ReapSelect, AbortReap, CreateDefinition, UpdateDefinition,
           SetDefinitionEnabled, DeleteDefinition
<1> QED
  BY <1>1, TypeCorrect, PTL DEF Spec, EndedRunsStayEnded
=============================================================================
