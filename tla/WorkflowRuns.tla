---------------------------- MODULE WorkflowRuns ----------------------------
(***************************************************************************)
(* Core's orchestration store: workflow definitions, workflow runs, the    *)
(* action log, and the service functions of                                *)
(* services/api/src/api/orchestration.py that change them.                 *)
(*                                                                         *)
(* Any caller may make any request at any time; a request is one database  *)
(* transaction at READ COMMITTED.  Where the code reads rows and acts on   *)
(* what it read after other requests may have committed, the read and the  *)
(* act are two actions: claiming (definitions read, then runs inserted)    *)
(* and the sweep (candidates read, then updated one by one).  The inserts  *)
(* of one claim and the updates of one sweep hold their rows' locks until  *)
(* they commit together, so each batch is one step.                        *)
(*                                                                         *)
(* Abstractions.  One tenant.  A definition's (trigger_source,             *)
(* trigger_detail_type, trigger_filter, scope) is the set of events it     *)
(* matches; its schedule_config is the flag "delayed".  Time is the flag   *)
(* "aged" of a run: its updated_at lies before the sweep's cutoff.         *)
(***************************************************************************)
EXTENDS FiniteSets

CONSTANTS
  Definitions,   \* ids of workflow definitions
  Events,        \* occurrences of bus events
  Keys,          \* idempotency keys callers may send
  RunIds,        \* ids of workflow runs: bounds how many rows are ever made
  Callers,       \* concurrent requests that claim runs
  Sweepers,      \* concurrent requests to POST /internal/orchestration/reap
  Matchings,     \* the sets of events a definition's trigger may match
  None           \* no key, no definition, no event

ASSUME MatchingsAssumption == Matchings \subseteq SUBSET Events
ASSUME NoneAssumption == None \notin Keys \cup Definitions \cup Events

VARIABLES
  defs,     \* defs[d]: the row of definition d
  runs,     \* runs[r]: the row of run r
  log,      \* log[r]: the statuses and reap marks of r's action-log entries
  request,  \* request[c]: what c's claiming request has read so far
  sweep     \* sweep[s]: what s's sweep has selected and not yet updated

vars == <<defs, runs, log, request, sweep>>

Results == {"succeeded", "failed", "skipped"}
InFlight == {"pending", "dispatching"}
Statuses == InFlight \cup Results \cup {"absent", "scheduled"}

Definition == [life: {"unborn", "live", "deleted"}, enabled: BOOLEAN,
               delayed: BOOLEAN, matches: SUBSET Events]
Run == [definition: Definitions \cup {None}, key: Keys \cup {None},
        event: Events \cup {None}, status: Statuses, delayed: BOOLEAN, aged: BOOLEAN]
Request == [key: Keys \cup {None}, event: Events \cup {None},
            seen: SUBSET (Definitions \X {"pending", "scheduled"})]

NoDefinition == [life |-> "unborn", enabled |-> FALSE, delayed |-> FALSE,
                 matches |-> {}]
NoRun == [definition |-> None, key |-> None, event |-> None, status |-> "absent",
          delayed |-> FALSE, aged |-> FALSE]
NoRequest == [key |-> None, event |-> None, seen |-> {}]

\* A row whose status has changed: its updated_at is that of the change.
Moved(row, status) == [row EXCEPT !.status = status, !.aged = FALSE]

Init ==
  /\ defs = [d \in Definitions |-> NoDefinition]
  /\ runs = [r \in RunIds |-> NoRun]
  /\ log = [r \in RunIds |-> {}]
  /\ request = [c \in Callers |-> NoRequest]
  /\ sweep = [s \in Sweepers |-> {}]

-----------------------------------------------------------------------------
(* Reads *)

Exists(r) == runs[r].status # "absent"
FreeIds == {r \in RunIds : ~Exists(r)}

\* get_definition returned a row and the row is enabled.
Runnable(d) == d \in Definitions /\ defs[d].life = "live" /\ defs[d].enabled

\* dispatch_event's query, filter and scope tests.
MatchedBy(e) == {d \in Definitions : Runnable(d) /\ e \in defs[d].matches}

\* Mutant: ended runs free their dedupe key, so that a reaped run can be retried.
ClaimedUnlessEnded(d, k) ==
  \E r \in RunIds : /\ runs[r].status \in InFlight \cup {"scheduled"}
                   /\ runs[r].definition = d
                   /\ runs[r].key = k

\* Mutant: the dedupe key is the event's alone, not scoped by definition.
ClaimedByEvent(d, k) == \E r \in RunIds : Exists(r) /\ runs[r].key = k

\* The row the unique constraint (tenant_id, dedupe_key) finds, if any.
Claimed(d, k) == \E r \in RunIds : /\ Exists(r)
                                   /\ runs[r].definition = d
                                   /\ runs[r].key = k

-----------------------------------------------------------------------------
(* Claiming *)

\* _scheduled_for: a definition with a schedule_config delays its runs.
InitialStatus(d) == IF defs[d].delayed THEN "scheduled" ELSE "pending"

\* POST /internal/orchestration/events, up to and including its query.
DispatchRead(c, e, k) ==
  /\ request[c] = NoRequest
  /\ request' = [request EXCEPT ![c] =
                   [key |-> k, event |-> e,
                    seen |-> {<<d, InitialStatus(d)>> : d \in MatchedBy(e)}]]
  /\ UNCHANGED <<defs, runs, log, sweep>>

\* POST /internal/orchestration/runs/schedule, up to its get_definition: the
\* run is to be a scheduled one whatever the definition's schedule_config says,
\* and its payload is the caller's, not an event's.
ScheduleRead(c, d, k) ==
  /\ request[c] = NoRequest
  /\ Runnable(d)
  /\ request' = [request EXCEPT ![c] =
                   [key |-> k, event |-> None, seen |-> {<<d, "scheduled">>}]]
  /\ UNCHANGED <<defs, runs, log, sweep>>

\* The definitions of c's request whose insert the unique constraint lets through.
Unclaimed(c) ==
  {p \in request[c].seen : ~Claimed(p[1], request[c].key)}

\* The rows a claim leaves: ids names the new row of each definition it inserts.
Inserted(c, ids) ==
  [r \in RunIds |->
     IF \E p \in DOMAIN ids : ids[p] = r
     THEN LET p == CHOOSE p \in DOMAIN ids : ids[p] = r IN
          [definition |-> p[1], key |-> request[c].key, event |-> request[c].event,
           status |-> p[2], delayed |-> p[2] = "scheduled", aged |-> FALSE]
     ELSE runs[r]]

\* _claim_run for every definition read, and the commit.  A definition whose
\* dedupe key is taken gets its existing run back (created = False).
ClaimRuns(c, ids) ==
  /\ request[c] # NoRequest
  /\ ids \in [Unclaimed(c) -> FreeIds]
  /\ \A p, q \in DOMAIN ids : ids[p] = ids[q] => p = q
  /\ runs' = Inserted(c, ids)
  /\ request' = [request EXCEPT ![c] = NoRequest]
  /\ UNCHANGED <<defs, log, sweep>>

\* The request dies before its commit: nothing it did remains.
AbortClaim(c) ==
  /\ request[c] # NoRequest
  /\ request' = [request EXCEPT ![c] = NoRequest]
  /\ UNCHANGED <<defs, runs, log, sweep>>

\* The status a fired run gets: its definition may be gone or disabled by now.
Fired(r) == IF Runnable(runs[r].definition) THEN "dispatching" ELSE "skipped"

\* Mutant: the UPDATE has no status condition.
FireAnyRun(r) ==
  /\ Exists(r)
  /\ runs' = [runs EXCEPT ![r] = Moved(@, Fired(r))]
  /\ UNCHANGED <<defs, log, request, sweep>>

\* Mutant: the UPDATE leaves updated_at at the time the run was claimed.
FireKeepingUpdatedAt(r) ==
  /\ runs[r].status = "scheduled"
  /\ runs' = [runs EXCEPT ![r].status = Fired(r)]
  /\ UNCHANGED <<defs, log, request, sweep>>

\* POST /internal/orchestration/runs/{id}/fire, for the request that wins the
\* conditional UPDATE, which locks the row.  updated_at is stamped with it.
FireScheduledRun(r) ==
  /\ runs[r].status = "scheduled"
  /\ runs' = [runs EXCEPT ![r] = Moved(@, Fired(r))]
  /\ UNCHANGED <<defs, log, request, sweep>>

-----------------------------------------------------------------------------
(* Ending *)

\* Mutant: only a success is written to the audit log.
RecordResultOfSuccess(r, status) ==
  /\ Exists(r)
  /\ runs' = [runs EXCEPT ![r] = Moved(@, status)]
  /\ log' = [log EXCEPT ![r] = @ \cup ({status} \cap {"succeeded"})]
  /\ UNCHANGED <<defs, request, sweep>>

\* POST /internal/orchestration/runs/{id}/result: whatever the run's status is.
RecordResult(r, status) ==
  /\ Exists(r)
  /\ runs' = [runs EXCEPT ![r] = Moved(@, status)]
  /\ log' = [log EXCEPT ![r] = @ \cup {status}]
  /\ UNCHANGED <<defs, request, sweep>>

\* Mutant: the query overlooks the runs fired by a schedule.
StalePendingOnly == {r \in RunIds : runs[r].status = "pending" /\ runs[r].aged}

\* reap_stale_runs' query.
Stale == {r \in RunIds : runs[r].status \in InFlight /\ runs[r].aged}

\* POST /internal/orchestration/reap, the SELECT.
ReapSelect(s) ==
  /\ sweep[s] = {}
  /\ Stale # {}
  /\ sweep' = [sweep EXCEPT ![s] = {<<r, runs[r].status>> : r \in Stale}]
  /\ UNCHANGED <<defs, runs, log, request>>

\* Mutant: the UPDATE does not check the candidate's status again.
ReapableBySnapshot(s) == {p[1] : p \in sweep[s]}

\* The candidates whose conditional UPDATE matches a row.
Reapable(s) == {r \in RunIds : <<r, runs[r].status>> \in sweep[s]}

\* The row a conditional UPDATE leaves.
Reaped(r) == Moved(runs[r], "failed")

\* The UPDATEs, their log entries and the commit.
ReapCommit(s) ==
  /\ sweep[s] # {}
  /\ runs' = [r \in RunIds |-> IF r \in Reapable(s) THEN Reaped(r) ELSE runs[r]]
  /\ log' = [r \in RunIds |-> IF r \in Reapable(s) THEN log[r] \cup {"reap"} ELSE log[r]]
  /\ sweep' = [sweep EXCEPT ![s] = {}]
  /\ UNCHANGED <<defs, request>>

\* The request dies before its commit.
AbortReap(s) ==
  /\ sweep[s] # {}
  /\ sweep' = [sweep EXCEPT ![s] = {}]
  /\ UNCHANGED <<defs, runs, log, request>>

\* The clock passes the sweep's cutoff for r.  Nothing reads the updated_at of
\* an ended run, so an ended run's flag is left FALSE.
Age(r) ==
  /\ runs[r].status \in InFlight \cup {"scheduled"}
  /\ ~runs[r].aged
  /\ runs' = [runs EXCEPT ![r].aged = TRUE]
  /\ UNCHANGED <<defs, log, request, sweep>>

-----------------------------------------------------------------------------
(* Definition CRUD.  Ids are UUIDs: a deleted one is never used again. *)

Written == [life: {"live"}, enabled: BOOLEAN, delayed: BOOLEAN, matches: Matchings]

CreateDefinition(d) ==
  /\ defs[d].life = "unborn"
  /\ \E row \in Written : defs' = [defs EXCEPT ![d] = row]
  /\ UNCHANGED <<runs, log, request, sweep>>

UpdateDefinition(d) ==
  /\ defs[d].life = "live"
  /\ \E row \in Written : defs' = [defs EXCEPT ![d] = row]
  /\ UNCHANGED <<runs, log, request, sweep>>

SetDefinitionEnabled(d) ==
  /\ defs[d].life = "live"
  /\ \E enabled \in BOOLEAN : defs' = [defs EXCEPT ![d].enabled = enabled]
  /\ UNCHANGED <<runs, log, request, sweep>>

\* Runs hold their definition's id without a foreign key, so they stay.
DeleteDefinition(d) ==
  /\ defs[d].life = "live"
  /\ defs' = [defs EXCEPT ![d] = [NoDefinition EXCEPT !.life = "deleted"]]
  /\ UNCHANGED <<runs, log, request, sweep>>

-----------------------------------------------------------------------------

Claim(c) ==
  \/ \E e \in Events, k \in Keys : DispatchRead(c, e, k)
  \/ \E d \in Definitions, k \in Keys : ScheduleRead(c, d, k)
  \/ \E ids \in [Unclaimed(c) -> FreeIds] : ClaimRuns(c, ids)
  \/ AbortClaim(c)

Sweep(s) == ReapSelect(s) \/ ReapCommit(s) \/ AbortReap(s)

EditDefinition(d) ==
  \/ CreateDefinition(d)
  \/ UpdateDefinition(d)
  \/ SetDefinitionEnabled(d)
  \/ DeleteDefinition(d)

Next ==
  \/ \E c \in Callers : Claim(c)
  \/ \E r \in RunIds : FireScheduledRun(r)
  \/ \E r \in RunIds, status \in Results : RecordResult(r, status)
  \/ \E s \in Sweepers : Sweep(s)
  \/ \E r \in RunIds : Age(r)
  \/ \E d \in Definitions : EditDefinition(d)

Spec == Init /\ [][Next]_vars

-----------------------------------------------------------------------------
(* Properties *)

\* Every variable stays in its type.
TypeOK ==
  /\ defs \in [Definitions -> Definition]
  /\ runs \in [RunIds -> Run]
  /\ log \in [RunIds -> SUBSET (Results \cup {"reap"})]
  /\ request \in [Callers -> Request]
  /\ sweep \in [Sweepers -> SUBSET (RunIds \X InFlight)]

\* However often, by however many callers at once, and whatever happens to the
\* definition in between, one idempotency key gives a definition one run
\* (_claim_run): the key is never freed, not even by the sweep.
OneRunPerDedupeKey ==
  \A r, q \in RunIds :
    /\ Exists(r) /\ Exists(q)
    /\ runs[r].definition = runs[q].definition
    /\ runs[r].key = runs[q].key
    => r = q

\* The audit trail agrees with the runs: nothing is logged of a run still to
\* have its outcome, and a success or a failure has the entry it came from
\* (record_result and reap_stale_runs write both in one transaction).
LogAgreesWithStatus ==
  \A r \in RunIds :
    /\ runs[r].status = "succeeded" => "succeeded" \in log[r]
    /\ runs[r].status = "failed" => log[r] \cap {"failed", "reap"} # {}
    /\ runs[r].status \in InFlight \cup {"absent", "scheduled"} => log[r] = {}

\* A sweep acts on a stale snapshot, and still fails only runs that have no
\* outcome: a genuine result is never overwritten by it (reap_stale_runs).
ReapSparesResults ==
  [][\A r \in RunIds : "reap" \in log'[r] \ log[r] => log[r] = {}]_vars

\* A run is never revived: no replayed event, duplicate fire or edit of its
\* definition makes a run that has ended pending, scheduled or dispatching again.
EndedRunsStayEnded ==
  [][\A r \in RunIds : runs[r].status \in Results => runs'[r].status \in Results]_vars
=============================================================================
