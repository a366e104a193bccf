----------------------------- MODULE AgentRuns ------------------------------
(***************************************************************************)
(* Core's store of agent runs: services/api/src/api/agent_runs.py, the     *)
(* routes of routers/internal_agents.py, and the two other makers of runs, *)
(* agent_chat_service.py and agent_dryrun_service.py.                      *)
(*                                                                         *)
(* Any caller may make any request at any time.  A request is a database   *)
(* transaction at READ COMMITTED; completing a run and sweeping read rows  *)
(* and act on what they read after other requests may have committed, so   *)
(* each is two actions.  The events of a request are published after its   *)
(* commit, each of them or not (EventPublisher is best-effort and nothing  *)
(* keeps an unpublished event).                                            *)
(*                                                                         *)
(* Abstractions.  One tenant.  Requests that are refused (the depth        *)
(* ceiling, an unresolvable prompt, a run that is not claimable) change    *)
(* nothing and are left out.  Time is the flag "aged" of a run: the stamp  *)
(* of its status (created_at, started_at) lies before the sweep's cutoff.  *)
(***************************************************************************)
EXTENDS Sequences

CONSTANTS
  Keys,      \* idempotency keys callers may send
  RunIds,    \* ids of agent runs: bounds how many rows are ever made
  Callers,   \* concurrent requests that complete runs
  Sweepers,  \* concurrent requests to POST /internal/agent-runs/reap
  None       \* no key, no run

ASSUME NoneAssumption == None \notin Keys \cup RunIds

VARIABLES
  runs,       \* runs[r]: the row of run r
  report,     \* report[c]: what c's completing request has read, and will write
  sweep,      \* sweep[s]: what s's sweep has selected and not yet updated
  requested,  \* the runs whose agent.run.requested reached the bus
  announced   \* announced[r]: the statuses of r's agent.run.completed, in order

vars == <<runs, report, sweep, requested, announced>>

InFlight == {"pending", "running"}
Terminal == {"completed", "failed"}

Run == [status: InFlight \cup Terminal \cup {"absent"}, key: Keys \cup {None},
        dryRun: BOOLEAN, aged: BOOLEAN, endedBy: {"nobody", "report", "sweep"}]
NoReport == [run |-> None, status |-> "none"]
Report == [run: RunIds, status: Terminal] \cup {NoReport}

NoRun == [status |-> "absent", key |-> None, dryRun |-> FALSE, aged |-> FALSE,
          endedBy |-> "nobody"]

Init ==
  /\ runs = [r \in RunIds |-> NoRun]
  /\ report = [c \in Callers |-> NoReport]
  /\ sweep = [s \in Sweepers |-> {}]
  /\ requested = {}
  /\ announced = [r \in RunIds |-> <<>>]

Exists(r) == runs[r].status # "absent"

-----------------------------------------------------------------------------
(* Making runs *)

\* Mutant: a failed run frees its key, so that the work can be asked for again.
TakenUnlessFailed(k) ==
  k # None /\ \E r \in RunIds : runs[r].key = k /\ runs[r].status # "failed"

\* The unique index on (tenant_id, idempotency_key); NULLs do not collide.
Taken(k) == k # None /\ \E r \in RunIds : Exists(r) /\ runs[r].key = k

\* create_run, the emit and the commit.  When the key is taken the caller gets
\* the run that has it, and nothing is written or emitted.
Created(r, k, dryRun) ==
  /\ ~Exists(r)
  /\ ~Taken(k)
  /\ runs' = [runs EXCEPT ![r] = [NoRun EXCEPT !.status = "pending", !.key = k,
                                               !.dryRun = dryRun]]
  /\ requested' \in {requested, requested \cup {r}}
  /\ UNCHANGED <<report, sweep, announced>>

\* POST /internal/agent-runs.
RequestRun(r, k) == Created(r, k, FALSE)

\* A preview: never keyed, and requested on the bus like any other run.
StartDryRun(r) == Created(r, None, TRUE)

\* run_chat_turn creates and completes its run in one transaction, and says
\* nothing on the bus; a turn that fails is committed as a failed run.
RunChatTurn(r, status) ==
  /\ ~Exists(r)
  /\ runs' = [runs EXCEPT ![r] = [NoRun EXCEPT !.status = status,
                                               !.endedBy = "report"]]
  /\ UNCHANGED <<report, sweep, requested, announced>>

-----------------------------------------------------------------------------
(* Claiming *)

\* Mutant: a running run can be claimed again.
ClaimUnfinished(r) ==
  /\ runs[r].status \in InFlight
  /\ runs' = [runs EXCEPT ![r].status = "running", ![r].aged = FALSE]
  /\ UNCHANGED <<report, sweep, requested, announced>>

\* POST /internal/agent-runs/{id}/claim, for the request that wins the
\* conditional UPDATE; it stamps started_at.
ClaimRun(r) ==
  /\ runs[r].status = "pending"
  /\ runs' = [runs EXCEPT ![r].status = "running", ![r].aged = FALSE]
  /\ UNCHANGED <<report, sweep, requested, announced>>

-----------------------------------------------------------------------------
(* Ending *)

\* A row that has ended.  Nothing reads an ended run's age.
Ended(r, status, by) ==
  [runs[r] EXCEPT !.status = status, !.aged = FALSE, !.endedBy = by]

Previews == {r \in RunIds : runs[r].dryRun}

\* emit_event for the runs of sent, for those whose publication succeeded.
Told(sent, status) ==
  [r \in RunIds |-> IF r \in sent THEN Append(announced[r], status) ELSE announced[r]]

\* POST /internal/agent-runs/{id}/complete, up to its check of the status.
CompleteRead(c, r, status) ==
  /\ report[c] = NoReport
  /\ runs[r].status \in InFlight
  /\ report' = [report EXCEPT ![c] = [run |-> r, status |-> status]]
  /\ UNCHANGED <<runs, sweep, requested, announced>>

\* Its UPDATE, by the row's id alone, the commit and the publication: a preview
\* is recorded but not announced.
CompleteCommit(c) ==
  LET r == report[c].run
      status == report[c].status IN
  /\ report[c] # NoReport
  /\ runs' = [runs EXCEPT ![r] = Ended(r, status, "report")]
  /\ \E sent \in SUBSET ({r} \ Previews) : announced' = Told(sent, status)
  /\ report' = [report EXCEPT ![c] = NoReport]
  /\ UNCHANGED <<sweep, requested>>

\* The request dies before its commit.
AbortComplete(c) ==
  /\ report[c] # NoReport
  /\ report' = [report EXCEPT ![c] = NoReport]
  /\ UNCHANGED <<runs, sweep, requested, announced>>

\* Mutant: the sweep looks at claimed runs only.
StaleClaimed == {r \in RunIds : runs[r].status = "running" /\ runs[r].aged}

\* reap_stale_runs' query.
Stale == {r \in RunIds : runs[r].status \in InFlight /\ runs[r].aged}

\* POST /internal/agent-runs/reap, the SELECT.
ReapSelect(s) ==
  /\ sweep[s] = {}
  /\ Stale # {}
  /\ sweep' = [sweep EXCEPT ![s] = {<<r, runs[r].status>> : r \in Stale}]
  /\ UNCHANGED <<runs, report, requested, announced>>

\* Mutant: the UPDATE does not check the candidate's status again.
ReapableBySnapshot(s) == {p[1] : p \in sweep[s]}

\* The candidates whose conditional UPDATE matches a row.
Reapable(s) == {r \in RunIds : <<r, runs[r].status>> \in sweep[s]}

\* Mutant: previews are announced.
AnnouncedPreviewsToo(s) == Reapable(s)

\* Mutant: every candidate is announced, reaped or not.
AnnouncedCandidates(s) == {p[1] : p \in sweep[s]} \ Previews

\* The runs whose failure a sweep announces.
ReapAnnounced(s) == Reapable(s) \ Previews

\* The UPDATEs, the commit and the publication.
ReapCommit(s) ==
  /\ sweep[s] # {}
  /\ runs' = [r \in RunIds |->
                IF r \in Reapable(s) THEN Ended(r, "failed", "sweep") ELSE runs[r]]
  /\ \E sent \in SUBSET ReapAnnounced(s) : announced' = Told(sent, "failed")
  /\ sweep' = [sweep EXCEPT ![s] = {}]
  /\ UNCHANGED <<report, requested>>

\* The request dies before its commit.
AbortReap(s) ==
  /\ sweep[s] # {}
  /\ sweep' = [sweep EXCEPT ![s] = {}]
  /\ UNCHANGED <<runs, report, requested, announced>>

\* The clock passes the sweep's cutoff for r.
Age(r) ==
  /\ runs[r].status \in InFlight
  /\ ~runs[r].aged
  /\ runs' = [runs EXCEPT ![r].aged = TRUE]
  /\ UNCHANGED <<report, sweep, requested, announced>>

-----------------------------------------------------------------------------

Make(r) ==
  \/ \E k \in Keys \cup {None} : RequestRun(r, k)
  \/ StartDryRun(r)
  \/ \E status \in Terminal : RunChatTurn(r, status)

Complete(c) ==
  \/ \E r \in RunIds, status \in Terminal : CompleteRead(c, r, status)
  \/ CompleteCommit(c)
  \/ AbortComplete(c)

Sweep(s) == ReapSelect(s) \/ ReapCommit(s) \/ AbortReap(s)

Next ==
  \/ \E r \in RunIds : Make(r)
  \/ \E r \in RunIds : ClaimRun(r)
  \/ \E c \in Callers : Complete(c)
  \/ \E s \in Sweepers : Sweep(s)
  \/ \E r \in RunIds : Age(r)

Spec == Init /\ [][Next]_vars

-----------------------------------------------------------------------------
(* Properties *)

\* Every variable stays in its type.
TypeOK ==
  /\ runs \in [RunIds -> Run]
  /\ report \in [Callers -> Report]
  /\ sweep \in [Sweepers -> SUBSET (RunIds \X InFlight)]
  /\ requested \subseteq RunIds
  /\ announced \in [RunIds -> Seq(Terminal)]

\* One piece of work that its callers name by a key is one run, in whatever
\* state that run is: two sibling completions that both ask for the joining run
\* get the same one, also after it failed (create_run).
OneRunPerKey ==
  \A r, q \in RunIds :
    Exists(r) /\ Exists(q) /\ runs[r].key # None /\ runs[r].key = runs[q].key => r = q

\* A preview causes nothing: no completion of a dry run is ever announced,
\* neither by its report nor by the sweep that fails it.
PreviewsStaySilent == \A r \in RunIds : runs[r].dryRun => announced[r] = <<>>

\* A sweep acts on a stale snapshot, and still fails only runs nothing has
\* reported: a real outcome, or a claim, that came first is left alone.
SweepSparesReports ==
  [][\A r \in RunIds :
       runs'[r].endedBy = "sweep" /\ runs[r].endedBy # "sweep"
       => runs[r].endedBy = "nobody" /\ runs[r].aged]_vars

\* The promise of reap_stale_runs: of a sweep and a completion "whichever lands
\* first wins, and the other becomes a no-op"; and of complete_run: "a second
\* delivery must not overwrite the first result".
FirstOutcomeWins ==
  [][\A r \in RunIds : runs[r].status \in Terminal
                       => runs'[r].status = runs[r].status]_vars
=============================================================================
