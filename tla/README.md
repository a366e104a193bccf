# Verification of the orchestration core and of the programs around it

This directory holds TLA+ models of two parts of this repository. The first runs
unattended: Core's stores of workflow runs and agent runs, and the plugins that
claim those runs, execute them and report what became of them. The second is
what people drive it with: the `biffo` command line, which creates, upgrades and
removes instances and their plugins, the repository's own release, ownership and
closing-keyword machinery, and the pages of the portal. TLC checks the models on
small instances; TLAPS proves the main properties of both stores, of both
plugins, and of twelve of the thirteen programs around them, for every size.
Paths below are relative to the repository.

## 1. Inventory

The repository is a template for a multi-tenant platform: a FastAPI service
("Core") over PostgreSQL, plugins that run as Lambdas behind an event bus, a
Next.js portal, a TypeScript CLI that creates and upgrades the instances made
from the template, and a great deal of tooling.

| Component | Source | State | Operations |
|---|---|---|---|
| Orchestration store | `services/api/src/api/orchestration.py`, `routers/internal_orchestration.py` | `workflow_definitions`, `workflow_runs` (unique `dedupe_key`, `status`, `scheduled_for`, `updated_at`), `action_log` | dispatch an event, claim a run at a time, fire a scheduled run, record a result, reap stale runs, definition CRUD |
| Orchestrator plugin | `services/_plugins/orchestrator/src/orchestrator/plugin.py`, `main.py` | none between invocations; the claimed runs and the attempt counter within one | `process_event`, `schedule_run_at`, `fire_scheduled_run`, `_execute_run`, `_record`, the reap tick, `deliver_on_completion` |
| Agent run store | `services/api/src/api/agent_runs.py`, `routers/internal_agents.py` | `agent_runs` (`status`, idempotency key, depth, `dry_run`, `started_at`, `finished_at`) | create-or-get, claim, complete, reap, dry run, one-transaction chat turn |
| Agent runtime plugin | `services/_plugins/agent-runtime/src/agent_runtime/plugin.py` | none between invocations | take a requested run, run the turn loop, report |
| Event emission | `services/api/src/api/events/emit.py`, `database.py` | events held on the session until the commit | emit, publish after commit |
| Core upgrade | `cli/src/commands/core-upgrade.ts`, `lib/core-upgrade.ts`, `lib/core-migrations.ts` | an instance's clone, its branches, GitHub's, its `biffo.core.json` and orphan baseline | plan a three-way merge of two releases, carry migrations, apply, commit, push, open a pull request, reap |
| Plugin commands | `cli/src/commands/plugin-*.ts` | the working trees of the core and, if apart, the dashboard | create, install, upgrade, refresh, uninstall, sync migrations |
| Instance commands | `cli/src/commands/init.ts`, `sibling-create.ts`, `deploy.ts`, `teardown.ts`, `lib/session.ts` | session files, repositories, roles, state buckets, infrastructure | init, sibling create, deploy, destroy, teardown |
| Doctor | `cli/src/commands/doctor.ts`, `lib/doctor-reaper.ts` | the clone's worktrees and branches | gather, judge, reap |
| Plugin repository | `cli/src/commands/plugin-create.ts`, `lib/branch-protection-*.ts` | a repository and its protection | create, push, protect, repair |
| Releases | `cli/src/scripts/sync-core-tag.ts`, `lib/release-version.ts`, `lib/npm-publish.ts` | `dev`, the `core-v` tags, npm | judge a subject, decide a version, tag, publish |
| Ownership guard | `cli/src/lib/core-ownership-guard.ts`, `lib/upgrade-commit-files.ts` | branches and their commits | the commit hook, the pull request's check |
| Migration body-change guard | `cli/src/lib/migration-body-change-guard.ts`, `lib/core-migrations.ts` | a released migration and its markers | diff by statements, judge |
| Closing-keyword guard | `scripts/check-closing-keywords.mjs`, `.github/workflows/release-guards.yml` | a pull request, its check, the merge queue | read four times, judge, re-run |
| Portal: sign-in | `apps/portal/src/app/(auth)/login/page.tsx`, `context/auth-context.tsx`, `lib/auth.ts` | the session, the login form, token storage | load, sign in, reset, forward, sign out |
| Portal: views | `components/InstalledPluginDetail.tsx`, `nav.tsx`, `app/admin/agent-runs` | what a page shows | ask, answer, page, expand |
| Portal: workflow editor | `app/admin/orchestration/page.tsx` | the form, the test panel, the tables | edit, dry run, save, enable |
| Portal: admin forms | `app/admin/users`, `endpoints`, `prompt-components` | forms, rows, the assistant | open, fill, save, delete |
| Turn loop, workflow actions, write-back | `.../agent_runtime/loop.py`, `.../orchestrator/actions.py`, `services/api/src/api/writeback.py` | turns and spend; none; denial counts | not modelled |
| Dynamic CRUD, permissions, identity, plugin host, migrations, prompts, media, storage, jobs, PR signer | the modules of those names | rows, schema | not modelled |
| Infrastructure, scripts, skeletons | `infra`, `scripts`, `_skeletons` | files | not modelled |

How they interact. A row change in Core emits an event after its commit. The
orchestrator gets it from the bus, any number of times, and asks Core which
definitions match; Core inserts one run per definition and key, and tells for
each whether this call created it. A created run is executed at once, or gets
an EventBridge schedule whose callback claims it later. One action is "request
an agent run": Core creates an agent run and emits an event; the agent runtime
claims the run, executes the loop and reports; Core emits the completion, and
the orchestrator delivers it. Two recurring ticks ask Core to fail the runs
nobody is working on any more. The portal edits what Core holds through its
HTTP routes. The CLI shares no state with any of this: it works on clones, on
GitHub and on AWS, and meets other programs there (developers, CI, the merge
queue, other sessions), which the models include as environment.

What is hard here. In Core and the plugins: nothing but rows in PostgreSQL
outlives an invocation; any invocation can die between two calls; every
delivery is at-least-once; a sweep works from a snapshot; a claim can wait for
weeks, and its definition can be edited or deleted meanwhile. In the CLI: a
command is a long sequence of effects on other systems of which any may fail,
nothing is rolled back, and the operator runs the next command on what is there;
what was read at the start (a checkout, a fetch, a list) is acted on later. In
the repository's guards: what is judged is not what is merged later. In the
portal: answers come back in any order while the person does something else.

What makes each part correct:

* store: one run per definition and key; an outcome is not overwritten by a
  sweep; nothing ended comes back; the audit log agrees with the statuses;
* orchestrator: a run is executed by one invocation at most; a run whose
  invocation died is ended by the sweep and only such a run is; every event
  gets its own run;
* agent runs: one billing per run; one terminal state and one completion event
  per run; every requested run ends;
* core upgrade: the instance's edits survive, the release's content arrives, no
  migration comes twice, a failure leaves no work of the command on a branch of
  the developer's, and only merged branches are reaped;
* plugin commands: a stopped install names what it left, a module stays while
  something refers to it, two repositories do not drift apart unannounced;
* instance commands: infrastructure is destroyed before what destroys it, a
  session never claims what is not there, nothing is sealed before it is whole;
* doctor: nothing unmerged is deleted and no session loses its worktree;
* releases and guards: versions grow along `dev`, the two halves of a guard
  agree, what is merged is what was judged;
* portal: nothing shown, sent, enabled or routed belongs to another plugin,
  record, definition or person than the one the page is about.

The hazards these properties answer are listed in PROJECT.json, each at its
line.

## 2. Modules

| Module | Models | Interacts through |
|---|---|---|
| `WorkflowRuns` | Core's orchestration store, for ANY caller | its variables |
| `Orchestrator` | the orchestrator plugin composed with the store (`Core == INSTANCE WorkflowRuns`, on the same variables) | calls `Core!...` |
| `AgentRuns` | Core's store of agent runs, for ANY caller | its variables |
| `AgentRuntime` | the agent runtime plugin composed with that store (`Core == INSTANCE AgentRuns`) | calls `Core!...` |
| `OnceOnlyWork` | the abstract contract of claiming, executing and reporting | implemented by both compositions |
| `UpgradePlan`, `MigrationCarry` | the two algorithms of a core upgrade, as operators | used by `CoreUpgrade` |
| `CoreUpgrade` | the command, the clone, GitHub and the developer | `EXTENDS` both |
| `PluginLifecycle`, `InstanceLifecycle`, `BranchReaper`, `PluginRepository` | the other commands, each with the systems it changes and the people around it | their variables |
| `ReleaseTrain`, `OwnershipGuard`, `MigrationGuard`, `ClosingKeywords` | the repository's machinery and the people who push, retitle and merge | their variables |
| `PortalSession`, `PortalViews`, `WorkflowEditor`, `PortalForms` | pages of the portal, the requests they wait for, and the part of Core that answers | their variables |
| `MC*` | the constants of the instances, the symmetries; `MCClients` puts the programs of the last four rows side by side | |
| `*_proofs` | theorems and their lemmas | |

A request to Core is one database transaction at READ COMMITTED. Its writes
hold row locks until the commit, so a batch of inserts or updates is one step;
what was read before others could commit is a step of its own. In the two store
modules any caller may make any request at any time, in any order, so what is
true of them does not depend on the plugins behaving well.

### WorkflowRuns

| Variable | Code |
|---|---|
| `defs[d]` | a `WorkflowDefinition` row: live or deleted, `is_enabled`, has a `schedule_config`, the events its trigger matches |
| `runs[r]` | a `WorkflowRun` row; status `absent` before the insert |
| `log[r]` | the statuses and reap marks among the run's `ActionLog` rows |
| `request[c]` | a claiming request between its SELECT on definitions and its INSERTs |
| `sweep[s]` | a sweep between its SELECT and its conditional UPDATEs |

| Action | Code |
|---|---|
| `DispatchRead`, `ScheduleRead` | `dispatch_event`, `schedule_run_at` up to the query |
| `ClaimRuns` | `_claim_run` for each definition read (a SAVEPOINT that the unique constraint rolls back), and the commit |
| `AbortClaim`, `AbortReap` | `get_db`'s rollback |
| `FireScheduledRun` | `fire_scheduled_run`: the conditional UPDATE, and the skip when the definition is gone or disabled |
| `RecordResult` | `record_result`, which has no guard on the status |
| `ReapSelect`, `ReapCommit` | `reap_stale_runs` |
| `Age` | time: `updated_at` falls behind the cutoff |
| `EditDefinition` | the four CRUD functions |

### Orchestrator

`inv[i]` is a Lambda sandbox: idle, waiting for Core's answer to a claim,
working through the runs it created, executing an attempt, or recording.
`schedules` is the set of runs for which EventBridge was given a schedule; a
schedule calls back any number of times. `executions` and `performed` are
history: how often an invocation began a run, and how often its action had its
effect outside. The environment delivers any event, any number of times, and
kills any invocation at any point (`Crash`). Idempotency keys come from the
payload's id or its hash (`KeyOf`), or are fresh for an event with an empty
payload. Actions follow the plugin's functions: `ProcessEvent` and
`ReceiveClaims` are `process_event` around its call of Core, `RequestRunAt` is
`schedule_run_at`, `CreateSchedule` is `_schedule_run`, `StartRun` and the
`Attempt...` actions are `_execute_run`, `FireCallback` is `fire_scheduled_run`,
`Record` is `_record`.

The lease. `Age` of a run in flight is guarded: no live invocation holds it.
This is the one timing fact the code relies on: Lambda kills an invocation
within 900 seconds and the sweep's cutoff is 1800 (`config.py:194`,
`orchestration.py:463-473`). In `WorkflowRuns` `Age` has no such guard.

### AgentRuns

| Variable | Code |
|---|---|
| `runs[r]` | an `AgentRun` row: status, idempotency key, `dry_run`, whether its stamp is before the sweep's cutoff; `endedBy` is history |
| `report[c]` | a completing request that has read and checked the row and has not written it |
| `sweep[s]` | a sweep between its SELECT and its conditional UPDATEs, each candidate with the status it was read in |
| `requested` | the runs whose `agent.run.requested` was published |
| `announced[r]` | the statuses of the `agent.run.completed` events published for r |

| Action | Code |
|---|---|
| `RequestRun` | `request_agent_run`, `create_run`, the commit and the publication; a key that is taken returns the run that has it |
| `StartDryRun` | `start_dry_run`: a preview, never keyed |
| `RunChatTurn` | `run_chat_turn`: created and ended in one transaction, nothing published |
| `ClaimRun` | `claim_run`, the winner of the conditional UPDATE |
| `CompleteRead`, `CompleteCommit` | `complete_run` up to its check of the status; its UPDATE by the row's id, the commit and the publication |
| `ReapSelect`, `ReapCommit` | `reap_stale_runs`, and the events of `reap_stale_agent_runs` |
| `AbortComplete`, `AbortReap` | `get_db`'s rollback |
| `Age` | time |

Events are published after the commit and the publisher is best-effort, so of
the events of a request any subset reaches the bus, and none is sent later.

### AgentRuntime

`inv[i]` is an invocation: it has read that the run is pending (`checked`), it
executes, or it waits for the answer to its report. `executions` counts how
often an invocation began to execute a run, which is when the paid model is
called. `LoseAnswer` is a claim that Core granted and whose answer was lost; the
run is then left to the sweep. The turn loop is one step with an arbitrary
outcome. A crash ends the invocation and not the request it made. The lease is
the same as above for claimed runs (`agent_run_stale_after_seconds` is 1800);
runs that nobody has claimed may age at any time, also while an invocation is
about to claim one.

### OnceOnlyWork

The contract: a piece of work is started once at most, never after it has
ended, and its outcome stays. The refinement mappings are in the two
compositions (`Contract == INSTANCE OnceOnlyWork WITH ...`): a start is an
increment of `executions`, an outcome is a terminal status. It is deliberately
not true of either store alone: `record_result` and `complete_run` write without
a condition, and only with these clients under the lease is the outcome final.

### UpgradePlan and MigrationCarry

A file is absent or a pair of hunks, which is as much of a text as
`git merge-file` tells apart. `Classify` is `classify` of `lib/core-upgrade.ts`,
with every way it can go (kept, added, removed, restored, merged, in conflict);
`FaithfulToTag` is the check that the plan was read from what the tag ships;
`Orphans` is what the ratchet counts. `PlanMigrationCarry` decides which
Alembic migrations of a release an instance still has to take (by provenance
marker, by file name, by a body that occurs once), under which revision and
after which of its own; the entries are numbered by the migration's place in the
release's chain. `ValidChain` is the chain Alembic accepts.

### CoreUpgrade

| Variable | Code |
|---|---|
| `branches`, `head`, `work` | the clone: the tree of each local branch, the branch checked out, the working tree |
| `remote`, `tracking`, `upstream`, `prs` | GitHub's branches, what the last fetch said of them, the recorded upstreams, the pull requests |
| `cmd` | the command: where it is, its flags, its plan |
| `mine`, `settled` | history: the tree as the developer left it; the trees merged, or deleted on GitHub by a person |

Each action is a stage of `runCoreUpgrade` in its order, with its refusals:
currency check, resolution of the two trees, the plan, the gate and the new
branch, the writes (which may stop after any of them), the commit, the install,
the push, the pull request, and the way back to the caller's branch
(`RestoreCallerBranch`). `Crash` may end it anywhere. Between commands the
developer edits, deletes, renumbers migrations, commits (`CommitEdits`), pushes
(`PushBranch`, a step of its own), switches and pulls, pull requests are merged,
and people delete branches on GitHub (`DeleteOnGitHub`).

A template checkout may be moved to another release or branch (`Checkouts`)
while the command reads it (`TargetTrees`). `assertTargetFidelity` holds the plan
to the tag, but only if `git ls-tree` can list the tag; if not, the command
prints "NOT VERIFIED" and goes on (`core-upgrade.ts:588-605, 1719-1724`). So
`AfterPlanning` refuses a plan that is not the tag's only when it is `verified`.
`ReleaseArrives` says of each path what the code can: all of it for a tree
materialised from the tag; for a verified checkout, that a file taken whole is
the tag's (a file the checkout shows unchanged is in no entry that is compared);
nothing for a checkout that could not be verified, whose files go into the
upgrade commit under the new version's number. The tree is read at one moment:
that the checkout moves once more between the plan and its verification is left
out.

`Reapable` is the reaper's whole judgement: an upstream is recorded, and gone
(`upgrade-branch-reaper.ts:80-98`). Gone means that the branch was deleted on
GitHub, after its merge or by a person, and `ReapedIsSettled` says just that of
what was last *pushed*. The local tip is not looked at, and the deletion is
`git branch -D` (`adapters/git/index.ts:422-434`): a commit made on an upgrade
branch after its last push is lost when the branch is reaped. The instance has
such commits; no property covers them, since the code promises nothing of them.

### PluginLifecycle and InstanceLifecycle

A command is the list of its steps (`InstallSteps`, `UninstallSteps`,
`InitSteps`, `TeardownCalls`, ...). A step has its effect, or fails with the
effect or with part of it, or is one of those whose failure is only reported
(`Tolerated`, `RelockFails`). `told` is what `withLeftovers` says of a stopped
install; `disk` holds the session files, whose steps are merged and never
un-recorded (`Merged`), and `job.sibling` is the application's session inside
`init`'s. Between commands the operator discards, edits `main.tf`, deletes
repositories by hand, and the siblings' own workflows deploy.

### BranchReaper

Commits are sets, ancestry is inclusion. The doctor gathers facts once
(`GatherRepoFacts`) and then judges a worktree or branch in four separate
questions (`CheckClaim`, `CheckClean`, `AskVerdict`, `AskContained`) before
`Reap`; any number of sessions' steps may fall in between: edits, commits,
claims, pushes by them and by others, pull requests opened, merged and closed.
One timing fact is assumed: a session does not detach or close the worktree of
the very branch that is being judged in those seconds.

### PluginRepository, ReleaseTrain, OwnershipGuard, MigrationGuard, ClosingKeywords

`PluginRepository` is `plugin create --standalone --org`, its two calls of
branch protection, the summary it ends with, and the later
`check branch-protection --fix`. `ReleaseTrain` has the pull request whose
title becomes the commit's subject, runs of `core-tag.yml` of which GitHub keeps
one running and one waiting, re-runs from an old run's page, tags pushed by
hand, and the publication. `OwnershipGuard` has branches as the sets of commits
ahead of `dev`, merged into each other; the hook judges what is staged, the
check the whole difference. git shows a file that moved as a rename, of which
`parseNameStatus` keeps the new path only (`core-ownership-guard.ts:190-213`), so
a commit that moves a template-owned file away passes the hook; if a later
commit changes what was moved, the branch's difference may show it deleted, and
the check refuses the branch. `HookSpeaksForCheck` names that case
(`RenameMayComeApart`) beside the branch's name and its first commit, and holds
for every other rename. One thing is assumed of git: the rename it finds in a
commit it finds in the branch's difference too, as long as no other commit of
the branch touches either path (with very many files git stops looking, and an
equally similar file could take the place of the old path; neither is modelled).
`MigrationGuard` is one migration as the sequence of its lines, edited by pull requests that follow each other, and the guard's whole
decision: the line diff (`Unchanged`), the statements by bracket depth, and the
marker each touched statement needs directly above it. `ClosingKeywords` reads body, title, messages and
links one by one from a pull request that is rewritten meanwhile; a document is
the set of the forms in which it puts a keyword before an issue (a directive, in
passing, denied, quoted).

### The portal

A page's handlers run to their first `await`; every request is a record in a
set (`calls`, `asks`, `requests`, `inFlight`) until its answer, in any order, is
handled as the code handles it, and effects follow the handler that changed
what they depend on (`Render` in `PortalSession`). States between a change and
its effects are not states of the model: a page may paint one frame of what it
showed before. In `PortalSession` a request keeps the `return_to` of the render
it was made in, and `late` says that a session had ended by then. In `WorkflowEditor`,
`form.poll` is `pollRef`, the token by which a dry run owns the test panel. In
`PortalForms`, every field remembers the form it was set in. Histories
(`passed`, `handed`, `born`) exist for the properties only.

### MCClients

The programs around the running system share no state, so `MCClients` has a
variable `scene` that picks one of them at the start and lets only that one
move; the state TLC compares is that program's (`VIEW ClientsView`), which is
exact, since the others stay in one initial state. One run thus checks all of
their properties, each on the instance chosen for its program.

## 3. Runs

| Run | Shows | Instance |
|---|---|---|
| `claims` | keys stay unique, the log agrees with the statuses, a sweep spares outcomes, nothing is revived, under any caller | 1 definition, 1 key, 2 runs, 2 callers, 2 sweeps |
| `orchestrator` | the contract; runs skipped are not executed and delayed ones not before their schedule; only orphans are reaped | 1 definition, 2 keys, 2 runs, 2 sandboxes, 1 sweep, 3 attempts |
| `orchestrator_batch` | no definition and no event swallows another's run when one claim makes two | 2 definitions, an event with an id and one without a payload, 2 runs, 1 sandbox, no sweep, 1 attempt |
| `orchestrator_live` | every claimed run ends | 1 definition, 1 run, 2 sandboxes, 3 attempts, delayed and immediate |
| `orchestrator_same_id` | finding: two events about one record have one key | 2 events, 1 key |
| `orchestrator_retry` | finding: an attempt that took effect and timed out is made again | 3 attempts |
| `orchestrator_lost_schedule` | finding: a claim committed before its schedule is created may never get one | 1 run |
| `agent_runs` | one run per key, silent previews, a sweep spares what was reported or renewed, under any caller | 1 key, 2 runs, 2 callers, 1 sweep |
| `agent_runs_race` | finding: a completion overwrites an outcome that was committed after its check | 1 run, 2 callers, 1 sweep |
| `agent_runtime` | the contract; an end is announced once and as what it was; every run ends | 1 key, 2 runs, 2 invocations, 1 sweep |
| `clients` | the properties of the thirteen programs below | one instance each |
| `init_resume` | finding: an interrupted init starts the application's repository over | 1 environment, 2 branches, 3 commands |

What `clients` checks, and on what:

| Program | Properties | Instance |
|---|---|---|
| `CoreUpgrade` | `InstanceEditsSurvive`, `ReleaseArrives`, `MigrationsRunOnce`, `NothingCarriedOver`, `ReapedIsSettled` | 2 releases, of which the second changes, drops and takes over a file each and adds a migration; a checkout moved back to the first release; 2 commands with 2 sets of flags (dirty and unpushed; conflicts and `--reap`), 2 steps of people |
| `PluginLifecycle` | `InstallReportsWhatItLeft`, `ModuleStaysWhileReferenced`, `RegistrationIsAccountedFor` | 2 plugins, one with a second version without a Terraform module; 3 commands, dashboard inside or apart |
| `InstanceLifecycle` | `InfrastructureIsDestroyedFirst`, `AppSessionTellsTheTruth`, `SealedIsComplete` | the core, the application and one more sibling; 3 commands |
| `BranchReaper` | `DeletedBranchesHaveShipped`, `SessionsKeepTheirWorktree` | 1 branch of up to 3 commits, 2 scans, 8 steps of sessions |
| `PortalSession` | `OneRoutePerSession`, `ReturnToServesOneIdentity` | 2 people of different ranks, 2 sessions, 1 load |
| `PortalViews` | `ShowsWhatWasAsked` | 2 plugins, 2 sessions, 2 requests |
| `WorkflowEditor` | `EnabledOnlyAsTested`, `NoTestIsStuck` | 1 workflow, prompts of 2 parts, 1 edit, 2 requests |
| `PortalForms` | `FormsDoNotMix` | 2 records, 2 openings, 3 requests, 2 inputs |
| `ReleaseTrain` | `VersionsFollowDev` | 2 merges, 1 tag by hand, re-runs without bound |
| `OwnershipGuard` | `HookSpeaksForCheck` | 2 branches, 3 commits, a path under a template-owned prefix and one that is not, renames between them, the template's tree known or not |
| `MigrationGuard` | `MergedEditsAreDeclared` | a migration of up to 4 lines with brackets and 3 markers, one malformed; 2 pull requests of 2 line edits each; a longer file takes the fallback of the line diff |
| `ClosingKeywords` | `MergeClosesWhatWasAsked` | 2 rewrites, 3 bodies, 2 titles, 3 messages |
| `PluginRepository` | `DoneMeansBoundOrNamed` | 2 runs of the command |

Why the bounds of `clients` are enough. A command meets trouble of another's
making, so two commands (three where a checkpoint or a second repository lies
between) with the operator's steps between them make a failed one followed by
one that trips over it; a third repeats the second. Two releases are one
upgrade, and a second command on the same instance is the repeated or resumed
one. Late answers need two requests under way, and a form or a test that has
changed in between needs one more step. Every bound is a constant in a guard and
named with the constants; each property has a bug of the code's own kind, kept
in the module as a mutant operator, that the same instance catches.

Why the bounds of the first ten runs are enough. Runs interact through their
keys only, so two rows make every pair of claims (same key, different key,
different definition), and two claimed runs in one invocation make a crash
between them. Two callers make every race on one row: a third would repeat the
role of one of them. A second sweep adds a second stale snapshot with the same
conditional UPDATE; `claims` has two, and the proofs cover any number.
`MaxAttempts` is 3 in the code; `orchestrator_batch` takes 1, where retries are
not the question. Row ids bound how many rows are ever inserted; when they are
used up an instance stops creating.

Fairness (`FairSpec`, in the runs that check liveness). An invocation that has
begun goes on or dies, since Lambda ends it: weak fairness of `Step`, which
includes `Crash`. A request of Core's that has begun commits or aborts: weak
fairness of `CompleteCommit \/ AbortComplete`. The clock runs: weak fairness of
`Age`. The reap tick recurs on an EventBridge rule: weak fairness of
`ReapSelect`; and a sweep may fail, but not every one: strong fairness of
`ReapCommit`. No event is assumed to be published or delivered and no callback
to arrive.

`CHECK_DEADLOCK FALSE` stands where a bounded supply runs out and the instance
comes to rest: the agent-run instances, whose runs all end, the two orchestrator
instances with two events, and `clients` and `init_resume`, whose commands,
requests and edits are counted.

`clients` and `init_resume` have no fairness: they check safety only.

## 4. Findings

* `init_resume`. `createAppSibling` keeps the application's session in memory
  until its whole step has ended, so an `init` interrupted midway starts it over
  and stops at the repository it had made, although init.ts:492 says it
  "resumes at the sibling step it reached".
* `orchestrator_same_id`. `_idempotency_key` (plugin.py:125) returns the
  payload's `id` and nothing else. Two different events about one row have the
  same key, and the second is told `created=false`.
* `orchestrator_retry`. The retry loop treats every failure of the HTTP client
  as transient, a read timeout after the effect included, so "fires each action
  exactly once" (`services/_plugins/orchestrator/README.md:90`) does not hold.
* `orchestrator_lost_schedule`. The claim commits in Core before the plugin
  creates the schedule, only the invocation that was told `created=true`
  creates it, and the sweep leaves scheduled runs alone.
* `agent_runs_race`. `complete_run` checks the status in one statement and
  writes by the row's id in another, so "whichever lands first wins"
  (`agent_runs.py:622`) is not what two concurrent requests do. Run
  `agent_runtime` and theorem `PaidOnce` show that it does not bite with the
  shipped runtime, which reports once and within its lease.

Met while modelling, and not the subject of a run:

* `apps/portal/src/app/admin/orchestration/page.tsx:1024` says that a
  superseded test never writes to the panel; `RunCompletes` is what the code
  does: a completed poll writes its result whoever owns the panel. It does no
  harm (`EnabledOnlyAsTested`), since the snapshot is the one it was started with.
* `cli/src/lib/npm-publish.ts:246` tells its reader "NOT published, re-run is
  safe" for failures it does not recognise, among them answers lost after the
  publication.
* `cli/src/commands/teardown.ts:161` takes a listing that failed for an empty
  one, so that deployed environments are left out of the destruction;
  `InfrastructureIsDestroyedFirst` excuses what was overlooked that way.
* `cli/src/scripts/check-branch-protection.ts:77` requires the names of
  workflows where checks report under the names of jobs, and `--fix` never
  looks at whether administrators are bound.
* `scripts/check-closing-keywords.mjs`: a keyword in passing in the TITLE is let
  through although the title is the squash commit's subject; on deploy-only
  paths a `Verified-on-deploy:` trailer also lets a message's keyword through,
  which the file's own introduction says is "still caught"; one deliberate
  directive anywhere excuses every other keyword; and an edit made while the
  pull request is in the merge queue is never judged. The property says which
  of these it excuses.
* `cli/src/lib/migration-body-change-guard.ts:159` says that an edit which
  changes the hashed body and touches no statement "should never happen"; one
  that only removes lines is exactly that (`EditAllowed`), so it is refused
  however it is declared, unless another statement of the file is edited and
  declared with it. `scripts/check-migration-body-change.ts:9` speaks of the
  merge base and reads the tip of the base branch, which is the same only for
  a pull request that is up to date.
* `apps/portal/src/app/(auth)/login/page.tsx:66-73` and `:145-152` say that a
  `return_to` never outlives the session it was resolved for. A sign-in that was
  submitted *before* the session ended goes on in the handler of its render
  (`:120-143`, `:265-273`) and routes to the earlier `return_to`.
  `ReturnToServesOneIdentity` is about every request made after the end; it names
  this one as not covered.
* `apps/portal/src/app/admin/orchestration/page.tsx:2136-2138` tells the author
  that a passing test is required before a workflow can be enabled. The Enable
  button of a saved workflow's row (`:2515`) asks for none. `EnabledOnlyAsTested`
  is about what the form sends.
* `cli/src/lib/core-ownership-guard.ts:190-200` has both halves of the guard parse
  the same thing so that they never disagree. For a rename that a later commit
  pulls apart they do (section 2).
* `cli/src/adapters/git/index.ts:422-434` deletes with `git branch -D` since it
  "only ever passes branches whose upstream git reports as gone"; local commits
  made after the last push go with the branch.
* `cli/src/commands/core-upgrade.ts:602-605`: an upgrade that could not be
  verified against its tag is applied, after a line that says so.
* The release-subject guard looks at template-owned paths, the tag job at those
  and at the ones that are only released (`Unparseable`, `ReleasePathspecs`).

## 5. Proofs

Each theorem holds for any sets of the constants, from the named assumptions of
the modules: `NoneAssumption` (None is neither a key nor a row),
`MatchingsAssumption` (triggers match sets of events), in `Orchestrator` also
that the keys sent are keys (`KeyOfAssumption`, `ScheduleKeysAssumption`) and
that there is at least one attempt (`MaxAttemptsAssumption`); in `BranchReaper`
that a branch's first commit is one of the commits (`FirstAssumption`); in
`PortalForms` that the bound on forms is a number (`MaxOpensAssumption`); in
`PluginLifecycle` that versions are numbered from 1 (`ShipsAssumption`, since 0
and -1 stand for directories that hold none); in `ReleaseTrain` that a version
pushed by hand is a pair of numbers (`HandVersionsAssumption`). `CoreUpgrade`
has four: releases are numbered (`ReleasesAssumption`); a tree's migrations are
the files of one directory (`DirectoryAssumption`); a migration's template file
name is its identity, which `lib/core-migrations.ts:352` relies on, so it is not
renumbered once released, and no other takes its description
(`IdentityAssumption`); and the instance begins with a sound tree, in which no
marker names a migration that the file is not (`FirstTreeAssumption`).
`InstanceLifecycle` has two: a repository's branches are a list that begins with
`dev` (`LineOrderAssumption`), as every one made from the template or a skeleton
does, and the configured environments are finitely many (`EnvsAssumption`).

A proof has corrected two properties, which TLC had found to hold on their
instances and which fail just beyond them; both are now exact, and the proofs
hold for any bounds. A third proof found an action too liberal: `CreatePullRequest`
opened one of a branch that GitHub did not have. `HookSpeaksForCheck` exempted a branch into which something
older *of another branch* was merged; with a fourth commit the older one may be
of an earlier branch of the same name, so a commit now carries what the hook
took for the branch's first (`first`). `ModuleStaysWhileReferenced` exempts what
a step that stopped has left half done (`unfinished`), which a later uninstall
made it forget for a module directory it did not find (`Settled`, `NoModule`).

`WorkflowRuns_proofs`, of `WorkflowRuns!Spec`:

* `TypeCorrect`: `[]TypeOK`, one step per action (`TypeInit`, `TypeStep`).
* `OneRunPerKey`: `[]OneRunPerDedupeKey`. The invariant alone is not inductive:
  two inserts of one claim must not be for the same definition, which holds
  because a request has read each definition once. `ClaimInv` adds that
  (`SeenOnce`), and lemma `ClaimKeepsKeysUnique` is the insert.
* `LogCorrect`: `[]LogAgreesWithStatus`, by the row lemma `LogAgreesByRow`.
* `SweepsSpareResults`: the sweep's action property follows from `TypeOK` and
  `LogAgreesWithStatus`: a candidate is updated only while in flight, and a run
  in flight has an empty log.
* `NoRevival`: `EndedRunsStayEnded`, by cases on the actions: every action that
  puts a run in flight has a guard on its status.

`AgentRuns_proofs`, of `AgentRuns!Spec`: `TypeCorrect`, `KeysUnique`,
`PreviewsSilent` and `SweepsSpare`. They share one inductive invariant, `IInv`:
the properties, `Bookkeeping` (only rows are announced or reported; a row in
flight has not been ended), and `SnapshotsHold`, which is why a stale snapshot
is harmless: a row never takes a status a second time, and the one request that
makes a row young again, the claim, also changes its status, so a row that is
still in the status it was selected in is still old.

`AgentRuntime_proofs`, of `AgentRuntime!Spec`: `TypeCorrect`, `AnnouncedOnce`
and `PaidOnce`, the refinement of `OnceOnlyWork`. `CoreStep` shows that every
step is a step of `AgentRuns`, so that the store's invariant carries over
(`StoreOK`, through `CoreProofs == INSTANCE AgentRuns_proofs`). On top of it the
invariant says that an invocation that executes or a report that is being
written holds its run exclusively (`HeldOnce`) and that a held run is running,
young, and in no sweep's snapshot as a running one (`HeldRunning`); this is
where the lease is used, and why neither a sweep nor a second report can end a
run again. `ClaimedFirst` makes the claim the only start.

`Orchestrator_proofs`, of `Orchestrator!Spec`:

* `StoreImplemented`: every behaviour of the plugin is one of `WorkflowRuns`
  (`CoreStep`, one step per action), so the store's theorems carry over;
  `OneRunPerKey` is the example written out.
* `TypeCorrect`, from the store's types and those of the invocations (`Typed`,
  with what each stage of an invocation has in hand, `Stage`).
* `DelayedChecked`, `OrphansOnly` and `ExecutedOnce`, the refinement of
  `OnceOnlyWork`, from one inductive invariant, `IInv`. None of them is
  inductive alone: what protects a run differs along its way. While it waits
  in the list of its claimer it is as it was inserted and has no schedule yet
  (`TodoUntouched`), while it waits for its schedule it is in nobody's hands and
  has not been executed (`Waiting`), and in execution it has no outcome
  (`RunOpen`); in any hands it is in those of one invocation (`HeldOnce`), and
  is young and in no sweep's snapshot (`HeldYoung`). A snapshot taken before
  the run was fired cannot name it in its present status (`Snapshots`). The
  lemmas `...Keeps` are the steps; `SameRows` and `EndRows` are the two cases most
  of them come down to: no row changes, or rows end that nobody holds any more.

`Repository_proofs`, of the programs that keep the template's repository and
those made from it:

* `MergesCloseWhatWasAsked`, of `KeywordsSpec`. The verdict is about what was read, at four moments,
  and the property about what is merged. The invariant, `KeywordsInv`, bridges
  that: while the run's head is the head and no event is waiting, what has been
  read so far is what the pull request says, part by part; so a green verdict
  without a waiting event is about the present text, and a place in the queue
  that is not outdated was taken on such a verdict. It is where the trigger on
  `edited` and the cancellation of an earlier run are used.
* `DeletesOnlyShipped` and `SparesSessions`, of `ReaperSpec`. The doctor's answers are old when it deletes. `ReaperInv` says
  why that is harmless: a branch about to be deleted is merged, or its worktree
  stands, and then git refuses (`ReapIsDue`); a commit can only be made in a
  worktree that stands. A later merge does not forget an earlier one's commits,
  because what is pushed has every commit of the branch that was ever merged
  (`PushedHasMerged`).
* `DoneMeansBoundOrNamedAlways`, of `RepositorySpec`. `RepositoryInv` says of a
  run that is under way which steps it still has to take (`Complete`, from
  `Order`, which step follows which) and what those already taken have left on
  the remote (`Midway`): before dev is sealed its checks are required, and when
  only the registration is left the run has named the repository or dev is bound.
* `VersionsFollowDevAlways`, of `ReleaseSpec`. A run of the tag workflow decides
  a version and pushes it later, while tags are pushed by hand and other runs
  wait. `ReleaseInv` adds what a decided version is worth until then
  (`DecidedVersion`), that no version is tagged twice, and that there is a
  highest tag; `LowerIsAnOrder` is the order of versions.
* `HookSpeaksForCheckAlways`, of `GuardSpec`. `HookAnswered` remembers, commit by
  commit, why the hook let pass what has no reason on record: it was in the
  first commit of an upgrade's branch, or was the old path of a rename. A rename
  that no other commit touches is in the branch's difference as in the commit
  (`FoundInDifference`), so both overlook the same path.
  `SetOfNatHasLeast` is the first commit ahead of `dev`.

`Portal_proofs`, of the portal's pages:

* `EnabledIsTested` and `TestsEnd`, of `EditorSpec`. A save is allowed by a test panel whose snapshot is the form's
  definition, and the property speaks of dry runs, so `EditorInv` adds
  `TestedHasPassed`: what the panel calls tested, a run has completed on. Its
  other half is that a request of the run that owns the panel is never dropped
  without the panel being given up (`QuietStep`). `Shapes` says which fields the
  form and the requests have, which the provers need to know and TLC sees.
* `SavesOneRecord`, of `FormsSpec`. `FormsInv`
  says of both forms what the property says of a save: the fields of a form were
  set in that form (`GoodEditor`), counted from the first one opened. A save
  carries what another request carried or what one form holds (`Carried`), and a
  form is replaced as a whole, or has one field put in, or changes its button.
* `ShowsWhatWasAskedAlways`, of `ViewsSpec`. Answers come in any order, and a page
  takes one only if it answers the latest request of its kind. `ViewsInv` says
  that of the requests under way: one that bears the page's number asks for what
  the page shows (`DetailIsAskedFor`, `NavIsAskedFor`).
* `OneRoutePerSessionAlways` and `ReturnToServesOneIdentityAlways`, of
  `SessionPageSpec`. A handler leaves a page that the next render completes, so
  `SessionInv` holds between renders: the sessions a form has routed are among
  those made, once each (`Accounted`), a timer is for the session of its tab
  (`TimedFor`), and a form that had a session and lost it remembers that
  (`Remembered`). A request sent after that carries no `return_to` (`LateCalls`).

`PluginLifecycle_proofs`, of `PluginLifecycle!PluginSpec`: `ModuleStaysAlways`,
`RegistrationAccountedForAlways` and `InstallReportsAlways`. A command may stop
at any of its steps, and the next one starts from what that left. `PluginInv`
has three parts. Of the tree, between commands too: hand-written wiring refers
to a module that is there, generated wiring too, but for what is unfinished,
and a registration of nobody is one that somebody was told of
(`HandWiredStays`, `WiredStays`, `RegistryInv`). Of a command under way: its
remaining steps are the end of such a list (`Order`), what it will stage is what
it has changed (`PathsInv`), and a module it is about to remove is referred to
by nothing that it will not rewrite (`ModuleInv`). Of an install: what its
remaining steps have not touched is as it was, and what the past ones have is
on its list (`InstallInv`). There is one lemma per action; `GoesOn` is the step
that most of them share.

`Instance_proofs`, of `CoreUpgrade!UpgradeSpec`: `InstanceEditsSurviveAlways`,
`ReleaseArrivesAlways`, `MigrationsRunOnceAlways`, `NothingCarriedOverAlways` and
`ReapsOnlySettled`, from one inductive invariant (`UpgradeInvariant`). All four
invariants speak of what is on branches, and a command gets there by a dozen
steps with refusals between them.

* `TreesInv` says that every tree there is, committed or not, is one whose
  migrations are a valid chain in which nothing is twice; `ForgeInv` says it of
  GitHub's, and that a pull request's branch is there.
* `CommandInv` carries the plan from the stage that makes it to the one that
  commits it: what was planned is a merge of the very files the command found
  and of the tree it read, which is the tag's if it was materialised and faithful
  to the tag if it was verified (`Planned`), `Carriable` migrations stay so until
  they are written, and from the branch's creation on the command is on a branch
  of its own.
* `Pushed` is why the reaper's evidence is good: what was last pushed of a branch
  is what GitHub and the remote-tracking branch have of it, or it is settled. The
  local tip does not occur in it. `MainKept` is why nothing is
  carried over.

Underneath are lemmas about the two algorithms, for any files and any chains.
`EditsAreKept` and `ChangesArrive` say what a plan without conflicts does with
each hunk of a file. Of chains, `OnTheHead` says that a new migration on the head
of a valid chain makes a valid chain (its loops and its one head), `RevisedInPlace`
the same of an edit that keeps revision and parent, `CarriedSoFar` and
`CarryKeepsSound` that a carried list does it however far it was written; the
last two look at the first place where it would go wrong, since sets of numbers
have a least element (`SetOfNatHasLeast`). `ValidIsChained` turns the counting in `ValidChain` into
quantifiers. The revision ids themselves come from a recursive function, and are
used only through what the plan's own check says of them.

`Instance_proofs` again, of `InstanceLifecycle!InstanceSpec`: `SealedIsCompleteAlways`,
`SessionsTellTheTruth` and `TeardownDestroysFirst`, from `LifeInvariant`. A command
is a list of calls that is rewritten as it is worked through, and the properties
depend on the order of the list, so the invariant is about the list. A call is
`Safe` if what it relies on is there already or is the work of a call that comes
before it, and `LifeInv` says that every call still to come is safe (`Works`). In
parts:

* `FilesFirst`: no branch of the core is closed, and the step that writes the
  instance's files not recorded, before every branch has them, which either is so
  or a commit or fast-forward ahead will see to; a session found on disk, which
  claims the step, is right about the repository (`Good`).
* `SessionFirst`: the application's step is recorded after its effect
  (`Reaches`), in a session in memory that knows all its file says, since the file
  would be merged into it. What else is recorded of the core comes after the
  application's step, or with nothing of the application before it (`Quiet`).
* `DestroyedFirst`: ahead of a removal there is a destroy for all that stands of
  the project but for what the listing overlooked, and a destroy that fails ends
  the command. Nothing a teardown calls adds to the infrastructure.
* `Begins`: what creates the core's repository, or starts the application's
  session anew, has no call before it and is not recorded as done.

`CallsAreEffective` says of every call that it does what it promises (`Achieved`),
takes nothing away unless it is a removal, and that a removal touches one project
only. `SafeOn`, `WorksOn` and `WorksNext` carry the safety of the rest of the
list over a call; `BodyDoes` shows that the calls a step is replaced by work and
achieve what the step stood for; `InitStepsWork`, `SiblingStepsWork` and
`TeardownWorks` show it of the lists that commands begin with.

Only model-checked. `EveryEventGetsItsRun` does not hold for every `KeyOf` (the
finding `orchestrator_same_id`). `ClaimedRunsSettle` and `RequestedRunsSettle`
are liveness under fairness, which is outside the prover, as ENABLED is. The revision ids
of `MigrationCarry`, the algorithm of `MigrationGuard` and the publications of
`ReleaseTrain` are recursive or fold over data, where a proof would need an
induction that the installed provers cannot instantiate.

## 6. Plan

1. `Delivery`: `agent.run.completed` redelivered to `deliver_on_completion`, the
   write-back with its denial limit, the `fan_in` of sibling runs, and the
   causation depth that ends a chain of runs.
2. `TurnLoop`: the limits of one agent run.
3. Plugin workflow seeding, media generations, plugin host start-up, and the
   ordering algorithm of `ddl_order.py` against a reference definition.
4. Proofs of the parts of `MigrationGuard` that are not recursive.
5. Larger instances of `CoreUpgrade` (three releases, two branches of the
   developer) in a run of their own.

## 7. Not modelled

In Core and the plugins. The trigger catalog (`observe_trigger`), `run_as` and
tenant scoping decide nothing about the runs of one tenant, so one tenant is
modelled. Refused requests change nothing and are left out, among them the
ceiling on causation depth. Rendering, validation of schemas, prompts,
transcripts and list queries are left out.

In the programs around them:

* `InstanceLifecycle`: one operator at one machine and no two commands at once;
  the siblings' workflows run between commands; settings, variables and secrets
  are no state of their own.
* `CoreUpgrade`: a detached HEAD, a directory that is no repository, an instance
  without `biffo.core.json` and trees given explicitly for both releases are
  refused or rare entries and left out; the newest release does not change while
  a command runs. `--from-template` and `--to-template` name directories that
  are read as they are; an arbitrary directory is not modelled, only a checkout
  at another release or branch. Symbolic links are left out.
* `PluginLifecycle`: one environment can be wired; a plugin's config and
  provenance are part of `services/<plugin>`; `--frontend-cwd` is given whenever
  the dashboard is apart.
* `BranchReaper`: the timing fact named above.
* `MigrationGuard`: dev is strictly protected, as `lib/branch-protection-audit.ts`
  asks, so what is merged was checked against the dev it is merged onto; a
  line is prose or code wherever it stands, so docstrings that a moved delimiter
  turns into code are left out, and with them strings over several lines;
  deleting a migration in one pull request and adding it anew in the next is
  outside the property, as it is outside the guard.
* `ClosingKeywords`: the texts are the forms they contain; links made in the
  sidebar are left out; the job's other guards count as ways for it to fail; the
  readings are those of CI.
* `PortalViews`, `PortalForms`: pages of the same shape share a model; layout,
  wording and validation messages are left out.

Each component outside the table of section 2 is in PROJECT.json with its
reason: pure I/O, pure decisions on a request, or configuration.
