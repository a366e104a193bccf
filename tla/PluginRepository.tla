-------------------------- MODULE PluginRepository --------------------------
(***************************************************************************)
(* `biffo plugin create --standalone`: a plugin in a repository of its own *)
(* (cli/src/commands/plugin-create.ts).  The command scaffolds a directory *)
(* and commits it; with --org it also creates the GitHub repository,       *)
(* pushes dev, protects it and lists the plugin in the registry.  Any call *)
(* may fail and the process may die in it, with the call's effect or       *)
(* without.  `biffo check branch-protection --fix` mends a repository that *)
(* was left unprotected.                                                   *)
(***************************************************************************)
EXTENDS Naturals, FiniteSets, Sequences

CONSTANT MaxCreates   \* bound: runs of the command

VARIABLES
  local,     \* the scaffolded directory: none, partial, scaffolded or committed
  pluginRepo, \* the GitHub repository
  allowed,   \* whether the organisation's plan has branch protection
  listed,    \* the plugin is in the registry's sources.json
  create,    \* the command under way: its options, steps left and recorded outcomes
  lastTold,  \* how the last one ended, and whether it named the repository unprotected
  creates

repositoryVars == <<local, pluginRepo, allowed, listed, create, lastTold, creates>>

(* What a branch may be required to have: the names of CI's jobs, which    *)
(* report on a pull request, or the names of whole workflows, which do not.*)
Unprotected == [checks |-> "none", admins |-> FALSE]
NoRemote == [exists |-> FALSE, pushed |-> FALSE, head |-> "main", label |-> FALSE,
             firstRun |-> "none", protection |-> Unprotected]
NoCreate == [steps |-> <<>>, outcomes |-> {}]

----------------------------------------------------------------------------
(* The steps, by the options of the run: --no-commit, --org, --no-register,*)
(* and whether the job names can be read from the workflow it wrote.       *)

ProtectionSteps(contexts) == IF contexts THEN <<"protect", "seal">> ELSE <<"skip">>
RemoteSteps(o) ==
  <<"repository", "label", "push", "default">> \o ProtectionSteps(o.contexts)
    \o IF o.register THEN <<"register">> ELSE <<>>
RepositorySteps(o) ==
  <<"scaffold">> \o (IF o.commit THEN <<"commit">> ELSE <<>>)
    \o (CASE ~o.org -> <<>>
          [] o.org /\ ~o.commit -> <<"refuse">>
          [] OTHER -> RemoteSteps(o))

RunOptions == [commit : BOOLEAN, org : BOOLEAN, register : BOOLEAN, contexts : BOOLEAN]

(* runStandaloneCreate refuses a directory that is there, whole or not. *)
StartCreate(o) ==
  /\ create = NoCreate /\ creates < MaxCreates /\ local = "none"
  /\ create' = [steps |-> RepositorySteps(o), outcomes |-> {}]
  /\ creates' = creates + 1
  /\ UNCHANGED <<local, pluginRepo, allowed, listed, lastTold>>

StepIs(s) == create # NoCreate /\ Head(create.steps) = s

(* branch-protection-outcome.ts: a run names its repository unprotected    *)
(* when some outcome recorded for it says so.                              *)
Named(outcomes) == outcomes \ {"applied"} # {}

EndCreate(result, outcomes) ==
  /\ create' = NoCreate
  /\ lastTold' = [result |-> result, named |-> Named(outcomes)]

(* The next step, or the end: the summary is printed last, and also when a *)
(* step has thrown.                                                        *)
Proceed(outcomes) ==
  IF Len(create.steps) = 1
  THEN EndCreate("done", outcomes)
  ELSE /\ create' = [steps |-> Tail(create.steps), outcomes |-> outcomes]
       /\ UNCHANGED lastTold

Proceeds == Proceed(create.outcomes)

(* A step that throws ends the run in error. *)
Throws == EndCreate("failed", create.outcomes)

(* The process dies in a step: nothing is said. *)
Killed ==
  /\ create # NoCreate
  /\ create' = NoCreate
  /\ lastTold' = [result |-> "killed", named |-> FALSE]
  /\ UNCHANGED <<local, pluginRepo, allowed, listed, creates>>

----------------------------------------------------------------------------
(* scaffoldPlugin and the checks on what it wrote. *)
Scaffold ==
  /\ StepIs("scaffold")
  /\ \/ local' = "scaffolded" /\ Proceeds
     \/ local' = "partial" /\ Throws
  /\ UNCHANGED <<pluginRepo, allowed, listed, creates>>

(* git init, add and commit; a scaffold without its lock is not committed. *)
CommitScaffold ==
  /\ StepIs("commit")
  /\ \/ local' = "committed" /\ Proceeds
     \/ UNCHANGED local /\ Throws
  /\ UNCHANGED <<pluginRepo, allowed, listed, creates>>

(* --org with --no-commit is found out only now. *)
RefuseToPush ==
  /\ StepIs("refuse") /\ Throws
  /\ UNCHANGED <<local, pluginRepo, allowed, listed, creates>>

(* createEmptyRepo takes an empty repository of that name for its own. *)
CreateRepository ==
  /\ StepIs("repository")
  /\ \/ ~pluginRepo.pushed /\ pluginRepo' = [pluginRepo EXCEPT !.exists = TRUE] /\ Proceeds
     \/ UNCHANGED pluginRepo /\ Throws
  /\ UNCHANGED <<local, allowed, listed, creates>>

(* propagateRunnerLabel only warns, and comes before the push that starts  *)
(* the first run of CI.                                                    *)
PropagateRunnerLabel ==
  /\ StepIs("label")
  /\ pluginRepo' \in {pluginRepo, [pluginRepo EXCEPT !.label = TRUE]}
  /\ Proceeds
  /\ UNCHANGED <<local, allowed, listed, creates>>

PushDev ==
  /\ StepIs("push")
  /\ \/ /\ pluginRepo.exists
        /\ pluginRepo' = [pluginRepo EXCEPT !.pushed = TRUE,
                                    !.firstRun = IF pluginRepo.label THEN "fleet" ELSE "hosted"]
        /\ Proceeds
     \/ UNCHANGED pluginRepo /\ Throws
  /\ UNCHANGED <<local, allowed, listed, creates>>

SetDefaultBranch ==
  /\ StepIs("default")
  /\ \/ pluginRepo' = [pluginRepo EXCEPT !.head = "dev"] /\ Proceeds
     \/ UNCHANGED pluginRepo /\ Throws
  /\ UNCHANGED <<local, allowed, listed, creates>>

(* Mutant: a plan without branch protection is only logged. *)
SkippedSilently == {}

(* protectSingleBranch, on a plan without branch protection. *)
SkippedOutcome == {"skipped-403"}

(* Skipped, the branch is not sealed either; any other failure is recorded *)
(* and thrown.                                                             *)
ProtectDev ==
  /\ StepIs("protect")
  /\ \/ /\ allowed
        /\ pluginRepo' = [pluginRepo EXCEPT !.protection = [checks |-> "jobs", admins |-> FALSE]]
        /\ Proceed(create.outcomes \cup {"applied"})
     \/ /\ ~allowed
        /\ LET outcomes == create.outcomes \cup SkippedOutcome IN
           IF Len(create.steps) = 2 THEN EndCreate("done", outcomes)
           ELSE create' = [steps |-> SubSeq(create.steps, 3, Len(create.steps)),
                           outcomes |-> outcomes] /\ UNCHANGED lastTold
        /\ UNCHANGED pluginRepo
     \/ UNCHANGED pluginRepo /\ EndCreate("failed", create.outcomes \cup {"failed"})
  /\ UNCHANGED <<local, allowed, listed, creates>>

(* No job name could be read: nothing to require. *)
SkipProtection ==
  /\ StepIs("skip")
  /\ Proceed(create.outcomes \cup {"skipped-no-contexts"})
  /\ UNCHANGED <<local, pluginRepo, allowed, listed, creates>>

(* sealBranchProtection binds admins too; it records and never throws. *)
SealDev ==
  /\ StepIs("seal")
  /\ \/ pluginRepo' = [pluginRepo EXCEPT !.protection.admins = TRUE] /\ Proceed(create.outcomes \cup {"applied"})
     \/ UNCHANGED pluginRepo /\ Proceed(create.outcomes \cup {"unsealed"})
  /\ UNCHANGED <<local, allowed, listed, creates>>

(* registerInRegistrySources only warns. *)
RegisterSource ==
  /\ StepIs("register")
  /\ listed' \in {listed, TRUE}
  /\ Proceeds
  /\ UNCHANGED <<local, pluginRepo, allowed, creates>>

----------------------------------------------------------------------------
(* People: the directory and the repository are removed for another try,   *)
(* the plan is upgraded.                                                   *)
RemoveDirectory ==
  /\ create = NoCreate /\ local # "none" /\ local' = "none"
  /\ UNCHANGED <<pluginRepo, allowed, listed, create, lastTold, creates>>

DeleteRepository ==
  /\ create = NoCreate /\ pluginRepo.exists /\ pluginRepo' = NoRemote
  /\ UNCHANGED <<local, allowed, listed, create, lastTold, creates>>

UpgradePlanOfOrg ==
  /\ ~allowed /\ allowed' = TRUE
  /\ UNCHANGED <<local, pluginRepo, listed, create, lastTold, creates>>

(* auditBranch does not look at whether admins are bound. *)
AuditFinds(p) == p.checks = "none"

(* observedChecks: what reports on the default branch, read from its       *)
(* workflow runs and so by the workflows' names; none before the push.     *)
ObservedChecks == IF pluginRepo.pushed THEN "workflows" ELSE "none"

(* planProtection skips a branch nothing reports on. *)
PlanApplies == ObservedChecks # "none"

(* runBranchProtectionCheck --fix *)
FixProtection ==
  /\ create = NoCreate /\ pluginRepo.exists /\ allowed /\ PlanApplies
  /\ AuditFinds(pluginRepo.protection)
  /\ pluginRepo' = [pluginRepo EXCEPT !.protection = [checks |-> ObservedChecks, admins |-> TRUE]]
  /\ UNCHANGED <<local, allowed, listed, create, lastTold, creates>>

RepositoryInit ==
  /\ local = "none" /\ pluginRepo = NoRemote /\ allowed \in BOOLEAN /\ listed = FALSE
  /\ create = NoCreate /\ lastTold = [result |-> "none", named |-> FALSE] /\ creates = 0

RepositoryNext ==
  \/ \E o \in RunOptions : StartCreate(o)
  \/ Killed \/ Scaffold \/ CommitScaffold \/ RefuseToPush
  \/ CreateRepository \/ PropagateRunnerLabel \/ PushDev \/ SetDefaultBranch
  \/ ProtectDev \/ SkipProtection \/ SealDev \/ RegisterSource
  \/ RemoveDirectory \/ DeleteRepository \/ UpgradePlanOfOrg \/ FixProtection

RepositorySpec == RepositoryInit /\ [][RepositoryNext]_repositoryVars

----------------------------------------------------------------------------
(* A run that says it is done with a repository it pushed leaves dev bound *)
(* for everyone, admins too, or has named the repository among those that  *)
(* are not: an unprotected repository is never a line in the middle of a   *)
(* log, whichever of the two calls fell short and whoever upgraded the     *)
(* plan in between.                                                        *)
DoneMeansBoundOrNamed ==
  [][(create # NoCreate /\ create' = NoCreate /\ lastTold'.result = "done" /\ pluginRepo'.pushed
        /\ Head(create.steps) # "commit" /\ Head(create.steps) # "scaffold")
       => lastTold'.named \/ pluginRepo'.protection = [checks |-> "jobs", admins |-> TRUE]]_repositoryVars
=============================================================================
