--------------------------- MODULE InstanceLifecycle ---------------------------
(***************************************************************************)
(* The life of a Biffo instance, as the CLI brings it about in GitHub and  *)
(* AWS: `biffo init' (the core repository, then the application sibling's),*)
(* `biffo sibling create' (here of one more sibling, shop), `deploy',      *)
(* `destroy' and `teardown', of cli/src/commands.                          *)
(*                                                                         *)
(* A command works through a list of calls. Every call may fail, or the    *)
(* process die in it, with the call's effect or without; what had been     *)
(* done stays done. init and sibling create checkpoint their steps in      *)
(* session files and are run again.                                        *)
(***************************************************************************)
EXTENDS Integers, Sequences, FiniteSets

CONSTANTS
  Envs,            \* the environments the instance and its siblings are configured for
  LineOrder,       \* the branches of every repository; init treats staging as main
  MaxLaunches      \* bound: commands run

CoreRepo == "core"
Siblings == {"app", "shop"}
Projects == {CoreRepo} \cup Siblings
Lines == {LineOrder[i] : i \in DOMAIN LineOrder}
Global == "global"                           \* the DNS zone and certificate

\* Every repository begins with dev.
ASSUME LineOrderAssumption == LineOrder \in Seq(Lines) /\ LineOrder # <<>> /\ LineOrder[1] = "dev"
ASSUME EnvsAssumption == IsFiniteSet(Envs)

VARIABLES
  world,       \* GitHub and AWS
  disk,        \* ~/.biffo: the session files and the saved project config
  job,         \* the command under way
  launches

lifeVars == <<world, disk, job, launches>>

\* A repository without protection, and its first commit on dev, if any.
RepoWith(exists, dev) == [exists |-> exists, lines |-> [l \in Lines |-> IF l = "dev" THEN dev ELSE 0],
                          guard |-> [l \in Lines |-> "off"]]
NoRepo == RepoWith(FALSE, 0)
NoSession == [exists |-> FALSE, steps |-> {}, app |-> {}]
NewSession == [NoSession EXCEPT !.exists = TRUE]
NoJob == [cmd |-> "none"]

InstanceInit ==
  /\ world = [repo |-> [p \in Projects |-> NoRepo], role |-> {}, bucket |-> [p \in Projects |-> 0],
              infra |-> [p \in Projects |-> {}], wired |-> {}, request |-> "none"]
  /\ disk = [init |-> NoSession, sibling |-> [p \in Siblings |-> NoSession], saved |-> 0]
  /\ job = NoJob /\ launches = 0

-----------------------------------------------------------------------------
(* What each call does to GitHub (adapters/source-control/github) *)

Repo(p) == world.repo[p]
HasCommits(p) == Repo(p).lines["dev"] > 0

\* createRepoFromTemplate: an existing repository is taken for the one wanted.
CreateRepoFromTemplate ==
  IF Repo(CoreRepo).exists THEN world
  ELSE [world EXCEPT !.repo[CoreRepo] = RepoWith(TRUE, 1)]

\* createEmptyRepo adopts an empty repository and refuses one that has content.
CreateEmptyRepoRefuses(p) == Repo(p).exists /\ HasCommits(p)
CreateEmptyRepo(p) == IF Repo(p).exists THEN world ELSE [world EXCEPT !.repo[p] = RepoWith(TRUE, 0)]

\* pushSkeleton, unless the repository has commits.
PushSkeleton(p) == IF HasCommits(p) THEN world ELSE [world EXCEPT !.repo[p].lines["dev"] = 1]

CreateLine(p, l) ==
  IF Repo(p).lines[l] > 0 THEN world ELSE [world EXCEPT !.repo[p].lines[l] = Repo(p).lines["dev"]]

\* commitFiles of the instance's files, which register the application on the
\* CDN, and fastForwardBranch. Nothing is written if the branch has them; a branch
\* whose protection binds admins rejects the write.
WriteRefused(p, l) == Repo(p).lines[l] < 2 /\ Repo(p).guard[l] = "sealed"
CommitInstanceFiles == [world EXCEPT !.repo[CoreRepo].lines["dev"] = 2]
FastForward(l) == [world EXCEPT !.repo[CoreRepo].lines[l] = Repo(CoreRepo).lines["dev"]]

\* configureBranchProtection resets enforce_admins; sealBranchProtection sets it on
\* branches that are protected, and complains of the others.
Protect(p, l) == [world EXCEPT !.repo[p].guard[l] = "open to admins"]
Seal(p, l) == [world EXCEPT !.repo[p].guard[l] = IF @ = "off" THEN @ ELSE "sealed"]

\* registerWithCore pushes a branch and opens a pull request on the core repository.
Register == [world EXCEPT !.request = IF @ = "merged" THEN @ ELSE "open"]

\* A repository takes its variables, and the core's its branches, with it.
DeleteRepo(p) ==
  [world EXCEPT !.repo[p] = NoRepo,
                !.wired = {w \in @ : w[1] # p},
                !.request = IF p = CoreRepo THEN "none" ELSE @]

(* and to AWS (adapters/cloud/aws) *)

SetupOidcTrust(p) == [world EXCEPT !.role = @ \cup {p}]
\* The name of a bucket deleted just before may still be reserved: variant 2.
BootstrapTerraformBackend(p, variant) ==
  IF world.bucket[p] # 0 THEN world ELSE [world EXCEPT !.bucket[p] = variant]
TeardownOidcRole(p) == [world EXCEPT !.role = @ \ {p}]
TeardownTerraformBackend(p) == [world EXCEPT !.bucket[p] = 0]

\* The deploy and destroy workflows, which run in p's repository.
Apply(p, env) == [world EXCEPT !.infra[p] = @ \cup {env}]
DestroyInfra(p, env) == [world EXCEPT !.infra[p] = @ \ {env}]
Runnable(p) == Repo(p).exists /\ HasCommits(p) /\ p \in world.role /\ world.bucket[p] # 0

\* wireSiblingEnvironment.
WireSibling(p, env) == [world EXCEPT !.wired = @ \cup {<<p, env>>}]

-----------------------------------------------------------------------------
(* Sessions *)

\* saveSession and saveSiblingSession never un-record a step: what the file says is
\* merged into the session in memory too.
Merged(session, file) == [session EXCEPT !.exists = TRUE, !.steps = @ \cup file.steps,
                                         !.app = @ \cup file.app]
Marked(session, file, step) == Merged([session EXCEPT !.steps = @ \cup {step}], file)

-----------------------------------------------------------------------------
(* The lists of calls. A call is <<verb, project, argument>>. *)

ForLines(verb, p) == [i \in DOMAIN LineOrder |-> <<verb, p, LineOrder[i]>>]
InOrder(envs) == CHOOSE s \in [1..Cardinality(envs) -> envs] : \A e \in envs : \E i \in DOMAIN s : s[i] = e
ForEnvs(verb, p, envs) == [i \in 1..Cardinality(envs) |-> <<verb, p, InOrder(envs)[i]>>]
Steps(p, names) == [i \in DOMAIN names |-> <<"step", p, names[i]>>]
OnlyFor(p, live, calls) == IF p \in live THEN calls ELSE <<>>

\* Mutant: the branches are protected for good before the last commit to them.
SealedFirst ==
  Steps(CoreRepo, <<"verify_credentials", "create_repo", "oidc_trust", "terraform_backend",
                    "github_branches", "github_settings", "github_protection_sealed",
                    "github_instance_files", "app_sibling">>)
  \o <<<<"finish", CoreRepo, "">>>>

\* runInit.
InitSteps ==
  Steps(CoreRepo, <<"verify_credentials", "create_repo", "oidc_trust", "terraform_backend",
                    "github_branches", "github_instance_files", "github_settings",
                    "app_sibling", "github_protection_sealed">>)
  \o <<<<"finish", CoreRepo, "">>>>

\* runSiblingCreate; init skips what needs a deployed core, and the registration.
SiblingSteps(p) ==
  Steps(p, <<"verify_credentials", "resolve_core_identity", "create_repo", "push_skeleton",
             "oidc_trust", "terraform_backend", "github_config", "register_with_core",
             "trigger_first_deploy">>)
  \o <<<<"finish", p, "">>>>

\* The calls of one step, its checkpoint last. The core identity init defers is not
\* checkpointed.
Body(p, name) ==
  CASE name = "github_branches" -> Tail(ForLines("createLine", p))
    [] name = "github_instance_files" ->
         <<<<"instanceFiles", p, "dev">>>> \o Tail(ForLines("fastForward", p))
    [] name = "github_settings" -> ForLines("protect", p)
    [] name = "app_sibling" -> <<<<"nested", "app", "">>>> \o SiblingSteps("app")
    [] name = "github_protection_sealed" -> ForLines("seal", p)
    [] name = "github_config" ->
         Tail(ForLines("createLine", p)) \o ForLines("protect", p) \o ForLines("seal", p)
    [] name \in {"resolve_core_identity", "register_with_core"} /\ p = "app" -> <<>>
    [] OTHER -> <<<<name, p, "">>>>
CallsOf(p, name) ==
  Body(p, name) \o (IF p = "app" /\ name = "resolve_core_identity" THEN <<>>
                    ELSE <<<<"mark", p, name>>>>)

\* The siblings the registry on the core's default branch or an open registration
\* request names. resolveSiblingRepos gives up on a repository that does not carry
\* the sibling's marker file, as does a core that is not there.
Registered ==
  {p \in Siblings : IF p = "app" THEN Repo(CoreRepo).lines["dev"] = 2 ELSE world.request # "none"}
Live == {p \in Registered : Repo(p).exists}
DiscoveryRefused ==
  ~Repo(CoreRepo).exists \/ \E p \in Live : ~HasCommits(p)

\* runDeploy: the siblings are looked for once the core is deployed.
DeployCalls(env) ==
  <<<<"applyGlobal", CoreRepo, Global>>, <<"apply", CoreRepo, env>>, <<"wire", CoreRepo, env>>>>
WireCalls(env) ==
  OnlyFor("app", Live, <<<<"wireSibling", "app", env>>>>)
  \o OnlyFor("shop", Live, <<<<"wireSibling", "shop", env>>>>)

\* Teardown, once confirmed: the live siblings' infrastructure, the core's in the
\* environments listed, the global one; then repositories, roles and state buckets.
Removal(p) == <<<<"deleteRepo", p, "">>, <<"deleteRole", p, "">>, <<"deleteBucket", p, "">>>>
Destruction(live, listed) ==
  OnlyFor("app", live, ForEnvs("destroy", "app", Envs))
  \o OnlyFor("shop", live, ForEnvs("destroy", "shop", Envs))
  \o ForEnvs("destroy", CoreRepo, Envs \cap listed)
Finish == <<<<"forget", CoreRepo, "">>>>
DomainKnown(viaSession) == ~viaSession

\* Mutant: a registered sibling without a repository is tidied up too.
TeardownTidiesAll(listed, skip, viaSession) ==
  (IF skip THEN <<>> ELSE Destruction(Live, listed))
  \o OnlyFor("app", Registered, Removal("app")) \o OnlyFor("shop", Registered, Removal("shop"))
  \o Removal(CoreRepo) \o Finish

TeardownCalls(listed, skip, viaSession) ==
  (IF skip THEN <<>> ELSE Destruction(Live, listed))
  \o (IF Global \in listed /\ DomainKnown(viaSession)
      THEN <<<<"destroyGlobal", CoreRepo, Global>>>> ELSE <<>>)
  \o OnlyFor("app", Live, Removal("app")) \o OnlyFor("shop", Live, Removal("shop"))
  \o Removal(CoreRepo) \o Finish

-----------------------------------------------------------------------------
(* Starting a command *)

Command(cmd, calls) ==
  [cmd |-> cmd, todo |-> calls, init |-> NoSession, sibling |-> NoSession, resumed |-> FALSE,
   skip |-> FALSE, overlooked |-> {}]
Launch(command) ==
  /\ job = NoJob /\ launches < MaxLaunches
  /\ job' = command
  /\ launches' = launches + 1

\* resolveConfigFileSession, and the same choice made at a prompt: resume what is
\* saved, or discard it.
StartInit ==
  \E fresh \in BOOLEAN :
    LET session == IF fresh \/ ~disk.init.exists THEN NewSession ELSE disk.init
    IN  /\ Launch([Command("init", InitSteps) EXCEPT !.init = session, !.resumed = session # NewSession])
        /\ disk' = [disk EXCEPT !.init = session]
        /\ UNCHANGED world

\* runSiblingCreateCommand, for a core whose config is saved.
StartSibling ==
  /\ disk.saved # 0
  /\ \E fresh \in BOOLEAN :
       LET session == IF fresh \/ ~disk.sibling["shop"].exists THEN NewSession
                      ELSE disk.sibling["shop"]
       IN  /\ Launch([Command("sibling", SiblingSteps("shop")) EXCEPT !.sibling = session])
           /\ disk' = [disk EXCEPT !.sibling["shop"] = session]
  /\ UNCHANGED world

StartDeploy ==
  /\ disk.saved # 0
  /\ \E env \in Envs : Launch(Command("deploy", DeployCalls(env)))
  /\ UNCHANGED <<world, disk>>

StartDestroy ==
  /\ disk.saved # 0
  /\ \E env \in Envs : Launch(Command("destroy", <<<<"destroy", CoreRepo, env>>>>))
  /\ UNCHANGED <<world, disk>>

\* listDeployedEnvironments: what it cannot read is not deployed. A session is
\* preferred to the saved config, which alone knows the state bucket's name.
KnownBucket == IF disk.init.exists THEN 0 ELSE disk.saved
StateBucket == IF KnownBucket # 0 THEN KnownBucket ELSE 1
Deployed == IF world.bucket[CoreRepo] = StateBucket THEN world.infra[CoreRepo] ELSE {}

StartTeardown ==
  \E skip \in BOOLEAN : \E listed \in IF skip THEN {{}} ELSE SUBSET Deployed :
    /\ ~DiscoveryRefused
    /\ Launch([Command("teardown", TeardownCalls(listed, skip, disk.init.exists))
                 EXCEPT !.skip = skip, !.overlooked = world.infra[CoreRepo] \ listed])
    /\ UNCHANGED <<world, disk>>

-----------------------------------------------------------------------------
(* Working through the list *)

Call == Head(job.todo)
Verb == Call[1]
Busy == job # NoJob /\ job.todo # <<>>
Nested == job.cmd = "init"
Session(p) == IF p = CoreRepo THEN job.init ELSE job.sibling

\* A step that is already recorded is skipped.
EnterStep ==
  /\ Busy /\ Verb = "step"
  /\ job' = [job EXCEPT !.todo = (IF Call[3] \in Session(Call[2]).steps THEN <<>>
                                  ELSE CallsOf(Call[2], Call[3])) \o Tail(@)]
  /\ UNCHANGED <<world, disk, launches>>

\* Mutant: what an earlier run of this sibling left is not discarded.
NestedKeepsFile == disk

\* createAppSibling starts the sibling's session anew unless the init session has it.
NestedDisk == IF job.init.app = {} THEN [disk EXCEPT !.sibling["app"] = NoSession] ELSE disk
BeginNested ==
  /\ Busy /\ Verb = "nested"
  /\ disk' = NestedDisk
  /\ job' = [job EXCEPT !.todo = Tail(@), !.sibling = [NewSession EXCEPT !.steps = job.init.app]]
  /\ UNCHANGED <<world, launches>>

\* markStepComplete and markSiblingStepComplete. The sibling's progress is in init's
\* session in memory, and is saved with it.
Mark ==
  /\ Busy /\ Verb = "mark"
  /\ LET p == Call[2]
         session == IF p = CoreRepo
                    THEN Marked([job.init EXCEPT !.app = job.sibling.steps], disk.init, Call[3])
                    ELSE Marked(job.sibling, disk.sibling[p], Call[3])
     IN  IF p = CoreRepo
           THEN /\ job' = [job EXCEPT !.todo = Tail(@), !.init = session]
                /\ disk' = [disk EXCEPT !.init = session]
           ELSE /\ job' = [job EXCEPT !.todo = Tail(@), !.sibling = session]
                /\ disk' = [disk EXCEPT !.sibling[p] = session]
  /\ UNCHANGED <<world, launches>>

\* deleteSession and saveProjectConfig; deleteSiblingSession; teardown's last two.
Conclude ==
  /\ Busy /\ Verb \in {"finish", "forget"}
  /\ disk' = CASE Verb = "forget" -> [disk EXCEPT !.init = NoSession, !.saved = 0]
               [] Verb = "finish" /\ Call[2] = CoreRepo ->
                    [disk EXCEPT !.init = NoSession, !.saved = world.bucket[CoreRepo]]
               [] OTHER -> [disk EXCEPT !.sibling[Call[2]] = NoSession]
  /\ job' = IF Tail(job.todo) = <<>> THEN NoJob ELSE [job EXCEPT !.todo = Tail(@)]
  /\ UNCHANGED <<world, launches>>

\* What must hold for a call to have its effect.
Possible ==
  LET p == Call[2] IN
  CASE Verb = "create_repo" -> p = CoreRepo \/ ~CreateEmptyRepoRefuses(p)
    [] Verb \in {"push_skeleton", "createLine", "protect", "seal"} ->
         Repo(p).exists /\ (Verb = "push_skeleton" \/ HasCommits(p))
    [] Verb \in {"instanceFiles", "fastForward"} -> Repo(p).exists /\ ~WriteRefused(p, Call[3])
    [] Verb = "resolve_core_identity" -> Envs \subseteq world.infra[CoreRepo]
    [] Verb = "register_with_core" -> Repo(CoreRepo).exists /\ Repo(CoreRepo).lines["dev"] = 2
    [] Verb \in {"apply", "applyGlobal", "destroy", "destroyGlobal"} -> Runnable(p)
    [] Verb = "wire" -> Call[3] \in world.infra[p]
    [] Verb = "wireSibling" -> Repo(p).exists
    [] OTHER -> TRUE

\* The effects. The list of siblings to wire is drawn up when it comes to them.
Effects ==
  LET p == Call[2]  x == Call[3] IN
  CASE Verb = "create_repo" /\ p = CoreRepo -> {CreateRepoFromTemplate}
    [] Verb = "create_repo" /\ p # CoreRepo -> {CreateEmptyRepo(p)}
    [] Verb = "push_skeleton" -> {PushSkeleton(p)}
    [] Verb = "oidc_trust" -> {SetupOidcTrust(p)}
    [] Verb = "terraform_backend" -> {BootstrapTerraformBackend(p, v) : v \in IF p = CoreRepo THEN 1..2 ELSE {1}}
    [] Verb = "createLine" -> {CreateLine(p, x)}
    [] Verb = "instanceFiles" -> {CommitInstanceFiles}
    [] Verb = "fastForward" -> {FastForward(x)}
    [] Verb = "protect" -> {Protect(p, x)}
    [] Verb = "seal" -> {Seal(p, x)}
    [] Verb = "register_with_core" -> {Register}
    [] Verb \in {"apply", "applyGlobal"} -> {Apply(p, x)}
    [] Verb \in {"destroy", "destroyGlobal"} -> {DestroyInfra(p, x)}
    [] Verb = "wireSibling" -> {WireSibling(p, x)}
    [] Verb = "deleteRepo" -> {DeleteRepo(p)}
    [] Verb = "deleteRole" -> {TeardownOidcRole(p)}
    [] Verb = "deleteBucket" -> {TeardownTerraformBackend(p)}
    [] OTHER -> {world}

Bookkeeping == {"step", "nested", "mark", "finish", "forget"}
Rest == (IF Verb = "wire" THEN WireCalls(Call[3]) ELSE <<>>) \o Tail(job.todo)

CallSucceeds ==
  /\ Busy /\ Verb \notin Bookkeeping
  /\ Possible
  /\ world' \in Effects
  /\ job' = IF Rest = <<>> THEN NoJob ELSE [job EXCEPT !.todo = Rest]
  /\ UNCHANGED <<disk, launches>>

\* Mutant: a failed destroy is only warned about.
ToleratedDestroy == {"seal", "destroyGlobal", "deleteRepo", "deleteRole", "deleteBucket",
                     "trigger_first_deploy", "destroy"}

\* Failures that are reported and no more.
Tolerated == {"seal", "destroyGlobal", "deleteRepo", "deleteRole", "deleteBucket",
              "trigger_first_deploy"}
CallIsSkipped ==
  /\ Busy /\ Verb \in Tolerated
  /\ job' = [job EXCEPT !.todo = Tail(@)]
  /\ UNCHANGED <<world, disk, launches>>

\* Any other failure ends the command, as does the death of the process, anywhere.
Stops ==
  /\ Busy
  /\ world' \in {world} \cup (IF Possible THEN Effects ELSE {})
  /\ job' = NoJob
  /\ UNCHANGED <<disk, launches>>

-----------------------------------------------------------------------------
(* The world around it, between commands *)

Around == job = NoJob /\ UNCHANGED <<disk, job, launches>>

\* A sibling's own deploy workflow.
SiblingDeploys ==
  /\ Around
  /\ \E p \in Siblings, env \in Envs :
       /\ Runnable(p) /\ <<p, env>> \in world.wired /\ env \notin world.infra[p]
       /\ world' = Apply(p, env)

MergeRegistration ==
  /\ Around
  /\ world.request = "open"
  /\ world' = [world EXCEPT !.request = "merged"]

\* What createEmptyRepo's message advises: gh repo delete.
DeleteByHand ==
  /\ Around
  /\ \E p \in Siblings : Repo(p).exists /\ world' = DeleteRepo(p)

InstanceNext ==
  \/ StartInit \/ StartSibling \/ StartDeploy \/ StartDestroy \/ StartTeardown
  \/ EnterStep \/ BeginNested \/ Mark \/ Conclude \/ CallSucceeds \/ CallIsSkipped \/ Stops
  \/ SiblingDeploys \/ MergeRegistration \/ DeleteByHand

InstanceSpec == InstanceInit /\ [][InstanceNext]_lifeVars

-----------------------------------------------------------------------------
(* What init and teardown promise *)

\* Repositories, roles and state buckets are what infrastructure is destroyed with.
\* A teardown without --skip-destroy removes none of a project's while anything it
\* should have destroyed still stands, however the destroys went: all of a
\* sibling's, and what the listing reported of the core's.
InfrastructureIsDestroyedFirst ==
  [][\A p \in Projects :
       /\ job.cmd = "teardown" /\ ~job.skip
       /\ \/ Repo(p).exists /\ ~world'.repo[p].exists
          \/ p \in world.role \ world'.role
          \/ world.bucket[p] # 0 /\ world'.bucket[p] = 0
       => world.infra[p] \subseteq
            (IF p = CoreRepo THEN job.overlooked \cup {Global} ELSE {})]_lifeVars

\* A sibling session in use never claims a step whose effect is not there, although
\* it survives crashes, other runs and the deletion of the repository in between.
Done(p, name) ==
  CASE name = "create_repo" -> Repo(p).exists
    [] name = "push_skeleton" -> HasCommits(p)
    [] name = "oidc_trust" -> p \in world.role
    [] name = "terraform_backend" -> world.bucket[p] # 0
    [] name = "github_config" -> \A l \in Lines : Repo(p).lines[l] > 0
    [] OTHER -> TRUE
AppSessionTellsTheTruth ==
  job.cmd = "init" => \A name \in job.sibling.steps : Done("app", name)

\* A branch is closed to administrators only when everything init writes to it is
\* there: otherwise no later run could complete it.
SealedIsComplete ==
  \A p \in Projects, l \in Lines :
    Repo(p).guard[l] = "sealed" => Repo(p).lines[l] >= (IF p = CoreRepo THEN 2 ELSE 1)

\* What createAppSibling says of itself: an interrupted init resumes "rather than
\* trying to re-create a repo that already exists".
InitResumesWhereItStopped ==
  job.cmd = "init" /\ job.resumed /\ Busy =>
    (Call = <<"create_repo", "app", "">> => ~CreateEmptyRepoRefuses("app"))
=============================================================================
