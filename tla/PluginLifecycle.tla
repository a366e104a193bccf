--------------------------- MODULE PluginLifecycle ---------------------------
(***************************************************************************)
(* `biffo plugin create', `install', `upgrade' (from the registry, or      *)
(* --local), `uninstall' and `sync-migrations', of cli/src/commands,       *)
(* on an instance's checkout and, when its dashboard lives in a repository *)
(* of its own (--frontend-cwd), on that one too.                           *)
(*                                                                         *)
(* A command is the sequence of its steps. Any step may fail, part of what *)
(* it writes being written, and nothing is rolled back; the process may    *)
(* also just die. The operator runs the next command on what is there, or  *)
(* tidies up first.                                                        *)
(***************************************************************************)
EXTENDS Integers, FiniteSets, Sequences

CONSTANTS
  Ships,            \* plugin -> its versions: [terraform, columns, seed, frontend]
  MaxPluginRuns     \* bound: commands run

\* Versions are numbered from 1: 0 and -1 stand for directories that hold none.
ASSUME ShipsAssumption == \A p \in DOMAIN Ships : DOMAIN Ships[p] \subseteq Nat \ {0}

Plugins == DOMAIN Ships
Repos == {"core", "dashboard"}
Gone == 0           \* no such directory
Torn == -1          \* a directory some of whose files are missing

VARIABLES
  split,        \* is the dashboard in a checkout of its own?
  checkout,     \* the working trees
  committed,    \* what is committed of them
  handWired,    \* plugins a hand-written .tf file refers to
  plugin,       \* the command under way
  told,         \* what the command that stopped last said it had left
  unfinished,   \* history: what steps that stopped were writing, not written since
  excused,      \* history: plugins whose registration somebody was told about, or
                \* whose manifest no longer said they have one
  pluginRuns

treeVars == <<checkout, committed>>
pluginVars == <<split, treeVars, handWired, plugin, told, unfinished, excused, pluginRuns>>

Resting == [cmd |-> "none"]
Silence == Resting
EmptyTree == [source |-> [p \in Plugins |-> Gone], module |-> [p \in Plugins |-> Gone],
              seed |-> [p \in Plugins |-> Gone], migrations |-> {}, wiring |-> {},
              lock |-> [p \in Plugins |-> Gone], registry |-> {}]

Source(p) == <<"services", p>>
Module(p) == <<"modules/plugins", p>>
SeedOf(p) == <<"db/imports", p>>
Migrated(m) == <<"versions", m.plugin, m.columns>>
Wiring == <<"plugins.generated.tf">>
Lock == <<"uv.lock">>
Registry == <<"plugin registry">>
RepoOf(item) == IF item = Registry /\ split THEN "dashboard" ELSE "core"

\* A tree in which the given items are as in `new', the others as in `old'.
Overlay(old, new, items) ==
  [source |-> [p \in Plugins |-> IF Source(p) \in items THEN new.source[p] ELSE old.source[p]],
   module |-> [p \in Plugins |-> IF Module(p) \in items THEN new.module[p] ELSE old.module[p]],
   seed   |-> [p \in Plugins |-> IF SeedOf(p) \in items THEN new.seed[p] ELSE old.seed[p]],
   migrations |-> old.migrations \cup {m \in new.migrations : Migrated(m) \in items},
   wiring |-> IF Wiring \in items THEN new.wiring ELSE old.wiring,
   lock   |-> IF Lock \in items THEN new.lock ELSE old.lock,
   registry |-> IF Registry \in items THEN new.registry ELSE old.registry]

Differing(old, new) ==
  {Source(p) : p \in {q \in Plugins : old.source[q] # new.source[q]}}
  \cup {Module(p) : p \in {q \in Plugins : old.module[q] # new.module[q]}}
  \cup {SeedOf(p) : p \in {q \in Plugins : old.seed[q] # new.seed[q]}}
  \cup {Migrated(m) : m \in new.migrations \ old.migrations}
  \cup (IF old.wiring # new.wiring THEN {Wiring} ELSE {})
  \cup (IF old.lock # new.lock THEN {Lock} ELSE {})
  \cup (IF old.registry # new.registry THEN {Registry} ELSE {})

Installed(p) == checkout.source[p] # Gone
\* readInstalledManifest: what the directory's manifest says, if it can be read.
Readable(p) == checkout.source[p] > 0
Manifest == Ships[plugin.name][plugin.version]
MigratedColumns(p) == UNION {m.columns : m \in {n \in checkout.migrations : n.plugin = p}}

-----------------------------------------------------------------------------
(* The steps, in the order each command takes them *)

If(cond, steps) == IF cond THEN steps ELSE <<>>

\* Mutant: the dashboard in its own checkout is forgotten.
UninstallForgets(m, there) ==
  <<"delete">> \o If(there, <<"wire">>) \o If(m.frontend /\ ~split, <<"unregister">>)
  \o <<"lock", "add", "commit">>

CreateSteps == <<"copy", "lock", "add", "commit">>
InstallSteps(m) ==
  <<"copy">> \o If(m.terraform, <<"module", "wire">>)
  \o If(m.columns # {}, <<"migrate">>) \o If(m.seed, <<"seed">>) \o <<"lock">>
  \o If(m.frontend, <<"register">>)
  \o If(m.frontend /\ split, <<"addDashboard", "commitDashboard">>)
  \o <<"add", "commit">>
UpgradeSteps(m) ==
  <<"copy", "module">> \o If(m.columns # {}, <<"migrate">>) \o If(m.seed, <<"seed">>)
  \o <<"relock", "add", "commit">>
\* The wiring is generated again if there is a module directory to delete.
UninstallSteps(m, there) ==
  <<"delete">> \o If(there, <<"wire">>) \o If(m.frontend /\ ~split, <<"unregister">>)
  \o <<"lock", "add", "commit">>
  \o If(m.frontend /\ split, <<"unregister", "addDashboard", "commitDashboard">>)
SyncSteps == <<"migrate", "lock", "add", "commit">>

\* newInstallLeftovers: `written' is what a failure will name, `stage' how far the
\* git commands of a repository came, `paths' what will be staged.
Start(command, p, version, steps, paths) ==
  /\ plugin' = [cmd |-> command, name |-> p, version |-> version, todo |-> steps,
                paths |-> paths, written |-> {}, stage |-> [r \in Repos |-> "none"],
                before |-> [checkout |-> checkout, committed |-> committed]]
  /\ told' = Silence
  /\ pluginRuns' = pluginRuns + 1
  /\ UNCHANGED <<split, treeVars, handWired, unfinished>>

MayStart == plugin = Resting /\ pluginRuns < MaxPluginRuns

PluginInit ==
  /\ split \in BOOLEAN
  /\ checkout = EmptyTree /\ committed = EmptyTree /\ handWired = {}
  /\ plugin = Resting /\ told = Silence
  /\ unfinished = {} /\ excused = {} /\ pluginRuns = 0

\* runPluginCreate, from the skeleton: version 1 before anybody changed it.
CreatePlugin ==
  /\ MayStart
  /\ \E p \in Plugins : ~Installed(p) /\ Start("create", p, 1, CreateSteps, {Source(p)})
  /\ UNCHANGED excused

\* runPluginInstall up to its first write. A plugin that is there is refused, but
\* for --local on its own directory.
InstallPlugin ==
  /\ MayStart
  /\ \E p \in Plugins : \E v \in DOMAIN Ships[p] :
       /\ ~Installed(p) \/ checkout.source[p] = v
       /\ Start("install", p, v, InstallSteps(Ships[p][v]), {Source(p)})
  /\ UNCHANGED excused

\* refuseIfModuleStillReferenced; upgrading reads generated and hand-written files.
Referenced(p) == p \in handWired \cup checkout.wiring
RefusesUpgrade(p, v) ==
  ~Ships[p][v].terraform /\ checkout.module[p] # Gone /\ Referenced(p)

\* Mutant: the plugin repository without terraform/ declares the module gone.
UpgradeUnguarded(command, p, v) ==
  /\ Installed(p)
  /\ command = "upgrade" => checkout.source[p] # v

\* runPluginUpgrade and runLocalPluginRefresh up to the first write. Only the
\* former takes the version it finds for the end of the matter.
MayUpgrade(command, p, v) ==
  /\ Installed(p)
  /\ command = "upgrade" => checkout.source[p] # v
  /\ ~RefusesUpgrade(p, v)

UpgradePlugin ==
  /\ MayStart
  /\ \E command \in {"upgrade", "refresh"}, p \in Plugins : \E v \in DOMAIN Ships[p] :
       /\ MayUpgrade(command, p, v)
       /\ Start(command, p, v, UpgradeSteps(Ships[p][v]), {Source(p)})
  /\ UNCHANGED excused

\* runPluginUninstall up to the first deletion. The generated file is about to be
\* rewritten: only hand-written references stop it. What it knows of the plugin's
\* dashboard page is what the installed manifest says.
UninstallPlugin ==
  /\ MayStart
  /\ \E p \in Plugins :
       LET m == IF Readable(p) THEN Ships[p][checkout.source[p]]
                ELSE [terraform |-> FALSE, columns |-> {}, seed |-> FALSE, frontend |-> FALSE]
       IN  /\ Installed(p) /\ ~(p \in handWired /\ checkout.module[p] # Gone)
           /\ Start("uninstall", p, 1, UninstallSteps(m, checkout.module[p] # Gone),
                    {Source(p)} \cup {Module(q) : q \in {p} \cap {o \in Plugins : checkout.module[o] # Gone}})
           /\ excused' = IF m.frontend THEN excused ELSE excused \cup {p}

\* runPluginSyncMigrations for one plugin that has a manifest.
SyncMigrations ==
  /\ MayStart
  /\ \E p \in Plugins : /\ Readable(p)
                        /\ Ships[p][checkout.source[p]].columns # {}
                        /\ Start("sync", p, checkout.source[p], SyncSteps, {})
  /\ UNCHANGED excused

-----------------------------------------------------------------------------
(* What a step writes *)

Step == Head(plugin.todo)
RegistryRepo == RepoOf(Registry)

\* generate_plugin_migrations.py: a file for the columns no migration creates, none
\* if there are none; it refuses if a migrated column is no longer declared.
NewMigrations ==
  {m \in {[plugin |-> plugin.name, columns |-> Manifest.columns \ MigratedColumns(plugin.name)]} :
     m.columns # {}}
MigrationRefused == ~(MigratedColumns(plugin.name) \subseteq Manifest.columns)

\* syncPluginTerraform: a module block for each directory under modules/plugins.
Wired(tree) == {p \in Plugins : tree.module[p] # Gone}

\* The tree after the step. An upgrade replaces the Terraform module, or removes
\* it when the new version has none.
Effect ==
  LET p == plugin.name IN
  CASE Step = "copy"       -> [checkout EXCEPT !.source[p] = plugin.version]
    [] Step = "module"     -> [checkout EXCEPT !.module[p] =
                                 IF Manifest.terraform THEN plugin.version ELSE Gone]
    [] Step = "wire"       -> [checkout EXCEPT !.wiring = Wired(checkout)]
    [] Step = "migrate"    -> [checkout EXCEPT !.migrations = @ \cup NewMigrations]
    [] Step = "seed"       -> [checkout EXCEPT !.seed[p] = plugin.version]
    [] Step \in {"lock", "relock"} -> [checkout EXCEPT !.lock = checkout.source]
    [] Step = "register"   -> [checkout EXCEPT !.registry = @ \cup {p}]
    [] Step = "unregister" -> [checkout EXCEPT !.registry = @ \ {p}]
    [] Step = "delete"     -> [checkout EXCEPT !.source[p] = Gone, !.module[p] = Gone]

\* What the step adds to the paths to be staged. An upgrade does not stage the
\* module it removed.
Tracked ==
  CASE Step = "module"   -> IF Manifest.terraform THEN {Module(plugin.name)} ELSE {}
    [] Step = "wire"     -> {Wiring}
    [] Step = "migrate"  -> {Migrated(m) : m \in NewMigrations}
    [] Step = "seed"     -> {SeedOf(plugin.name)}
    [] Step \in {"lock", "relock"} -> {Lock}
    [] Step \in {"register", "unregister"} /\ ~split -> {Registry}
    [] OTHER             -> {}

\* What a step that fails may have touched. Copying and deleting tear a directory.
Touched ==
  CASE Step = "copy" -> {Source(plugin.name)}
    [] Step = "delete" -> {Source(plugin.name), Module(plugin.name)}
    [] Step = "module" -> {Module(plugin.name)}
    [] Step \in {"register", "unregister"} -> {Registry}
    [] OTHER -> Tracked
TornTrees ==
  LET p == plugin.name IN
  CASE Step = "copy" -> {[checkout EXCEPT !.source[p] = Torn]}
    [] Step = "module" -> {[checkout EXCEPT !.module[p] = x] : x \in {Gone, Torn}}
    [] Step = "delete" -> {[checkout EXCEPT !.source[p] = Torn], [checkout EXCEPT !.source[p] = Gone],
                           [checkout EXCEPT !.source[p] = Gone,
                                            !.module[p] = IF @ = Gone THEN Gone ELSE Torn]}
    [] Step = "migrate" /\ MigrationRefused -> {checkout}
    [] OTHER -> {checkout, Effect}

\* What the step has written when it ends: no module when it removes one, or finds
\* none to delete.
Removing == Step = "module" /\ ~Manifest.terraform
NoModule == Step = "delete" /\ checkout.module[plugin.name] = Gone
Settled == IF Removing THEN {} ELSE IF NoModule THEN {Source(plugin.name)} ELSE Touched
Writing == Step \notin {"add", "commit", "addDashboard", "commitDashboard"}
GitRepo == IF Step \in {"addDashboard", "commitDashboard"} THEN "dashboard" ELSE "core"
StagedIn(repo) == IF repo = "dashboard" THEN {Registry} ELSE plugin.paths

Copied == IF Step = "copy" THEN {Source(plugin.name)} ELSE {}

\* Mutant: the module is recorded with the wiring, which may fail first.
RecordedLate == IF Step = "module" THEN {} ELSE Tracked \cup Copied

\* `track', and left.core.written for the plugin's own directory.
Recorded == Tracked \cup Copied

\* A step that writes files. The migration step of a sync that has nothing to write
\* ends the command.
WriteStep ==
  /\ plugin # Resting /\ plugin.todo # <<>> /\ Writing
  /\ Step = "migrate" => ~MigrationRefused
  /\ checkout' = Effect
  /\ unfinished' = unfinished \ Settled
  /\ plugin' = IF plugin.cmd = "sync" /\ Step = "migrate" /\ NewMigrations = {} THEN Resting
               ELSE [plugin EXCEPT !.todo = Tail(@), !.paths = @ \cup Tracked,
                                   !.written = @ \cup Recorded]
  /\ UNCHANGED <<split, committed, handWired, told, excused, pluginRuns>>

\* relockIfDependenciesChanged fails softly: the upgrade goes on without it.
RelockFails ==
  /\ plugin # Resting /\ plugin.todo # <<>> /\ Step = "relock"
  /\ plugin' = [plugin EXCEPT !.todo = Tail(@)]
  /\ UNCHANGED <<split, treeVars, handWired, told, unfinished, excused, pluginRuns>>

\* git add of a path that neither exists nor is tracked is an error.
Exists(item) ==
  \/ item \in Differing(EmptyTree, checkout) \cup Differing(EmptyTree, committed)
  \/ item \in {Wiring, Lock, Registry}
GitAdd ==
  /\ plugin # Resting /\ plugin.todo # <<>> /\ Step \in {"add", "addDashboard"}
  /\ \A item \in StagedIn(GitRepo) : Exists(item)
  /\ plugin' = [plugin EXCEPT !.todo = Tail(@), !.stage[GitRepo] = "staged"]
  /\ UNCHANGED <<split, treeVars, handWired, told, unfinished, excused, pluginRuns>>

\* git commit -- <paths>. With nothing to commit git fails, except that a refresh
\* asks first.
GitCommit ==
  /\ plugin # Resting /\ plugin.todo # <<>> /\ Step \in {"commit", "commitDashboard"}
  /\ LET paths == StagedIn(GitRepo)
         after == Overlay(committed, checkout, paths)
     IN  /\ after # committed \/ plugin.cmd = "refresh"
         /\ committed' = after
  /\ plugin' = IF Tail(plugin.todo) = <<>> THEN Resting
               ELSE [plugin EXCEPT !.todo = Tail(@), !.stage[GitRepo] = "committed"]
  /\ excused' = IF plugin.cmd = "install" /\ Step = "commit" THEN excused \ {plugin.name} ELSE excused
  /\ UNCHANGED <<split, checkout, handWired, told, unfinished, pluginRuns>>

\* withLeftovers, per repository.
Listed(repo) ==
  CASE plugin.stage[repo] = "committed" -> {}
    [] plugin.stage[repo] = "staged" -> StagedIn(repo)
    [] OTHER -> {i \in plugin.written \cup Copied : RepoOf(i) = repo}
                \cup (IF repo = "dashboard" /\ Step = "addDashboard" THEN {Registry} ELSE {})
Leftovers == [cmd |-> plugin.cmd, touched |-> Touched, listed |-> [r \in Repos |-> Listed(r)],
              committed |-> {r \in Repos : plugin.stage[r] = "committed"},
              before |-> plugin.before]

\* The step throws, or the process dies in it and says nothing. An uninstall whose
\* second commit fails says that the two checkouts are out of step.
StepStops ==
  /\ plugin # Resting /\ plugin.todo # <<>> /\ Step # "relock"
  /\ checkout' \in (IF Writing THEN TornTrees ELSE {checkout})
  /\ unfinished' = unfinished \cup (IF Writing THEN Touched ELSE {})
  /\ told' \in {Leftovers, Silence}
  /\ excused' = IF \/ told' = Silence
                   \/ Leftovers.committed # {}
                   \/ Registry \in Touched \cup Listed("core") \cup Listed("dashboard")
                THEN excused \cup {plugin.name} ELSE excused
  /\ plugin' = Resting
  /\ UNCHANGED <<split, committed, handWired, pluginRuns>>

-----------------------------------------------------------------------------
(* The operator between commands *)

Operator ==
  /\ MayStart
  /\ pluginRuns' = pluginRuns + 1
  /\ told' = Silence
  /\ UNCHANGED <<split, plugin, excused>>

\* git restore and git clean of everything a command left.
DiscardLeftovers ==
  /\ Operator
  /\ checkout # committed
  /\ checkout' = committed
  /\ unfinished' = IF Wired(committed) # committed.wiring THEN {Wiring} ELSE {}
  /\ UNCHANGED <<committed, handWired>>

\* A line in main.tf that reads an output of the plugin's module, or its removal.
EditMainTf ==
  /\ Operator
  /\ \E p \in Plugins :
       \/ p \notin handWired /\ checkout.module[p] > 0 /\ committed.module[p] > 0 /\ handWired' = handWired \cup {p}
       \/ p \in handWired /\ handWired' = handWired \ {p}
  /\ UNCHANGED <<treeVars, unfinished>>

PluginNext ==
  \/ CreatePlugin \/ InstallPlugin \/ UpgradePlugin \/ UninstallPlugin \/ SyncMigrations
  \/ WriteStep \/ RelockFails \/ GitAdd \/ GitCommit \/ StepStops
  \/ DiscardLeftovers \/ EditMainTf

PluginSpec == PluginInit /\ [][PluginNext]_pluginVars

-----------------------------------------------------------------------------
(* What the operator can rely on *)

\* An install that stops part-way names, per repository, everything its earlier
\* steps left behind in the working tree, and exactly the repositories in which
\* it has already committed: withLeftovers must be right at every step.
InstallReportsWhatItLeft ==
  told.cmd = "install" =>
    /\ \A item \in Differing(told.before.checkout, checkout) \ told.touched :
         item \in told.listed[RepoOf(item)] \/ RepoOf(item) \in told.committed
    /\ told.committed =
         {RepoOf(item) : item \in Differing(told.before.committed, committed)}

\* However commands failed before, no command takes away a Terraform module that
\* the generated wiring or a hand-written file still refers to, unless it stopped
\* in the very step that replaces the module or rewrites the wiring.
ModuleStaysWhileReferenced ==
  plugin = Resting =>
    \A p \in checkout.wiring \cup handWired :
      checkout.module[p] # Gone \/ {Module(p), Wiring} \cap unfinished # {}

\* The dashboard registers no plugin that is not installed without somebody having
\* been told: the two repositories are committed in turn, and a later command may
\* commit the registration that one which stopped had written.
RegistrationIsAccountedFor ==
  plugin = Resting =>
    \A p \in committed.registry : committed.source[p] # Gone \/ p \in excused
=============================================================================
