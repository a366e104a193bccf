------------------------------ MODULE CoreUpgrade ------------------------------
(***************************************************************************)
(* `biffo core upgrade' run by a developer on one instance's clone, as     *)
(* often as she likes, between her own edits: cli/src/commands/            *)
(* core-upgrade.ts, with the git adapter and the branch reaper.            *)
(*                                                                         *)
(* Every git, GitHub, package-manager and file-system call of the command  *)
(* may fail, and the process may die between any two of them. The template *)
(* checkout the command reads may be moved by somebody else meanwhile.     *)
(***************************************************************************)
EXTENDS UpgradePlan, MigrationCarry, Integers

CONSTANTS
  MaxVersion,     \* the newest core-v* tag; releases are 1..MaxVersion
  Release,        \* version -> [files, manifest, migs, seed]: what its tag ships
  Checkouts,      \* the trees the template checkout may be moved to: other releases, branches
  Breaking,       \* versions the upgrade guide documents as breaking
  Manifests,      \* the paths that are dependency manifests
  Config, Trailers,    \* biffo.divergence.json; the commits with a trailer
  Declined,       \* the template migrations the instance declines
  FirstTree,      \* the instance's first commit on its main branch
  Options,        \* the sets of flags the command is given
  MaxRuns, MaxEdits    \* bounds: commands run, steps of people between and beside them

Versions == 1..MaxVersion

\* What a working tree holds: files, migrations, biffo.core.json's two entries, the orphan
\* baseline, an old core.version, and whether the lockfile is up to date.
IsTree(t) ==
  /\ t = [files |-> t.files, migs |-> t.migs, seed |-> t.seed, version |-> t.version,
          baseline |-> t.baseline, fossil |-> t.fossil, locked |-> t.locked]
  /\ t.version \in Versions

TemplateTrees == Range(Release) \cup Checkouts
TemplateMigrations == UNION {Range(t.migs) : t \in TemplateTrees}
IsMigration(m) == m = [file |-> m.file, rev |-> m.rev, down |-> m.down, body |-> m.body, from |-> m.from]

\* The migration the developer writes, and a migration of an instance: hers, or one of
\* the template's, which its marker does not misname.
Own == [file |-> <<"2", "own">>, rev |-> <<"2">>, body |-> <<"own", "first">>]
IsInstances(m) ==
  /\ IsMigration(m)
  /\ Slug(m.file) = Slug(Own.file) => m.rev = Own.rev
  /\ m.from # Unmarked => \E r \in TemplateMigrations : r.file = m.from /\ Slug(r.file) = Slug(m.file)

\* A chain in which nothing is twice.
SoundChain(migs) ==
  /\ IsFiniteSet(migs) /\ ValidChain(migs)
  /\ \A m, n \in migs : IsInstances(m) /\ (Slug(m.file) = Slug(n.file) => m = n)

ASSUME ReleasesAssumption ==
  /\ MaxVersion \in Nat \ {0}
  /\ DOMAIN Release = Versions
\* The migrations of a tree are the files of one directory.
ASSUME DirectoryAssumption ==
  \A theirs \in TemplateTrees :
    /\ theirs.migs \in Seq(Range(theirs.migs))
    /\ \A i, j \in DOMAIN theirs.migs : theirs.migs[i].file = theirs.migs[j].file => i = j
\* "The template filename is the stable identity of which core migration this is": a
\* template migration is not renumbered later, nor does another take its description,
\* in any release or branch of the template an upgrade is made from.
ASSUME IdentityAssumption ==
  /\ \A m, n \in TemplateMigrations : Slug(m.file) = Slug(n.file) => m.file = n.file
  /\ \A m \in TemplateMigrations : Slug(m.file) # Slug(Own.file)
ASSUME FirstTreeAssumption == IsTree(FirstTree) /\ SoundChain(FirstTree.migs)

Main == <<0, 0>>
UpgradeBranchName(from, to) == <<from, to>>      \* biffo/core-upgrade-<from>-to-<to>
UpgradeBranches == Versions \X Versions
Branches == {Main} \cup UpgradeBranches
None == <<>>                                     \* no such branch
NoBaseline == -1                                 \* no biffo.orphan-baseline.json

VARIABLES
  branches,    \* the clone's local branches: the tree of each, or None
  head, work,  \* the branch checked out, and the working tree
  remote,      \* GitHub's branches
  tracking,    \* the clone's remote-tracking refs
  upstream,    \* of each local branch: None without an upstream recorded, else
               \* the last tree it and its upstream had in common
  prs,         \* the open pull requests: the branch, and what it was cut from
  cmd,         \* the command being run
  mine,        \* history: the working tree as the developer left it
  settled,     \* history: the trees merged into main, or deleted on GitHub by a person
  runs, edits  \* bounds used up

instanceVars == <<branches, head, work>>
githubVars == <<remote, prs>>
refVars == <<tracking, upstream>>
boundVars == <<runs, edits>>
historyVars == <<mine, settled>>
upgradeVars == <<instanceVars, githubVars, refVars, cmd, historyVars, boundVars>>

Idle == [pc |-> "idle"]
Doing(pc) == cmd.pc = pc
At(pc) == cmd' = [cmd EXCEPT !.pc = pc]
Fail == cmd' = Idle                               \* thrown before HEAD moved
FailAndRestore == cmd' = [cmd EXCEPT !.pc = "restore", !.failed = TRUE]
HasUncommittedChanges == work # branches[head]
HasUpstream(b) == upstream[b] # None

UpgradeInit ==
  /\ branches = [b \in Branches |-> IF b = Main THEN FirstTree ELSE None]
  /\ head = Main /\ work = FirstTree /\ mine = FirstTree
  /\ remote = branches /\ tracking = branches
  /\ upstream = branches /\ prs = {}
  /\ cmd = Idle /\ settled = {} /\ runs = 0 /\ edits = 0

-----------------------------------------------------------------------------
(* The command *)

RunCoreUpgrade ==
  /\ Doing("idle") /\ runs < MaxRuns
  /\ \E opt \in Options, to \in Versions :
       cmd' = [pc |-> "currency", opt |-> opt, from |-> work.version, to |-> to,
               viaCheckout |-> FALSE, theirs |-> Release[to], verified |-> FALSE,
               plan |-> <<>>, entries |-> <<>>, orphans |-> 0,
               ours |-> work.files, caller |-> head, failed |-> FALSE]
  /\ runs' = runs + 1
  /\ UNCHANGED <<instanceVars, githubVars, refVars, historyVars, edits>>

\* checkInstanceCurrency. `git fetch' may fail without being noticed; it prunes
\* nothing.
CheckInstanceCurrency ==
  /\ Doing("currency")
  /\ \E online \in BOOLEAN :
       /\ tracking' = [b \in Branches |-> IF online /\ remote[b] # None
                                            THEN remote[b] ELSE tracking[b]]
       /\ LET behind == HasUpstream(head) /\ tracking'[head] \notin {None, upstream[head]}
          IN  IF behind \/ (HasUncommittedChanges /\ ~cmd.opt.allowDirty)
                THEN Fail
                ELSE At("resolve")
  /\ UNCHANGED <<instanceVars, githubVars, upstream, historyVars, boundVars>>

\* The target tree is the template checkout itself if the target is the newest
\* tag and the checkout stands there, else a materialised copy of the tag.
ResolveTrees ==
  /\ Doing("resolve")
  /\ \E atTag \in BOOLEAN :
       cmd' = [cmd EXCEPT !.pc = "plan", !.viaCheckout = atTag /\ cmd.to = MaxVersion]
  /\ UNCHANGED <<instanceVars, githubVars, refVars, historyVars, boundVars>>

\* What stands in the target directory by the time it is read: a checkout may
\* have been moved to another release or to a branch since it was compared to the tag.
TargetTrees == {Release[cmd.to]} \cup (IF cmd.viaCheckout THEN Checkouts ELSE {})
MigrationsFaithful(entries) ==
  \A k \in DOMAIN entries : \E m \in Range(Release[cmd.to].migs) :
    m.file = entries[k].file /\ m.body = entries[k].body
\* checkOrphanRatchet: the first count becomes the baseline, later ones may not
\* exceed it. Files git does not track are not counted.
CountOrphans(in, divergent) ==
  Cardinality({p \in Orphans(in, divergent) : branches[head].files[p] # Absent})
OrphansIncreased(count) == work.baseline # NoBaseline /\ count > work.baseline

PendingSeed(theirs) == theirs.seed /\ ~work.seed

\* runCoreUpgradeResolved from reading the manifest to the end of a dry run. The
\* plan is held to the tag if git can list the tag; if not, the command says "NOT
\* VERIFIED" and goes on. A tree materialised from the tag passes in any case.
AfterPlanning(theirs, verified) ==
  LET base == Release[cmd.from]
      in == Sides(base.files, work.files, theirs.files, base.manifest, theirs.manifest)
      divergent == DeclaredDivergent(theirs.manifest, Config, Trailers)
      plan == PlanCoreUpgrade(theirs.manifest, in, base.files, work.files, theirs.files, divergent)
      carry == PlanMigrationCarry(theirs.migs, work.migs, Declined)
      count == CountOrphans(in, divergent)
      nothing == Changes(plan) = {} /\ carry.entries = <<>> /\ ~PendingSeed(theirs)
      refused == \/ carry.refused
                 \/ verified /\ ~FaithfulToTag(plan, theirs.files, Release[cmd.to].files)
                 \/ verified /\ ~MigrationsFaithful(carry.entries)
                 \/ OrphansIncreased(count)
  IN  IF refused THEN Idle
      ELSE [cmd EXCEPT !.pc = IF nothing \/ ~cmd.opt.apply THEN "report" ELSE "gate",
                       !.theirs = theirs, !.verified = verified, !.plan = plan,
                       !.entries = carry.entries, !.orphans = count]
PlanUpgrade ==
  /\ Doing("plan")
  /\ \E theirs \in TargetTrees, verified \in IF cmd.viaCheckout THEN BOOLEAN ELSE {TRUE} :
       cmd' = AfterPlanning(theirs, verified)
  /\ UNCHANGED <<instanceVars, githubVars, refVars, historyVars, boundVars>>

CrossesBreaking == \E v \in Breaking : cmd.from < v /\ v <= cmd.to
GateRefuses == \/ CrossesBreaking /\ ~cmd.opt.acknowledge
               \/ Conflicts(cmd.plan) # {} /\ ~cmd.opt.allowConflicts

\* applyAndOpenPr: its refusals, the token, the caller's branch, the new branch.
CreateBranch ==
  /\ Doing("gate")
  /\ \E token \in BOOLEAN :
       LET branch == UpgradeBranchName(cmd.from, cmd.to)
           refused == \/ GateRefuses
                      \/ ~token /\ ~cmd.opt.noPush
                      \/ branches[branch] # None
       IN  IF refused
             THEN Fail /\ UNCHANGED instanceVars
             ELSE /\ cmd' = [cmd EXCEPT !.pc = "apply", !.caller = head]
                  /\ branches' = [branches EXCEPT ![branch] = branches[head]]
                  /\ head' = branch
                  /\ UNCHANGED work
  /\ UNCHANGED <<githubVars, refVars, historyVars, boundVars>>

\* buildCommitAndOpenPr writes, in this order: the files, the migrations, the
\* seeds, the version, the baseline if there was none, and it deletes a
\* core.version that records this instance's past. `stage' is how far it came, and
\* before its first end the paths `done' and the entries `carried' are written. A
\* dependency manifest it writes or deletes leaves the lockfile stale.
CleanupDeletes == work.fossil # 0 /\ work.fossil <= work.version
Written(stage, done, carried) ==
  LET all == stage > 0
      files == ApplyUpgradePlan(work.files, cmd.plan, IF all THEN Paths ELSE done)
  IN [files    |-> files,
      migs     |-> ApplyMigrationCarry(work.migs, cmd.entries,
                                       IF all THEN DOMAIN cmd.entries ELSE carried),
      seed     |-> work.seed \/ (stage > 1 /\ PendingSeed(cmd.theirs)),
      version  |-> IF stage > 2 THEN cmd.to ELSE work.version,
      baseline |-> IF stage > 3 /\ work.baseline = NoBaseline THEN cmd.orphans ELSE work.baseline,
      fossil   |-> IF stage > 4 /\ CleanupDeletes THEN 0 ELSE work.fossil,
      locked   |-> work.locked /\ \A p \in Manifests : files[p] = work.files[p]]

\* defaultRunCommand: a package manager that fails, or does not end in time, is
\* reported and no more.
RunPackageManager(locked) == {locked, TRUE}

\* All of it, and refreshInstanceLockfiles.
ApplyPlan ==
  /\ Doing("apply")
  /\ \E locked \in RunPackageManager(Written(5, {}, {}).locked) :
       work' = [Written(5, {}, {}) EXCEPT !.locked = locked]
  /\ At("commit")
  /\ UNCHANGED <<branches, head, githubVars, refVars, historyVars, boundVars>>

\* A write fails part of the way, or the process dies there.
ApplyStops ==
  /\ Doing("apply")
  /\ \/ \E done \in SUBSET Paths : work' = Written(0, done, {})
     \/ \E n \in DOMAIN cmd.entries :
          work' = Written(0, Paths, {k \in DOMAIN cmd.entries : k < n})
     \/ \E stage \in 1..4 : work' = Written(stage, {}, {})
  /\ FailAndRestore \/ cmd' = Idle
  /\ UNCHANGED <<branches, head, githubVars, refVars, historyVars, boundVars>>

\* git add -A, git commit. A hook may refuse; so does git when nothing changed.
Commit ==
  /\ Doing("commit")
  /\ \/ /\ HasUncommittedChanges
        /\ branches' = [branches EXCEPT ![head] = work]
        /\ At("install")
     \/ FailAndRestore /\ UNCHANGED branches
  /\ UNCHANGED <<head, work, githubVars, refVars, historyVars, boundVars>>

\* installInstanceDependencies never fails the command. `pnpm install' brings a
\* stale lockfile up to date, after the commit.
InstallDependencies ==
  /\ Doing("install")
  /\ \E locked \in RunPackageManager(work.locked) : work' = [work EXCEPT !.locked = locked]
  /\ At(IF cmd.opt.noPush THEN "restore" ELSE "push")
  /\ UNCHANGED <<branches, head, githubVars, refVars, historyVars, boundVars>>

\* git push, which GitHub rejects when the branch exists with another history;
\* then setUpstreamAfterPush.
Push ==
  /\ Doing("push")
  /\ \/ /\ remote[head] \in {None, branches[head]}
        /\ remote' = [remote EXCEPT ![head] = branches[head]]
        /\ tracking' = [tracking EXCEPT ![head] = branches[head]]
        /\ upstream' = [upstream EXCEPT ![head] = branches[head]]
        /\ At("pr")
     \/ FailAndRestore /\ UNCHANGED <<remote, refVars>>
  /\ UNCHANGED <<instanceVars, prs, historyVars, boundVars>>

\* GitHub takes no second pull request of a branch, and none of one it does not have.
CreatePullRequest ==
  /\ Doing("pr")
  /\ \/ /\ remote[head] # None /\ \A pr \in prs : pr.branch # head
        /\ prs' = prs \cup {[branch |-> head, cut |-> branches[cmd.caller]]}
        /\ At("restore")
     \/ FailAndRestore /\ UNCHANGED prs
  /\ UNCHANGED <<instanceVars, remote, refVars, historyVars, boundVars>>

\* Mutant: git switch carries whatever is uncommitted onto the caller's branch.
RestoreAlways ==
  /\ Doing("restore")
  /\ head' = cmd.caller
  /\ work' = IF HasUncommittedChanges THEN work ELSE branches[cmd.caller]
  /\ IF cmd.failed THEN cmd' = Idle ELSE At("report")
  /\ UNCHANGED <<branches, githubVars, refVars, historyVars, boundVars>>

\* restoreCallerBranch stays where it is rather than carry what is uncommitted
\* onto the caller's branch; the switch itself may fail, which is only reported.
RestoreCallerBranch ==
  /\ Doing("restore")
  /\ \/ /\ ~HasUncommittedChanges
        /\ head' = cmd.caller
        /\ work' = branches[cmd.caller]
     \/ UNCHANGED <<head, work>>
  /\ IF cmd.failed THEN cmd' = Idle ELSE At("report")
  /\ UNCHANGED <<branches, githubVars, refVars, historyVars, boundVars>>

\* Mutant: a branch with no upstream counts as dead.
ReapableWithoutEvidence(refs) ==
  {b \in UpgradeBranches : branches[b] # None /\ b # head /\ refs[b] = None}

\* classifyUpgradeBranches: dead once the upstream that was recorded is gone. A
\* branch without one may be work that has landed nowhere. Nobody looks at the tip of
\* the local branch: what was committed there after the last push is deleted too.
Reapable(refs) == {b \in UpgradeBranches : /\ branches[b] # None /\ b # head
                                           /\ HasUpstream(b) /\ refs[b] = None}

\* reportUpgradeBranches: fetch --prune, which may fail unnoticed, and --reap.
ReportUpgradeBranches ==
  /\ Doing("report")
  /\ \E online \in BOOLEAN :
       tracking' = IF online THEN remote ELSE tracking
  /\ LET dead == IF cmd.opt.reap THEN Reapable(tracking') ELSE {}
     IN  /\ branches' = [b \in Branches |-> IF b \in dead THEN None ELSE branches[b]]
         /\ upstream' = [b \in Branches |-> IF b \in dead THEN None ELSE upstream[b]]
  /\ cmd' = Idle
  /\ UNCHANGED <<head, work, githubVars, historyVars, boundVars>>

Crash ==
  /\ ~Doing("idle")
  /\ cmd' = Idle
  /\ UNCHANGED <<instanceVars, githubVars, refVars, historyVars, boundVars>>

CommandStep ==
  \/ RunCoreUpgrade \/ CheckInstanceCurrency \/ ResolveTrees \/ PlanUpgrade
  \/ CreateBranch \/ ApplyPlan \/ ApplyStops \/ Commit \/ InstallDependencies
  \/ Push \/ CreatePullRequest \/ RestoreCallerBranch \/ ReportUpgradeBranches
  \/ Crash

-----------------------------------------------------------------------------
(* The world around it *)

\* The developer works on the clone only while no command runs on it.
Developer ==
  /\ Doing("idle") /\ edits < MaxEdits
  /\ edits' = edits + 1
  /\ UNCHANGED <<cmd, settled, runs>>

EditFile ==
  /\ Developer
  /\ \E p \in Paths : work' = [work EXCEPT !.files[p] =
       IF @ = Absent THEN <<"mine", "mine">> ELSE <<@[1], "mine">>]
  /\ work' # work /\ mine' = work'
  /\ UNCHANGED <<branches, head, githubVars, refVars>>

DeleteFile ==
  /\ Developer
  /\ \E p \in Paths : work.files[p] # Absent /\ work' = [work EXCEPT !.files[p] = Absent]
  /\ mine' = work'
  /\ UNCHANGED <<branches, head, githubVars, refVars>>

\* A migration of the instance's own, with the next number.
AddMigration ==
  /\ Developer
  /\ Own.rev \notin Revisions(work.migs)
  /\ work' = [work EXCEPT !.migs = @ \cup
       {[file |-> Own.file, rev |-> Own.rev, down |-> HeadOf(work.migs),
         body |-> Own.body, from |-> Unmarked]}]
  /\ mine' = work'
  /\ UNCHANGED <<branches, head, githubVars, refVars>>

\* Renaming a migration to the number its place in the chain suggests, or
\* correcting its text: the description and the provenance marker stay.
ReviseMigration ==
  /\ Developer
  /\ \E m \in work.migs, renamed, edited \in BOOLEAN :
       work' = [work EXCEPT !.migs = (@ \ {m}) \cup
         {[m EXCEPT !.file = IF renamed THEN <<"9", Slug(m.file)>> ELSE @,
                    !.body = IF edited THEN <<Slug(m.file), "edited">> ELSE @]}]
  /\ work' # work /\ mine' = work'
  /\ UNCHANGED <<branches, head, githubVars, refVars>>

CommitEdits ==
  /\ Developer
  /\ HasUncommittedChanges
  /\ branches' = [branches EXCEPT ![head] = work]
  /\ mine' = work
  /\ UNCHANGED <<head, work, githubVars, refVars>>

\* git push of a branch with an upstream: GitHub takes it if it adds to what is there,
\* or if nothing is there any more.
PushBranch ==
  /\ Developer
  /\ HasUpstream(head) /\ remote[head] # branches[head]
  /\ remote[head] \in {None, upstream[head]}
  /\ remote' = [remote EXCEPT ![head] = branches[head]]
  /\ tracking' = [tracking EXCEPT ![head] = branches[head]]
  /\ upstream' = [upstream EXCEPT ![head] = branches[head]]
  /\ UNCHANGED <<instanceVars, prs, mine>>

Discard ==
  /\ Developer
  /\ HasUncommittedChanges
  /\ work' = branches[head] /\ mine' = work'
  /\ UNCHANGED <<branches, head, githubVars, refVars>>

\* git switch, or git pull on a main branch that is behind and has nothing of its own.
SwitchOrPull ==
  /\ Developer
  /\ ~HasUncommittedChanges
  /\ \/ /\ head' \in {b \in Branches \ {head} : branches[b] # None}
        /\ work' = branches[head']
        /\ UNCHANGED <<branches, refVars>>
     \/ /\ head = Main /\ branches[Main] = upstream[Main] /\ branches[Main] # remote[Main]
        /\ branches' = [branches EXCEPT ![Main] = remote[Main]]
        /\ tracking' = [tracking EXCEPT ![Main] = remote[Main]]
        /\ upstream' = [upstream EXCEPT ![Main] = remote[Main]]
        /\ work' = remote[Main]
        /\ UNCHANGED head
  /\ mine' = work'
  /\ UNCHANGED githubVars

\* A local branch she has no more use for.
DeleteBranch ==
  /\ Developer
  /\ \E b \in UpgradeBranches \ {head} :
       /\ branches[b] # None
       /\ branches' = [branches EXCEPT ![b] = None]
       /\ upstream' = [upstream EXCEPT ![b] = None]
  /\ UNCHANGED <<head, work, githubVars, tracking, mine>>

\* A pull request is squash-merged and its branch deleted on GitHub. Branch
\* protection requires it up to date: main has not moved since it was cut.
MergePullRequest ==
  /\ \E pr \in prs :
       /\ pr.cut = remote[Main]
       /\ remote' = [remote EXCEPT ![Main] = remote[pr.branch], ![pr.branch] = None]
       /\ prs' = prs \ {pr}
       /\ settled' = settled \cup {remote[pr.branch]}
  /\ UNCHANGED <<instanceVars, refVars, cmd, mine, boundVars>>

\* A person deletes a branch on GitHub, which closes its pull request if it has one.
DeleteOnGitHub ==
  /\ edits < MaxEdits
  /\ \E b \in UpgradeBranches :
       /\ remote[b] # None
       /\ remote' = [remote EXCEPT ![b] = None]
       /\ prs' = {pr \in prs : pr.branch # b}
       /\ settled' = settled \cup {remote[b]}
  /\ edits' = edits + 1
  /\ UNCHANGED <<instanceVars, refVars, cmd, mine, runs>>

UpgradeNext ==
  \/ CommandStep
  \/ EditFile \/ DeleteFile \/ AddMigration \/ ReviseMigration
  \/ CommitEdits \/ PushBranch \/ Discard \/ SwitchOrPull \/ DeleteBranch
  \/ MergePullRequest \/ DeleteOnGitHub

UpgradeSpec == UpgradeInit /\ [][UpgradeNext]_upgradeVars

-----------------------------------------------------------------------------
(* What an upgrade promises *)

\* An upgrade commit made without --allow-conflicts keeps every hunk in which the
\* instance differed from the release it was on, whichever of the ways through
\* classify its file took, and whatever had failed in earlier attempts.
InstanceEditsSurvive ==
  Doing("install") /\ ~cmd.opt.allowConflicts =>
    \A p \in Paths, h \in 1..2 :
      LET base == Release[cmd.from].files[p]
          ours == cmd.ours[p]
          committed == branches[head].files[p]
      IN  ours # Absent /\ (base = Absent \/ ours[h] # base[h]) =>
            committed # Absent /\ committed[h] = ours[h]

\* An upgrade commit that records version v brings what v's tag ships, even if
\* the template checkout was moved under the command: a file taken whole is the
\* tag's if the tree was materialised from the tag or the plan was verified against
\* it, and, when the tree was materialised, every hunk the release changed and the
\* instance had not touched is there. Of a plan read from the checkout that git could
\* not verify nothing is promised: the command prints "NOT VERIFIED" and applies it.
ReleaseArrives ==
  Doing("install") =>
    LET committed == branches[head]
        old == Release[cmd.from]
        new == Release[cmd.to]
    IN /\ committed.version = cmd.to
       /\ cmd.verified \/ ~cmd.viaCheckout =>
            \A p \in DOMAIN cmd.plan :
              cmd.plan[p].status \in Verbatim => committed.files[p] = new.files[p]
       /\ ~cmd.viaCheckout =>
            \A p \in Owned(old.manifest) \cap Owned(new.manifest), h \in 1..2 :
              LET base == old.files[p]
                  theirs == new.files[p]
                  ours == cmd.ours[p]
              IN  /\ theirs # Absent /\ (base = Absent <=> ours = Absent)
                  /\ base # Absent => ours[h] = base[h]
                  => committed.files[p] # Absent /\ committed.files[p][h] = theirs[h]

\* Every branch of the clone holds a chain Alembic accepts, in which no migration
\* of the template appears twice, however the instance renumbered, renamed or
\* corrected the copies it has: a second copy would run its DDL again.
MigrationsRunOnce ==
  \A b \in Branches : branches[b] # None =>
    /\ ValidChain(branches[b].migs)
    /\ \A m, n \in branches[b].migs : Slug(m.file) = Slug(n.file) => m = n

\* Whatever failed, and wherever, a branch that is not an upgrade branch never
\* holds uncommitted work of the command: its tree is the commit, or what the
\* developer had left there herself.
NothingCarriedOver ==
  Doing("idle") /\ head = Main => work \in {branches[Main], mine}

\* --reap deletes only branches whose content, as it was last pushed, has been merged
\* or was deleted on GitHub by a person; a branch never pushed, or still there, stays.
\* Commits made on the branch since are not covered: `git branch -D' takes them along.
ReapedIsSettled ==
  [][\A b \in Branches :
       cmd # Idle /\ branches[b] # None /\ branches'[b] = None => upstream[b] \in settled]_upgradeVars
=============================================================================
