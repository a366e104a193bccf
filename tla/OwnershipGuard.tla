--------------------------- MODULE OwnershipGuard ---------------------------
(***************************************************************************)
(* The core ownership guard of an instance: template-owned files change by *)
(* `biffo core upgrade`, and by hand only with a reason on record.  The    *)
(* same check (core-ownership-guard.ts) runs twice: from the commit-msg    *)
(* hook, over what is staged, and on the pull request, over the difference *)
(* the whole branch makes.                                                 *)
(*                                                                         *)
(* The repository is its commits in the order they were made, each on the  *)
(* branches that hold it; a branch is what it has ahead of dev.  The local *)
(* remote-tracking branch and the one the runner fetches are the same.     *)
(***************************************************************************)
EXTENDS Naturals, FiniteSets, Sequences

CONSTANTS GuardedBranches,   \* branches ahead of dev
          NamedUpgrade,      \* those named biffo/core-upgrade-* where they are worked on
          PushedAsUpgrade,   \* those whose pull request has such a name
          Prefixed, Shipped, \* paths under a template-owned prefix; paths the template has
          WarnOnly,          \* paths under a prefix of biffo.divergence.json
          OtherPaths,        \* paths the manifest does not own
          MaxCommitted       \* bound

VARIABLES
  commits,   \* every commit: [paths, moved, recorded, upgrade, hooked, made, first, on]
  checked    \* what the pull request's check last said of each branch's tip

guardVars == <<commits, checked>>

GuardedPaths == Prefixed \cup OtherPaths
Ahead(b) == {i \in 1..Len(commits) : b \in commits[i].on}
FirstAhead(b) == CHOOSE i \in Ahead(b) : \A j \in Ahead(b) : i <= j

(* git diff dev...b: a path two commits change there and back is no        *)
(* difference.                                                             *)
Difference(b) ==
  {p \in GuardedPaths : Cardinality({i \in Ahead(b) : p \in commits[i].paths}) % 2 = 1}

----------------------------------------------------------------------------
(* Renames: pairs of an old path and a new one. git looks for them in any  *)
(* diff, and parseNameStatus keeps of each the new path only.              *)
OldPaths(renames) == {m[1] : m \in renames}
BothPaths(m) == {m[1], m[2]}
Renamings ==
  {renames \in SUBSET (GuardedPaths \X GuardedPaths) :
     \A m, n \in renames : m[1] # m[2] /\ (n = m \/ BothPaths(m) \cap BothPaths(n) = {})}
ParseNameStatus(changed, renames) == changed \ OldPaths(renames)

(* A rename is in the branch's difference as it is in the commit, unless   *)
(* another commit changes one of the two paths: then git finds it if they  *)
(* are still similar enough.                                               *)
TouchedElsewhere(b, i, m) == \E j \in Ahead(b) \ {i} : BothPaths(m) \cap commits[j].paths # {}
FoundInDifference(b) ==
  LET all == {m \in UNION {commits[i].moved : i \in Ahead(b)} : BothPaths(m) \subseteq Difference(b)}
      sure == {m \in all : \E i \in Ahead(b) : m \in commits[i].moved /\ ~TouchedElsewhere(b, i, m)}
  IN  {renames \in SUBSET all : sure \subseteq renames}

----------------------------------------------------------------------------
(* checkCoreOwnership: what of the changed paths is left to answer for.    *)
(* `shipped` is what the template is known to have; the hook does not ask. *)
Offending(changed, exempt, shipped) == ((changed \ exempt) \cap Prefixed \cap shipped) \ WarnOnly

(* A Core-Divergence or Core-Convergence line lets it all through. *)
Allowed(changed, exempt, shipped, recorded) ==
  recorded \/ Offending(changed, exempt, shipped) = {}

(* resolveUpgradeCommitFiles: only the paths of the branch's first commit  *)
(* are the upgrade's, the old ones too, as git diff-tree looks for no      *)
(* renames; before there is one, the staged paths are about to be its.     *)
UpgradeCommitFiles(b, staged) ==
  IF Ahead(b) = {} THEN staged ELSE commits[FirstAhead(b)].paths

(* firstCommitIsCliUpgrade: known by its subject on a branch of any name. *)
FirstCommitIsUpgrade(b) == Ahead(b) # {} /\ commits[FirstAhead(b)].upgrade

(* Mutant: the hook skips an upgrade branch on its name alone. *)
HookExemptsByName(b, edited) == IF b \in NamedUpgrade THEN edited ELSE {}

(* The hook, over the staged paths that differ from every parent. *)
HookExempts(b, edited) == IF b \in NamedUpgrade THEN UpgradeCommitFiles(b, edited) ELSE {}
HookAllows(b, edited, recorded) ==
  Allowed(edited, HookExempts(b, edited), GuardedPaths, recorded)

(* The pull request's check, over the whole branch and all its messages;   *)
(* the template's tree may be out of reach.                                *)
CheckExempts(b) ==
  IF b \in PushedAsUpgrade \/ FirstCommitIsUpgrade(b) THEN UpgradeCommitFiles(b, {}) ELSE {}
CheckAllows(b, renames, shipped) ==
  Allowed(ParseNameStatus(Difference(b), renames), CheckExempts(b), shipped,
          \E i \in Ahead(b) : commits[i].recorded)

----------------------------------------------------------------------------
Room == Len(commits) < MaxCommitted
Unchecked(bs) == checked' = [b \in GuardedBranches |-> IF b \in bs THEN "none" ELSE checked[b]]

(* The branch's first commit as the hook sees it, or this commit. *)
FirstSeen(b) == IF Ahead(b) = {} THEN Len(commits) + 1 ELSE FirstAhead(b)
Record(b, paths, moved, recorded, upgrade, hooked) ==
  [paths |-> paths, moved |-> moved, recorded |-> recorded, upgrade |-> upgrade, hooked |-> hooked,
   made |-> b, first |-> FirstSeen(b), on |-> {b}]

(* `biffo core upgrade` commits first on a branch it makes. All its paths  *)
(* are exempt, renamed or not.                                             *)
UpgradeCommit(b, paths) ==
  /\ Room /\ b \in NamedUpgrade /\ Ahead(b) = {}
  /\ HookAllows(b, paths, FALSE)
  /\ commits' = Append(commits, Record(b, paths, {}, FALSE, TRUE, TRUE))
  /\ Unchecked({b})

(* A template-owned file moves from where it is on dev to where nothing    *)
(* is. A move of any other file is judged as two edits are.                *)
Moves(b, paths) ==
  {renames \in Renamings :
     \A m \in renames : m[1] \in Prefixed /\ BothPaths(m) \subseteq paths \ Difference(b)}

(* git commit: the hook may refuse it, and --no-verify skips the hook. *)
CommitEdit(b, paths, renames, recorded) ==
  /\ Room /\ HookAllows(b, ParseNameStatus(paths, renames), recorded)
  /\ commits' = Append(commits, Record(b, paths, renames, recorded, FALSE, TRUE))
  /\ Unchecked({b})

CommitUnverified(b, paths, renames) ==
  /\ Room /\ ~HookAllows(b, ParseNameStatus(paths, renames), FALSE)
  /\ commits' = Append(commits, Record(b, paths, renames, FALSE, FALSE, FALSE))
  /\ Unchecked({b})

(* git merge: the staged paths that match a parent being merged in are not *)
(* this commit's edits (pathsFromMergeHeads); what a conflict's resolution *)
(* writes anew is.                                                         *)
MergeIn(a, b, resolved, recorded) ==
  /\ Room /\ a # b /\ ~(Ahead(a) \subseteq Ahead(b))
  /\ resolved \subseteq Difference(a) \cap Difference(b)
  /\ HookAllows(b, resolved, recorded)
  /\ commits' = Append([i \in 1..Len(commits) |->
                          IF i \in Ahead(a) THEN [commits[i] EXCEPT !.on = @ \cup {b}] ELSE commits[i]],
                       Record(b, resolved, {}, recorded, FALSE, TRUE))
  /\ Unchecked({b})

(* fetchTemplateShippedPaths: the template's tree, or every path when it   *)
(* cannot be told.                                                         *)
ShippedPaths == {Shipped, GuardedPaths}

(* The required check runs on the branch's tip. *)
CheckPullRequest(b) ==
  /\ Ahead(b) # {}
  /\ \E renames \in FoundInDifference(b), shipped \in ShippedPaths :
       checked' = [checked EXCEPT ![b] = IF CheckAllows(b, renames, shipped) THEN "passed" ELSE "failed"]
  /\ UNCHANGED commits

(* A passed branch is squashed onto dev, where nothing tells it apart any  *)
(* more; commits other branches took from it stay theirs.                  *)
MergeChecked(b) ==
  /\ checked[b] = "passed"
  /\ commits' = [i \in 1..Len(commits) |-> [commits[i] EXCEPT !.on = @ \ {b}]]
  /\ Unchecked({b})

GuardInit == commits = <<>> /\ checked = [b \in GuardedBranches |-> "none"]

GuardNext ==
  \/ \E b \in GuardedBranches :
       \/ \E paths \in SUBSET GuardedPaths \ {{}} :
            \/ UpgradeCommit(b, paths)
            \/ \E renames \in Moves(b, paths) :
                 \/ \E r \in BOOLEAN : CommitEdit(b, paths, renames, r)
                 \/ CommitUnverified(b, paths, renames)
       \/ \E a \in GuardedBranches, resolved \in SUBSET GuardedPaths, r \in BOOLEAN : MergeIn(a, b, resolved, r)
       \/ CheckPullRequest(b)
       \/ MergeChecked(b)

GuardSpec == GuardInit /\ [][GuardNext]_guardVars

----------------------------------------------------------------------------
(* What the hook and the check do not look at alike. An exemption is owed  *)
(* to the name of a branch, and its pull request has another, or the       *)
(* upgrade's commit was merged in from the branch it was made on; what the *)
(* hook took for the branch's first commit no longer is: something older   *)
(* was merged in, of another branch or of an earlier one of that name; a   *)
(* template-owned file was renamed, which shows the hook the new path      *)
(* alone, and another commit changed one of the two: then the check may    *)
(* find the old one deleted.                                               *)
MadeUnderAnotherName(b) == \E i \in Ahead(b) : commits[i].made \in NamedUpgrade \ {b}
FirstCommitIsAnother(b) == \E i \in Ahead(b) : commits[i].made = b /\ commits[i].first # FirstAhead(b)
RenameMayComeApart(b) ==
  \E i \in Ahead(b) : \E m \in commits[i].moved : m[1] \in Prefixed /\ TouchedElsewhere(b, i, m)
SeenUnlike(b) ==
  \/ MadeUnderAnotherName(b) \/ RenameMayComeApart(b)
  \/ b \in NamedUpgrade /\ (b \notin PushedAsUpgrade \/ FirstCommitIsAnother(b))

(* The hook speaks for the check: a branch whose every commit went through *)
(* the hook is not refused at its pull request, whatever was merged into   *)
(* it, unless the two see it unlike: they look at different changes and    *)
(* exempt different files.                                                 *)
HookSpeaksForCheck ==
  \A b \in GuardedBranches : checked[b] = "failed" =>
    (\E i \in Ahead(b) : ~commits[i].hooked) \/ SeenUnlike(b)
=============================================================================
