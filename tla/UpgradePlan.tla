------------------------------ MODULE UpgradePlan ------------------------------
(***************************************************************************)
(* The three-way merge `biffo core upgrade' plans, file by file            *)
(* (cli/src/lib/core-upgrade.ts), what it refuses to plan, and the check   *)
(* of the plan against the release tag (core-upgrade-target-fidelity.ts).  *)
(*                                                                         *)
(* A file is Absent or a pair of hunks: two places in it that can be       *)
(* edited independently, which is as much of a text as `git merge-file'    *)
(* tells apart. The files of Binary (symlinks, or not UTF-8) are never     *)
(* merged. A tree maps every path to a file.                               *)
(***************************************************************************)
EXTENDS Integers, FiniteSets

CONSTANTS
  Paths, Binary,
  MatchLength,    \* [path, manifest pattern] -> literals matched, -1 for no match
  Basename        \* path -> its last segment

Absent == <<>>
Markers == "<<<<<<<"     \* what a conflict leaves in place of a hunk

\* isTemplateOwned: among a manifest's patterns the longest match wins, and a
\* userOwned one wins a tie.
IsTemplateOwned(p, manifest) ==
  \E t \in manifest.templateOwned :
    /\ MatchLength[p, t] >= 0
    /\ \A u \in manifest.userOwned : MatchLength[p, t] > MatchLength[p, u]
Owned(manifest) == {p \in Paths : IsTemplateOwned(p, manifest)}
TemplateOwnedFiles(tree, manifest) == {p \in Owned(manifest) : tree[p] # Absent}

\* A commit's Core-Divergence trailer declares p only if it can be about nothing
\* else, or names p: in full, or by a basename no other template-owned path of
\* the commit has. The boundary commits of a shallow clone are not believed.
TrailerNamesPath(commit, p, touched) ==
  \/ p \in commit.reason
  \/ /\ Basename[p] \in commit.reason
     /\ \A q \in touched : Basename[q] = Basename[p] => q = p
DeclaredByTrailer(p, manifest, history) ==
  \E commit \in history :
    /\ p \in commit.touched /\ ~commit.grafted
    /\ LET touched == commit.touched \cap Owned(manifest)
       IN  touched = {p} \/ TrailerNamesPath(commit, p, touched)
\* isDeclaredDivergent: biffo.divergence.json, or a trailer.
DeclaredDivergent(manifest, config, history) ==
  {p \in Paths : p \in config \/ DeclaredByTrailer(p, manifest, history)}

\* Mutant: both sides changed it, and the template wins without a conflict.
MergeHunkTheirsWin(base, ours, theirs) == IF theirs = base THEN ours ELSE theirs

\* gitMergeFile: a hunk only one side changed is taken from that side.
MergeHunk(base, ours, theirs) ==
  CASE theirs = base \/ theirs = ours -> ours
    [] theirs # base /\ theirs # ours /\ ours = base -> theirs
    [] OTHER -> Markers

MergeFile(base, ours, theirs) ==
  LET merged == [h \in 1..2 |-> MergeHunk(base[h], ours[h], theirs[h])]
  IN  [content    |-> merged,
       conflicted |-> \E h \in 1..2 : merged[h] = Markers /\ ours[h] # Markers]

Entry(status, conflicted, content) ==
  [status |-> status, conflicted |-> conflicted, content |-> content]

\* The trees the planner compares. A base file counts only if the base's own
\* manifest also owns it: a path that changed hands in between has no base.
Sides(base, ours, theirs, baseManifest, manifest) ==
  [base   |-> TemplateOwnedFiles(base, manifest) \cap Owned(baseManifest),
   ours   |-> TemplateOwnedFiles(ours, manifest),
   theirs |-> TemplateOwnedFiles(theirs, manifest)]

\* classify. `divergent' is the set of paths the instance declares divergent;
\* content is Absent for an entry
\* that writes nothing.
Classify(p, in, base, ours, theirs, divergent) ==
  LET b == base[p]
      o == ours[p]
      t == theirs[p]
      merge == MergeFile(b, o, t)
  IN CASE p \notin in.base /\ p \notin in.theirs -> Entry("keep-ours", FALSE, Absent)
       [] p \notin in.base /\ p \in in.theirs /\ p \notin in.ours -> Entry("added", FALSE, t)
       [] p \notin in.base /\ p \in in.theirs /\ p \in in.ours ->
            IF o = t THEN Entry("unchanged", FALSE, Absent)
            ELSE Entry("add-conflict", TRUE, t)
       [] p \in in.base /\ p \notin in.theirs ->
            IF p \notin in.ours \/ o = b THEN Entry("removed", FALSE, Absent)
            ELSE Entry("remove-conflict", TRUE, Absent)
       [] p \in in.base /\ p \in in.theirs /\ p \notin in.ours ->
            IF p \in divergent THEN Entry("removed", FALSE, Absent)
            ELSE Entry("restored", FALSE, t)
       [] p \in in.base /\ p \in in.theirs /\ p \in in.ours ->
            CASE t = b -> Entry(IF o = b THEN "unchanged" ELSE "keep-ours", FALSE, Absent)
              [] t # b /\ o = b -> Entry("take-theirs", FALSE, t)
              [] t # b /\ o # b /\ o = t -> Entry("unchanged", FALSE, Absent)
              [] t # b /\ o # b /\ o # t /\ p \in Binary -> Entry("conflict", TRUE, t)
              [] OTHER -> Entry(IF merge.conflicted THEN "conflict" ELSE "merged",
                                merge.conflicted, merge.content)

\* The instance's files under a template-owned path that no release ships and no
\* declaration covers: the orphans the ratchet counts.
Orphans(in, divergent) == in.ours \ (in.base \cup in.theirs \cup divergent)

PlanCoreUpgrade(manifest, in, base, ours, theirs, divergent) ==
  [p \in Owned(manifest) |-> Classify(p, in, base, ours, theirs, divergent)]

Changes(plan) == {p \in DOMAIN plan : plan[p].status \notin {"unchanged", "keep-ours"}}
Conflicts(plan) == {p \in DOMAIN plan : plan[p].conflicted}

\* applyUpgradePlan, once it has come to the paths of `done'.
ApplyUpgradePlan(tree, plan, done) ==
  [p \in Paths |->
     CASE p \in done \cap DOMAIN plan /\ plan[p].status = "removed" -> Absent
       [] p \in done \cap DOMAIN plan /\ plan[p].content # Absent -> plan[p].content
       [] OTHER -> tree[p]]

Verbatim == {"take-theirs", "added", "add-conflict", "restored"}
Derived == {"merged", "conflict"}

\* Mutant: the target directory is trusted to be the tag.
FaithfulUnchecked(plan, theirs, tag) == TRUE

\* assertTargetFidelity finds nothing: what the plan takes from the target tree,
\* as an output or as an input of a merge, is the tag's own blob.
FaithfulToTag(plan, theirs, tag) ==
  \A p \in DOMAIN plan :
    /\ plan[p].status \in Verbatim => plan[p].content = tag[p]
    /\ plan[p].status \in Derived => theirs[p] = tag[p]
=============================================================================
