---------------------------- MODULE ReleaseTrain ----------------------------
(***************************************************************************)
(* How the template is released.  A pull request is merged to dev by       *)
(* squash, so its title becomes the commit's subject; core-tag.yml runs    *)
(* cli/src/scripts/sync-core-tag.ts on the pushed commit, which derives    *)
(* the next core-v tag from the highest one and from that subject; the tag *)
(* is handed to publish-cli.yml, which publishes it to npm.                *)
(*                                                                         *)
(* Runs of core-tag.yml on dev are serialised by GitHub: one runs, one     *)
(* waits, and a newer one takes the place of the one that waits.  An old   *)
(* run may be run again, on the commit it was for.  A person may push a    *)
(* core-v tag by hand, which nothing protects.                             *)
(*                                                                         *)
(* A commit is its place in dev's history; 0 stands for a commit that dev  *)
(* does not have.  A version is <<minor, patch>>: the major never moves.   *)
(***************************************************************************)
EXTENDS Integers, Sequences, FiniteSets

CONSTANTS TemplateOwned, Released,  \* core-manifest.json: distributed; only published
          UserOwned,                \* neither: nested in a template-owned directory, or not
          Subjects,                 \* pull request titles, by what the parser sees in them
          HandVersions,             \* versions a person may push a tag for
          MaxMerges, MaxHandTags   \* bounds

ASSUME HandVersionsAssumption == HandVersions \subseteq Nat \X Nat

VARIABLES
  history,     \* dev: one [subject, tree] for every commit
  proposal,    \* the open pull request: its title, the paths it changes, its check
  tags,        \* the core-v tags: [version, at, by]
  tagJob,      \* the run of core-tag.yml in progress
  waiting,     \* the commit of the run that waits for it, 0 when none
  npm,         \* what the registry holds: [version, gitHead]
  publishing,  \* versions a run of publish-cli.yml is under way for
  report       \* what the last of those runs told its reader

releaseVars == <<history, proposal, tags, tagJob, waiting, npm, publishing, report>>

ManifestPaths == TemplateOwned \cup Released \cup UserOwned
NoProposal == [title |-> "", touched |-> {}, check |-> "none"]
NoTagJob == [pc |-> "idle", head |-> 0, version |-> <<0, 0>>]

(* release-version.ts: what a subject says; null when it does not parse. *)
Parses(title) == title # "plain"
BumpKindFor(title) == IF title \in {"feat", "breaking"} THEN "minor" ELSE "patch"
ApplyBump(v, kind) == IF kind = "minor" THEN <<v[1] + 1, 0>> ELSE <<v[1], v[2] + 1>>
Lower(v, w) == v[1] < w[1] \/ (v[1] = w[1] /\ v[2] < w[2])

(* core-tags.ts: the paths whose change cuts a release; user-owned paths   *)
(* nested in a template-owned directory are carved out.                    *)
ReleasePathspecs == (TemplateOwned \ UserOwned) \cup Released

----------------------------------------------------------------------------
(* The pull request and its guard. *)

OpenProposal(title, touched) ==
  /\ proposal = NoProposal /\ Len(history) < MaxMerges
  /\ proposal' = [title |-> title, touched |-> touched, check |-> "pending"]
  /\ UNCHANGED <<history, tags, tagJob, waiting, npm, publishing, report>>

(* checkReleaseSubject *)
Unparseable(p) == p.touched \cap TemplateOwned # {} /\ ~Parses(p.title)

(* The guard reads the title as it is now, not as it was at the event. *)
CheckReleaseSubject ==
  /\ proposal.check = "pending"
  /\ proposal' = [proposal EXCEPT !.check = IF Unparseable(proposal) THEN "failed" ELSE "passed"]
  /\ UNCHANGED <<history, tags, tagJob, waiting, npm, publishing, report>>

(* An edited title starts the required check again. *)
Retitle(title) ==
  /\ proposal # NoProposal /\ proposal.title # title
  /\ proposal' = [proposal EXCEPT !.title = title, !.check = "pending"]
  /\ UNCHANGED <<history, tags, tagJob, waiting, npm, publishing, report>>

(* GitHub's queue for one concurrency group: a free group starts the run,  *)
(* a busy one keeps only the newest of those that wait.                    *)
Enqueue(commit) ==
  IF tagJob = NoTagJob
  THEN tagJob' = [NoTagJob EXCEPT !.pc = "deciding", !.head = commit] /\ UNCHANGED waiting
  ELSE waiting' = commit /\ UNCHANGED tagJob

Tree == IF history = <<>> THEN [p \in ManifestPaths |-> 0] ELSE history[Len(history)].tree

Merge ==
  /\ proposal.check = "passed"
  /\ history' = Append(history, [subject |-> proposal.title,
                                 tree |-> [p \in ManifestPaths |->
                                   IF p \in proposal.touched THEN 1 - Tree[p] ELSE Tree[p]]])
  /\ proposal' = NoProposal
  /\ Enqueue(Len(history) + 1)
  /\ UNCHANGED <<tags, npm, publishing, report>>

(* workflow_dispatch on dev, or an old run started again from its page. *)
RunAgain(commit) ==
  /\ Enqueue(commit)
  /\ UNCHANGED <<history, proposal, tags, npm, publishing, report>>

----------------------------------------------------------------------------
(* sync-core-tag.ts *)

(* The job ends; the run that waited starts. *)
EndJob ==
  /\ tagJob' = IF waiting = 0 THEN NoTagJob ELSE [NoTagJob EXCEPT !.pc = "deciding", !.head = waiting]
  /\ waiting' = 0

(* latestCoreVersionFromTags: the highest version tagged, at its commit. *)
NoTag == [version |-> <<0, 0>>, at |-> 0, by |-> "none"]
Latest ==
  IF tags = {} THEN NoTag
  ELSE CHOOSE t \in tags : \A u \in tags : ~Lower(t.version, u.version)

(* git merge-base --is-ancestor, for commits of dev's history. *)
InHistoryOf(tag, head) == tag.at # 0 /\ tag.at <= head

TemplateTreeChanged(tag, head) ==
  \E p \in ReleasePathspecs : history[tag.at].tree[p] # history[head].tree[p]

(* Mutant: the highest tag is not looked for in the commit's history. *)
MayReleaseAnywhere(tag, head) ==
  tag = NoTag \/ tag.at = 0 \/ (tag.at # head /\ TemplateTreeChanged(tag, head))

MayRelease(tag, head) ==
  \/ tag = NoTag
  \/ InHistoryOf(tag, head) /\ tag.at # head /\ TemplateTreeChanged(tag, head)

(* decideRelease: a bump of the highest tag, when there is something to    *)
(* release; otherwise the run ends, in error when that tag is off dev.     *)
DecideRelease ==
  /\ tagJob.pc = "deciding"
  /\ IF MayRelease(Latest, tagJob.head)
     THEN /\ tagJob' = [tagJob EXCEPT !.pc = "pushing",
                      !.version = ApplyBump(Latest.version, BumpKindFor(history[tagJob.head].subject))]
          /\ UNCHANGED waiting
     ELSE EndJob
  /\ UNCHANGED <<history, proposal, tags, npm, publishing, report>>

TaggedVersions == {t.version : t \in tags}

(* git tag and git push: refused when someone pushed that tag meanwhile. *)
PushTag ==
  /\ tagJob.pc = "pushing"
  /\ IF tagJob.version \in TaggedVersions
     THEN EndJob /\ UNCHANGED tags
     ELSE /\ tags' = tags \cup {[version |-> tagJob.version, at |-> tagJob.head, by |-> "workflow"]}
          /\ tagJob' = [tagJob EXCEPT !.pc = "dispatching"]
          /\ UNCHANGED waiting
  /\ UNCHANGED <<history, proposal, npm, publishing, report>>

(* A tag pushed with the job's own token triggers nothing: the next step   *)
(* of the workflow asks for the publish run, from the step's output.       *)
DispatchReleases ==
  /\ tagJob.pc = "dispatching"
  /\ publishing' = publishing \cup {tagJob.version}
  /\ EndJob
  /\ UNCHANGED <<history, proposal, tags, npm, report>>

(* The runner is lost, or a git or gh call fails: the job ends there. *)
JobFails ==
  /\ tagJob # NoTagJob
  /\ EndJob
  /\ UNCHANGED <<history, proposal, tags, npm, publishing, report>>

----------------------------------------------------------------------------
(* A person pushes a tag, on a commit of dev or on another; that push does *)
(* trigger publish-cli.yml.                                                *)
HandTag(version, commit) ==
  /\ version \notin TaggedVersions
  /\ Cardinality({t \in tags : t.by = "hand"}) < MaxHandTags
  /\ tags' = tags \cup {[version |-> version, at |-> commit, by |-> "hand"]}
  /\ publishing' = publishing \cup {version}
  /\ UNCHANGED <<history, proposal, tagJob, waiting, npm, report>>

(* publish-cli.yml, dispatched again by hand for a tag. *)
PublishAgain(version) ==
  /\ publishing' = publishing \cup {version}
  /\ UNCHANGED <<history, proposal, tags, tagJob, waiting, npm, report>>

CommitOf(version) == (CHOOSE t \in tags : t.version = version).at
Holds(version) == \E r \in npm : r.version = version

(* describePublishFailure, for a refusal because the version exists; a     *)
(* gitHead the registry does not report leaves the question open.          *)
PublishVerdict(version, reported) ==
  CASE ~reported -> "unestablished"
    [] reported /\ [version |-> version, gitHead |-> CommitOf(version)] \in npm -> "intact"
    [] OTHER -> "conflicting"

(* What the other failures are told as: a re-run is safe, but for those    *)
(* npm has accepted and not answered.                                      *)
Unaccepted == {"no credentials", "not published"}

(* npm publish from the tag's checkout.  npm may refuse the credentials,   *)
(* fail for a reason the workflow does not recognise, or accept the        *)
(* package and lose the answer; a version it holds it refuses.             *)
Publish(version) ==
  /\ version \in publishing
  /\ publishing' = publishing \ {version}
  /\ LET accepted == npm \cup {[version |-> version, gitHead |-> CommitOf(version)]} IN
     \/ ~Holds(version) /\ npm' = accepted /\ report' = "published"
     \/ ~Holds(version) /\ npm' = accepted /\ report' = "not published"
     \/ Holds(version) /\ UNCHANGED npm
        /\ \E reported \in BOOLEAN : report' = PublishVerdict(version, reported)
     \/ UNCHANGED npm /\ report' \in Unaccepted
  /\ UNCHANGED <<history, proposal, tags, tagJob, waiting>>

----------------------------------------------------------------------------
ReleaseInit ==
  /\ history = <<>> /\ proposal = NoProposal
  /\ tags = {} /\ tagJob = NoTagJob /\ waiting = 0
  /\ npm = {} /\ publishing = {} /\ report = "none"

ReleaseNext ==
  \/ \E t \in Subjects, s \in SUBSET ManifestPaths : s # {} /\ OpenProposal(t, s)
  \/ CheckReleaseSubject
  \/ \E t \in Subjects : Retitle(t)
  \/ Merge
  \/ \E c \in 1..Len(history) : RunAgain(c)
  \/ DecideRelease
  \/ PushTag
  \/ DispatchReleases
  \/ JobFails
  \/ \E v \in HandVersions, c \in 0..Len(history) : HandTag(v, c)
  \/ \E v \in TaggedVersions : PublishAgain(v)
  \/ \E v \in publishing : Publish(v)

ReleaseSpec == ReleaseInit /\ [][ReleaseNext]_releaseVars

----------------------------------------------------------------------------
(* The versions the workflow tags grow along dev's history, whichever run  *)
(* was started again and whatever tag was pushed beside it, and a commit   *)
(* has one: an instance that upgrades to a higher version never goes back  *)
(* in time.  Only a tag pushed by hand on dev, between the two, can lift   *)
(* an earlier commit above a later one.                                    *)
VersionsFollowDev ==
  \A a, b \in {t \in tags : t.by = "workflow"} :
    a.at <= b.at /\ Lower(b.version, a.version) =>
      \E h \in tags : /\ h.by = "hand" /\ h.at \in 1..a.at
                      /\ Lower(b.version, h.version) /\ Lower(h.version, a.version)
=============================================================================
