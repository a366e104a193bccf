------------------------- MODULE Repository_proofs -------------------------
(* Proofs about what keeps the template repository and those made from it: the
   closing keywords of a pull request, the branch reaper, the creation of a plugin
   repository, the release and the ownership guard. *)
EXTENDS ClosingKeywords, BranchReaper, PluginRepository, ReleaseTrain, OwnershipGuard,
        FiniteSetTheorems, SequenceTheorems, WellFoundedInduction, TLAPS

-----------------------------------------------------------------------------
(* ClosingKeywords, for every set of documents and every number
   of rewrites. *)

Readings ==
  {NoReading} \cup
  [at : {"body", "title", "messages", "links", "diff"}, d : Drafts,
   linked : BOOLEAN, current : BOOLEAN]

KeywordsTypeOK ==
  /\ draft \in Drafts
  /\ rewrites \in Nat
  /\ unsent \in BOOLEAN
  /\ reading \in Readings
  /\ verdict \in {"none", "running", "green", "red"}
  /\ entry \in {"out", "in", "outdated"}
  /\ mergedIn \in BOOLEAN

\* The guard, had it read everything at once.
Sound == Assess(draft, LinkedIssues(draft))

\* What a run for the head has read so far is what the pull request says, unless
\* an event that will cancel the run is on its way.
ReadSoFar ==
  reading # NoReading /\ ~unsent /\ reading.current =>
    /\ reading.d.deployOnly = draft.deployOnly
    /\ reading.at \in {"title", "messages", "links", "diff"} =>
         reading.d.body = draft.body /\ reading.d.trailer = draft.trailer
    /\ reading.at \in {"messages", "links", "diff"} => reading.d.title = draft.title
    /\ reading.at \in {"links", "diff"} => reading.d.messages = draft.messages
    /\ reading.at = "diff" => reading.linked = LinkedIssues(draft)

GreenIsSound == verdict = "green" /\ ~unsent => Sound
QueuedIsSound == entry = "in" => Sound
MergedIsSound == mergedIn => unsent \/ entry = "outdated" \/ Sound

KeywordsInv ==
  KeywordsTypeOK /\ ReadSoFar /\ GreenIsSound /\ QueuedIsSound /\ MergedIsSound

-----------------------------------------------------------------------------

\* At first nothing is read, checked, queued or merged.
LEMMA KeywordsInitially == KeywordsInit => KeywordsInv
<1> SUFFICES ASSUME KeywordsInit
             PROVE  KeywordsInv
  OBVIOUS
<1>1. /\ draft \in Drafts /\ rewrites = 0 /\ unsent = TRUE /\ mergedIn = FALSE
      /\ reading = NoReading /\ verdict = "none" /\ entry = "out"
  BY DEF KeywordsInit
<1>2. KeywordsTypeOK
  BY <1>1 DEF KeywordsTypeOK, Readings
<1>3. ReadSoFar /\ GreenIsSound /\ QueuedIsSound /\ MergedIsSound
  BY <1>1 DEF ReadSoFar, GreenIsSound, QueuedIsSound, MergedIsSound
<1> QED
  BY <1>2, <1>3 DEF KeywordsInv

\* A run that starts has read nothing and vouches for nothing.
LEMMA StartsKeep ==
  ASSUME KeywordsInv, ~mergedIn, DeliverEvent \/ RunAnew
  PROVE  KeywordsInv'
<1>1. StartRun /\ UNCHANGED <<draft, rewrites, entry, mergedIn>> /\ unsent' \in BOOLEAN
  BY DEF DeliverEvent, RunAnew, KeywordsInv, KeywordsTypeOK
<1>2. reading' = [at |-> "body", d |-> draft, linked |-> FALSE, current |-> TRUE]
  BY <1>1 DEF StartRun
<1>3. KeywordsTypeOK'
  BY <1>1, <1>2 DEF StartRun, KeywordsInv, KeywordsTypeOK, Readings
<1>4. ReadSoFar'
  BY <1>1, <1>2 DEF ReadSoFar
<1>5. GreenIsSound' /\ QueuedIsSound' /\ MergedIsSound'
  BY <1>1 DEF StartRun, GreenIsSound, QueuedIsSound, MergedIsSound, KeywordsInv, Sound
<1> QED
  BY <1>3, <1>4, <1>5 DEF KeywordsInv

\* What a read adds is what the pull request says at that moment.
LEMMA ReadsKeep ==
  ASSUME KeywordsInv, ~mergedIn, ReadBody \/ ReadTitle \/ ReadMessages \/ ReadLinks
  PROVE  KeywordsInv'
<1>0. /\ UNCHANGED <<draft, rewrites, unsent, verdict, entry, mergedIn>>
      /\ reading.at \in {"body", "title", "messages", "links"}
  BY DEF ReadBody, ReadTitle, ReadMessages, ReadLinks, Reads
<1>1. reading \in [at : {"body", "title", "messages", "links", "diff"}, d : Drafts,
                  linked : BOOLEAN, current : BOOLEAN]
  BY <1>0 DEF KeywordsInv, KeywordsTypeOK, Readings, NoReading
<1>2. LinkedIssues(draft) \in BOOLEAN /\ draft \in Drafts
  BY DEF LinkedIssues, KeywordsInv, KeywordsTypeOK
<1>3. reading' \in Readings /\ ReadSoFar'
  <2>1. CASE ReadBody
    <3>1. reading' = [at |-> "title", d |-> [reading.d EXCEPT !.body = draft.body, !.trailer = draft.trailer],
                      linked |-> reading.linked, current |-> reading.current]
      BY <2>1, <1>1 DEF ReadBody, Drafts
    <3>2. reading'.d \in Drafts /\ reading' \in Readings
      BY <3>1, <1>1, <1>2 DEF Readings, Drafts
    <3>3. reading.at = "body" /\ (~unsent /\ reading.current => reading.d.deployOnly = draft.deployOnly)
      BY <2>1, <1>1 DEF ReadBody, Reads, KeywordsInv, ReadSoFar, NoReading
    <3> QED
      BY <3>1, <3>2, <3>3, <1>0, <1>1, <1>2 DEF ReadSoFar, KeywordsInv, Drafts, NoReading
  <2>2. CASE ReadTitle
    <3>1. reading' = [at |-> "messages", d |-> [reading.d EXCEPT !.title = draft.title],
                      linked |-> reading.linked, current |-> reading.current]
      BY <2>2, <1>1 DEF ReadTitle, Drafts
    <3>2. reading'.d \in Drafts /\ reading' \in Readings
      BY <3>1, <1>1, <1>2 DEF Readings, Drafts
    <3>3. reading.at = "title" /\ (~unsent /\ reading.current => reading.d.deployOnly = draft.deployOnly)
      BY <2>2, <1>1 DEF ReadTitle, Reads, KeywordsInv, ReadSoFar, NoReading
    <3> QED
      BY <3>1, <3>2, <3>3, <1>0, <1>1, <1>2 DEF ReadSoFar, KeywordsInv, Drafts, NoReading
  <2>3. CASE ReadMessages
    <3>1. reading' = [at |-> "links", d |-> [reading.d EXCEPT !.messages = draft.messages],
                      linked |-> reading.linked, current |-> reading.current]
      BY <2>3, <1>1 DEF ReadMessages, Drafts
    <3>2. reading'.d \in Drafts /\ reading' \in Readings
      BY <3>1, <1>1, <1>2 DEF Readings, Drafts
    <3>3. reading.at = "messages" /\ (~unsent /\ reading.current => reading.d.deployOnly = draft.deployOnly)
      BY <2>3, <1>1 DEF ReadMessages, Reads, KeywordsInv, ReadSoFar, NoReading
    <3> QED
      BY <3>1, <3>2, <3>3, <1>0, <1>1, <1>2 DEF ReadSoFar, KeywordsInv, Drafts, NoReading
  <2>4. CASE ReadLinks
    <3>1. reading' = [at |-> "diff", d |-> reading.d,
                      linked |-> LinkedIssues(draft), current |-> reading.current]
      BY <2>4, <1>1 DEF ReadLinks, Drafts
    <3>2. reading'.d \in Drafts /\ reading' \in Readings
      BY <3>1, <1>1, <1>2 DEF Readings, Drafts
    <3>3. reading.at = "links" /\ (~unsent /\ reading.current => reading.d.deployOnly = draft.deployOnly)
      BY <2>4, <1>1 DEF ReadLinks, Reads, KeywordsInv, ReadSoFar, NoReading
    <3> QED
      BY <3>1, <3>2, <3>3, <1>0, <1>1, <1>2 DEF ReadSoFar, KeywordsInv, Drafts, NoReading
  <2> QED
    BY <2>1, <2>2, <2>3, <2>4
<1>4. KeywordsTypeOK'
  BY <1>0, <1>3 DEF KeywordsInv, KeywordsTypeOK
<1>5. GreenIsSound' /\ QueuedIsSound' /\ MergedIsSound'
  BY <1>0 DEF GreenIsSound, QueuedIsSound, MergedIsSound, KeywordsInv, Sound
<1> QED
  BY <1>3, <1>4, <1>5 DEF KeywordsInv

\* A run for the head that says green has read the pull request as it is.
LEMMA ConclusionsKeep ==
  ASSUME KeywordsInv, ~mergedIn, Judge \/ FailToRead
  PROVE  KeywordsInv'
<1>0. /\ UNCHANGED <<draft, rewrites, unsent, entry, mergedIn>>
      /\ reading' = NoReading
      /\ verdict' \in {verdict, "green", "red"}
  BY DEF Judge, FailToRead, Conclusion
<1>1. KeywordsTypeOK'
  BY <1>0 DEF KeywordsInv, KeywordsTypeOK, Readings
<1>2. ReadSoFar'
  BY <1>0 DEF ReadSoFar
<1>3. QueuedIsSound' /\ MergedIsSound'
  BY <1>0 DEF QueuedIsSound, MergedIsSound, KeywordsInv, Sound
<1>4. GreenIsSound'
  <2>1. SUFFICES ASSUME verdict' = "green", ~unsent'
                 PROVE  Sound'
    BY DEF GreenIsSound
  <2>2. CASE verdict' = verdict
    BY <2>1, <2>2, <1>0 DEF GreenIsSound, KeywordsInv, Sound
  <2>3. CASE verdict' # verdict
    <3>1. Judge /\ reading.current /\ Assess(reading.d, reading.linked)
      BY <2>1, <2>3 DEF Judge, FailToRead, Conclusion
    <3>2. reading.at = "diff" /\ reading # NoReading
      BY <3>1 DEF Judge, NoReading
    <3>3. reading.d \in Drafts /\ draft \in Drafts
      BY <3>2 DEF KeywordsInv, KeywordsTypeOK, Readings
    <3>4. /\ reading.d.deployOnly = draft.deployOnly
          /\ reading.d.body = draft.body /\ reading.d.trailer = draft.trailer
          /\ reading.d.title = draft.title /\ reading.d.messages = draft.messages
          /\ reading.linked = LinkedIssues(draft)
      BY <3>1, <3>2, <2>1, <1>0 DEF ReadSoFar, KeywordsInv
    <3>5. reading.d = draft
      BY <3>3, <3>4 DEF Drafts
    <3> QED
      BY <3>1, <3>4, <3>5, <1>0 DEF Sound
  <2> QED
    BY <2>2, <2>3
<1> QED
  BY <1>1, <1>2, <1>3, <1>4 DEF KeywordsInv

\* A rewrite is announced, which ends what a run or a place in the queue vouched for.
LEMMA RewritesKeep ==
  ASSUME KeywordsInv, NEW body \in BodyTexts, NEW trailer \in BOOLEAN, NEW title \in TitleTexts,
         Rewrite(body, trailer, title)
  PROVE  KeywordsInv'
<1>1. draft' \in Drafts
  BY DEF Rewrite, Types, KeywordsInv, KeywordsTypeOK, Drafts
<1>2. unsent' = TRUE /\ ~mergedIn' /\ entry' \in {"out", "outdated"}
  BY DEF Rewrite, Types, MayRewrite, Outdated
<1>3. KeywordsTypeOK'
  BY <1>1, <1>2 DEF Rewrite, Types, MayRewrite, KeywordsInv, KeywordsTypeOK
<1> QED
  BY <1>2, <1>3 DEF KeywordsInv, ReadSoFar, GreenIsSound, QueuedIsSound, MergedIsSound

LEMMA PushesKeep ==
  ASSUME KeywordsInv, NEW messages \in MessageTexts, NEW deployOnly \in BOOLEAN,
         PushCommits(messages, deployOnly)
  PROVE  KeywordsInv'
<1>1. draft' \in Drafts
  BY DEF PushCommits, KeywordsInv, KeywordsTypeOK, Drafts
<1>2. reading' \in Readings
  BY DEF PushCommits, KeywordsInv, KeywordsTypeOK, Readings
<1>3. unsent' = TRUE /\ ~mergedIn' /\ entry' = "out"
  BY DEF PushCommits, Types, MayRewrite
<1>4. KeywordsTypeOK'
  BY <1>1, <1>2, <1>3 DEF PushCommits, Types, MayRewrite, KeywordsInv, KeywordsTypeOK
<1> QED
  BY <1>3, <1>4 DEF KeywordsInv, ReadSoFar, GreenIsSound, QueuedIsSound, MergedIsSound

\* A merge and a place in the queue rest on the green check; the queue looks at nothing.
LEMMA MergesKeep ==
  ASSUME KeywordsInv, MergeNow \/ JoinQueue \/ MergeQueued
  PROVE  KeywordsInv'
<1>1. UNCHANGED <<draft, rewrites, unsent, reading, verdict>>
  BY DEF MergeNow, JoinQueue, MergeQueued
<1>2. KeywordsTypeOK' /\ ReadSoFar' /\ GreenIsSound' /\ (Sound' <=> Sound)
  BY <1>1 DEF MergeNow, JoinQueue, MergeQueued, KeywordsInv, KeywordsTypeOK, ReadSoFar,
              GreenIsSound, Sound
<1>3. QueuedIsSound' /\ MergedIsSound'
  BY <1>1, <1>2 DEF MergeNow, JoinQueue, MergeQueued, KeywordsInv, KeywordsTypeOK,
                    GreenIsSound, QueuedIsSound, MergedIsSound
<1> QED
  BY <1>2, <1>3 DEF KeywordsInv

-----------------------------------------------------------------------------

LEMMA KeywordsStep == KeywordsInv /\ [KeywordsNext]_keywordVars => KeywordsInv'
<1> SUFFICES ASSUME KeywordsInv, [KeywordsNext]_keywordVars
             PROVE  KeywordsInv'
  OBVIOUS
<1>1. CASE UNCHANGED keywordVars
  BY <1>1 DEF keywordVars, KeywordsInv, KeywordsTypeOK, ReadSoFar, GreenIsSound,
              QueuedIsSound, MergedIsSound, Sound
<1>2. CASE KeywordsNext
  BY <1>2, StartsKeep, ReadsKeep, ConclusionsKeep, RewritesKeep, PushesKeep, MergesKeep
     DEF KeywordsNext
<1> QED
  BY <1>1, <1>2

LEMMA KeywordsHold == KeywordsSpec => []KeywordsInv
<1> QED
  BY KeywordsInitially, KeywordsStep, PTL DEF KeywordsSpec

\* A draft the guard passes closes only what somebody asked for.
LEMMA SoundCloses ==
  ASSUME Sound
  PROVE  /\ ~Negated(draft)
         /\ LinkedIssues(draft) => Deliberate(draft)
         /\ ClosedByMessages(draft) => Deliberate(draft) \/ (draft.deployOnly /\ draft.trailer)
         /\ draft.deployOnly /\ ~draft.trailer => Hits(draft) = {}
<1>1. ClosedByMessages(draft) => Hits(draft) # {}
  BY DEF ClosedByMessages, Hits, Documents
<1> QED
  BY <1>1 DEF Sound, Assess, ClosedByMessages

(* A merge closes no issue against its author's word or unasked, whatever
   documents people write and however often they rewrite them between the four
   reads of the guard, its runs and the merge (check-closing-keywords.mjs,
   release-guards.yml). *)
THEOREM MergesCloseWhatWasAsked == KeywordsSpec => []MergeClosesWhatWasAsked
<1>1. KeywordsInv => MergeClosesWhatWasAsked
  BY SoundCloses DEF KeywordsInv, MergedIsSound, MergeClosesWhatWasAsked
<1> QED
  BY <1>1, KeywordsHold, PTL

-----------------------------------------------------------------------------
(* BranchReaper: `biffo doctor --fix' costs nobody a commit or an
   edit, for every number of branches, commits, scans and steps of sessions. *)

Branch == [tip : SUBSET Commits, origin : SUBSET Commits, seen : BOOLEAN, known : SUBSET Commits]
Pull == [open : BOOLEAN, closed : BOOLEAN, merged : SUBSET Commits]
WorktreeState == {NoTree} \cup [kind : {"tree"}, detached : BOOLEAN, dirty : BOOLEAN,
                       claim : {"none", "young", "old"}]
Case == [branch : Topics \cup {"none"},
         step : {"none", "clean?", "pull request?", "contained?", "reap"}]
Run == [pc : {"worktrees", "judge tree", "judge branch", "verdict"},
        branches : SUBSET Topics, worktrees : SUBSET Topics, todo : SUBSET Topics, at : Case]

ReaperTypeOK ==
  /\ topic \in [Topics -> Branch]
  /\ pull \in [Topics -> Pull]
  /\ tree \in [Topics -> WorktreeState]
  /\ doctor \in {Well} \cup Run

\* The doctor judges one branch at a time.
JudgesABranch == doctor.at.step # "none" => doctor.at.branch \in Topics

\* A pull request is of a pushed branch; what was pushed last has every commit of the
\* branch that was ever merged.
PushedHasMerged ==
  \A b \in Topics :
    /\ pull[b].open => topic[b].origin # {}
    /\ topic[b].origin # {} => topic[b].tip \cap pull[b].merged \subseteq topic[b].origin

\* A branch about to be deleted is merged, unless its worktree stands and git refuses.
ReapIsDue ==
  doctor.at.step = "reap" /\ doctor.pc = "judge branch" =>
    LET b == doctor.at.branch
    IN  \/ topic[b].tip \subseteq pull[b].merged
        \/ Standing(b) /\ ~tree[b].detached

ReaperInv == ReaperTypeOK /\ JudgesABranch /\ PushedHasMerged /\ ReapIsDue
-----------------------------------------------------------------------------

\* A commit that somebody makes is one of the branch's commits, and new.
LEMMA NewCommitIsNew ==
  ASSUME NEW b, MoreToCommit(b)
  PROVE  NewCommit(b) \in Commits /\ NewCommit(b) \notin Held(b)
BY DEF MoreToCommit, NewCommit

\* A doctor that is done judges nothing.
LEMMA IdleDoctor ==
  Well.pc = "idle" /\ Well.at.step = "none" /\ Well.at = NoCase /\ NoCase.step = "none"
BY DEF Well, NoCase

\* At first every branch has one commit, which nobody pushed.
LEMMA ReaperInitially == ReaperInit => ReaperInv
<1> SUFFICES ASSUME ReaperInit
             PROVE  ReaperInv
  OBVIOUS
<1>1. ReaperTypeOK
  BY FirstAssumption DEF ReaperInit, ReaperTypeOK, Branch, Pull, WorktreeState, NewTree
<1>2. PushedHasMerged
  BY DEF ReaperInit, PushedHasMerged
<1>3. JudgesABranch /\ ReapIsDue
  BY IdleDoctor DEF ReaperInit, JudgesABranch, ReapIsDue
<1> QED
  BY <1>1, <1>2, <1>3 DEF ReaperInv

-----------------------------------------------------------------------------
(* The doctor *)

\* Gathering facts starts at the worktrees or at the verdict, and fetches.
LEMMA GatherKeeps ==
  ASSUME ReaperInv, GatherRepoFacts
  PROVE  ReaperInv'
<1>1. PICK online \in BOOLEAN, fix \in BOOLEAN :
        /\ topic' = Fetched(online)
        /\ doctor' = [pc |-> IF fix THEN "worktrees" ELSE "verdict",
                      branches |-> {b \in Topics : Alive(b)} \ {primary},
                      worktrees |-> {b \in Topics : Standing(b) /\ ~tree[b].detached},
                      todo |-> {}, at |-> NoCase]
  BY DEF GatherRepoFacts
<1>2. UNCHANGED <<pull, tree>>
  BY DEF GatherRepoFacts
<1>3. /\ topic' \in [Topics -> Branch]
      /\ \A b \in Topics : topic'[b].tip = topic[b].tip /\ topic'[b].origin = topic[b].origin
  BY <1>1 DEF Fetched, ReaperInv, ReaperTypeOK, Branch
<1>4. doctor' \in Run /\ doctor'.at.step = "none"
  BY <1>1 DEF Run, Case, NoCase
<1>5. ReaperTypeOK'
  BY <1>2, <1>3, <1>4 DEF ReaperInv, ReaperTypeOK
<1>6. PushedHasMerged'
  BY <1>2, <1>3 DEF PushedHasMerged, ReaperInv
<1> QED
  BY <1>4, <1>5, <1>6 DEF ReaperInv, JudgesABranch, ReapIsDue, Standing

\* The steps in which the doctor looks, and changes nothing.
LEMMA LooksKeep ==
  ASSUME ReaperInv,
         \/ ReportFindings \/ FindReapCandidates \/ FindBareBranchCandidates \/ DoctorEnds
         \/ WorktreeIsGone \/ CheckClean \/ JudgeBranch \/ AskVerdict \/ AskContained
  PROVE  ReaperInv'
<1>1. UNCHANGED <<topic, pull, tree>>
  BY DEF ReportFindings, FindReapCandidates, FindBareBranchCandidates, DoctorEnds, WorktreeIsGone,
         CheckClean, JudgeBranch, AskVerdict, AskContained, sessionVars
<1>2. doctor # Well => doctor \in Run
  BY DEF ReaperInv, ReaperTypeOK
<1>3. doctor' \in {Well} \cup Run /\ JudgesABranch' /\ ReapIsDue'
  <2>0. doctor' = Well => JudgesABranch' /\ ReapIsDue'
    BY IdleDoctor DEF JudgesABranch, ReapIsDue, Standing
  <2>1. CASE ReportFindings \/ WorktreeIsGone
    BY <2>0, <2>1 DEF ReportFindings, WorktreeIsGone
  <2>2. CASE FindReapCandidates
    <3>1. doctor \in Run
      BY <2>2, <1>2, IdleDoctor DEF FindReapCandidates
    <3>2. GoneRemote(doctor.branches) \subseteq Topics
      BY <3>1 DEF GoneRemote, Run
    <3> QED
      BY <2>2, <3>1, <3>2 DEF FindReapCandidates, Run, JudgesABranch, ReapIsDue, Standing, ReaperInv
  <2>3. CASE FindBareBranchCandidates
    <3>1. doctor \in Run
      BY <2>3, <1>2, IdleDoctor DEF FindBareBranchCandidates
    <3>2. GoneRemote(doctor.branches) \subseteq Topics
      BY <3>1 DEF GoneRemote, Run
    <3>3. doctor' \in Run /\ doctor'.at = NoCase
      BY <2>3, <3>1, <3>2 DEF FindBareBranchCandidates, Run
    <3> QED
      BY <3>3, IdleDoctor DEF JudgesABranch, ReapIsDue, Standing
  <2>4. CASE DoctorEnds
    <3>1. doctor \in Run
      BY <2>4, <1>2, IdleDoctor DEF DoctorEnds
    <3>2. doctor' \in Run /\ doctor'.at = NoCase
      BY <2>4, <3>1 DEF DoctorEnds, Run
    <3> QED
      BY <3>2, IdleDoctor DEF JudgesABranch, ReapIsDue, Standing
  <2>5. CASE CheckClean \/ AskVerdict \/ AskContained
    <3>1. doctor \in Run /\ doctor.at.branch \in Topics
      BY <2>5, <1>2, IdleDoctor
         DEF CheckClean, AskVerdict, AskContained, ReaperInv, JudgesABranch
    <3>2. CASE Keep
      BY <3>1, <3>2 DEF Keep, Run, Case, NoCase, JudgesABranch, ReapIsDue, Standing
    <3>3. CASE doctor' = [doctor EXCEPT !.at.step = "pull request?"]
      BY <3>1, <3>3 DEF Run, Case, JudgesABranch, ReapIsDue, Standing
    <3>4. CASE doctor' = [doctor EXCEPT !.at.step = "contained?"]
      BY <3>1, <3>4 DEF Run, Case, JudgesABranch, ReapIsDue, Standing
    <3>5. CASE AskContained /\ ~Keep
      <4>1. /\ doctor' = [doctor EXCEPT !.at.step = "reap"]
            /\ doctor.pc # "judge tree" => Alive(doctor.at.branch)
            /\ topic[doctor.at.branch].tip \subseteq pull[doctor.at.branch].merged
        BY <3>5 DEF AskContained, MergeContains
      <4>2. doctor' \in Run /\ doctor'.at.branch = doctor.at.branch
        BY <3>1, <4>1 DEF Run, Case
      <4> QED
        BY <3>1, <4>1, <4>2, <1>1 DEF Run, Case, JudgesABranch, ReapIsDue, Standing
    <3> QED
      BY <2>0, <2>5, <3>2, <3>3, <3>4, <3>5 DEF CheckClean, AskVerdict
  <2>6. CASE JudgeBranch
    <3>1. doctor \in Run
      BY <2>6, <1>2, IdleDoctor DEF JudgeBranch
    <3>2. PICK b \in doctor.todo : AskNext(b, "pull request?")
      BY <2>6 DEF JudgeBranch
    <3>3. b \in Topics
      BY <3>1, <3>2 DEF Run
    <3> QED
      BY <3>1, <3>2, <3>3 DEF AskNext, Run, Case, JudgesABranch, ReapIsDue, Standing
  <2> QED
    BY <2>1, <2>2, <2>3, <2>4, <2>5, <2>6
<1>4. ReaperTypeOK' /\ PushedHasMerged'
  BY <1>1, <1>3 DEF ReaperInv, ReaperTypeOK, PushedHasMerged
<1> QED
  BY <1>3, <1>4 DEF ReaperInv

\* A claim that has aged is cleared; a live one ends the judging.
LEMMA ClaimsKeep ==
  ASSUME ReaperInv, CheckClaim
  PROVE  ReaperInv'
<1>1. PICK b \in doctor.todo :
        /\ Standing(b)
        /\ tree' = IF tree[b].claim = "old" THEN [tree EXCEPT ![b].claim = "none"] ELSE tree
        /\ IF tree[b].claim = "young" \/ tree[b].detached
           THEN doctor' = [doctor EXCEPT !.todo = @ \ {b}] ELSE AskNext(b, "clean?")
  BY DEF CheckClaim
<1>2. doctor.pc = "judge tree" /\ doctor.at = NoCase /\ UNCHANGED <<topic, pull>>
  BY DEF CheckClaim
<1>3. doctor \in Run /\ b \in Topics
  BY <1>1, <1>2, IdleDoctor DEF ReaperInv, ReaperTypeOK, Run
<1>4. tree' \in [Topics -> WorktreeState]
  <2>1. tree[b] \in WorktreeState /\ tree[b] # NoTree
    BY <1>1, <1>3 DEF ReaperInv, ReaperTypeOK, Standing
  <2>2. [tree[b] EXCEPT !.claim = "none"] \in WorktreeState
    BY <2>1 DEF WorktreeState
  <2> QED
    BY <1>1, <1>3, <2>1, <2>2 DEF ReaperInv, ReaperTypeOK
<1>5. doctor' \in Run /\ doctor'.pc = "judge tree" /\ JudgesABranch'
  <2>1. CASE doctor' = [doctor EXCEPT !.todo = @ \ {b}]
    BY <1>2, <1>3, <2>1, IdleDoctor DEF Run, JudgesABranch
  <2>2. CASE AskNext(b, "clean?")
    BY <1>2, <1>3, <2>2 DEF AskNext, Run, Case, JudgesABranch
  <2> QED
    BY <1>1, <2>1, <2>2
<1>6. ReapIsDue'
  BY <1>5 DEF ReapIsDue, Standing
<1> QED
  BY <1>2, <1>4, <1>5, <1>6 DEF ReaperInv, ReaperTypeOK, PushedHasMerged

\* What is reaped is a worktree, a branch, or nothing; the judging is over.
LEMMA ReapKeeps ==
  ASSUME ReaperInv, Reap
  PROVE  ReaperInv'
<1>1. doctor \in Run /\ doctor.at.branch \in Topics /\ UNCHANGED pull
  BY IdleDoctor DEF Reap, ReaperInv, ReaperTypeOK, JudgesABranch
<1>2. doctor' \in Run /\ doctor'.at = NoCase
  BY <1>1 DEF Reap, Keep, Run, Case, NoCase
<1>3. topic' \in [Topics -> Branch] /\ PushedHasMerged'
  <2>1. CASE UNCHANGED topic
    BY <1>1, <2>1 DEF ReaperInv, ReaperTypeOK, PushedHasMerged
  <2>2. CASE topic' = [topic EXCEPT ![doctor.at.branch].tip = {}]
    BY <1>1, <2>2 DEF ReaperInv, ReaperTypeOK, PushedHasMerged, Branch
  <2> QED
    BY <2>1, <2>2 DEF Reap
<1>4. tree' \in [Topics -> WorktreeState]
  BY <1>1 DEF Reap, ReaperInv, ReaperTypeOK, WorktreeState
<1> QED
  BY <1>1, <1>2, <1>3, <1>4, IdleDoctor
     DEF ReaperInv, ReaperTypeOK, JudgesABranch, ReapIsDue, Standing

-----------------------------------------------------------------------------
(* The sessions, and GitHub *)

\* What sessions do to worktrees: none of a branch being judged goes, or leaves it.
LEMMA WorktreesKeep ==
  ASSUME ReaperInv,
         Edit \/ Claim \/ ClaimAges \/ Detach \/ CloseWorktree \/ OpenWorktree
  PROVE  ReaperInv'
<1>1. UNCHANGED <<topic, pull, doctor>>
  BY DEF Edit, Claim, ClaimAges, Detach, CloseWorktree, OpenWorktree, Move, InWorktree
<1>2. PICK b \in Topics, new \in WorktreeState :
        /\ tree' = [tree EXCEPT ![b] = new]
        /\ Judged(b) /\ Standing(b) /\ ~tree[b].detached => new # NoTree /\ ~new.detached
  <2>1. \A b \in Topics : Standing(b) => tree[b] \in WorktreeState \ {NoTree}
    BY DEF ReaperInv, ReaperTypeOK, Standing
  <2>2. NewTree \in WorktreeState /\ NoTree \in WorktreeState
    BY DEF NewTree, WorktreeState
  <2>3. CASE Edit \/ Claim \/ ClaimAges
    <3>1. PICK b \in Topics :
            /\ Standing(b)
            /\ \E new : /\ tree' = [tree EXCEPT ![b] = new]
                        /\ \/ new = [tree[b] EXCEPT !.dirty = TRUE]
                           \/ new = [tree[b] EXCEPT !.claim = "young"]
                           \/ new = [tree[b] EXCEPT !.claim = "old"]
      BY <2>3 DEF Edit, Claim, ClaimAges, InWorktree
    <3>2. PICK new : /\ tree' = [tree EXCEPT ![b] = new]
                     /\ \/ new = [tree[b] EXCEPT !.dirty = TRUE]
                        \/ new = [tree[b] EXCEPT !.claim = "young"]
                        \/ new = [tree[b] EXCEPT !.claim = "old"]
      BY <3>1
    <3>3. tree[b] \in WorktreeState \ {NoTree}
      BY <2>1, <3>1
    <3>4. new \in WorktreeState \ {NoTree} /\ new.detached = tree[b].detached
      BY <3>2, <3>3 DEF WorktreeState, NoTree
    <3> QED
      BY <3>2, <3>4
  <2>4. CASE Detach
    <3>1. PICK b \in Topics :
            /\ Standing(b) /\ ~Judged(b)
            /\ tree' = [tree EXCEPT ![b] = [tree[b] EXCEPT !.detached = ~@]]
      BY <2>4 DEF Detach, InWorktree
    <3>2. [tree[b] EXCEPT !.detached = ~@] \in WorktreeState
      BY <2>1, <3>1 DEF WorktreeState, NoTree
    <3> QED
      BY <3>1, <3>2
  <2>5. CASE CloseWorktree \/ OpenWorktree
    BY <2>2, <2>5 DEF CloseWorktree, OpenWorktree, InWorktree
  <2> QED
    BY <2>3, <2>4, <2>5
<1>3. ReaperTypeOK'
  BY <1>1, <1>2 DEF ReaperInv, ReaperTypeOK
<1>4. ReapIsDue'
  BY <1>1, <1>2 DEF ReaperInv, ReaperTypeOK, ReapIsDue, Judged, Standing, JudgesABranch
<1> QED
  BY <1>1, <1>3, <1>4 DEF ReaperInv, JudgesABranch, PushedHasMerged

\* A commit is made in a standing worktree, and nobody has merged it.
LEMMA CommitsKeep ==
  ASSUME ReaperInv, CommitWork
  PROVE  ReaperInv'
<1>1. PICK b \in Topics :
        /\ Standing(b) /\ ~tree[b].detached /\ MoreToCommit(b)
        /\ tree' = [tree EXCEPT ![b] = [tree[b] EXCEPT !.dirty = FALSE]]
        /\ topic' = [topic EXCEPT ![b].tip = @ \cup {NewCommit(b)},
                                  ![b].known = @ \cup {NewCommit(b)}]
  BY DEF CommitWork, InWorktree
<1>2. UNCHANGED <<pull, doctor>>
  BY DEF CommitWork, InWorktree, Move
<1>3. NewCommit(b) \in Commits /\ NewCommit(b) \notin pull[b].merged
  BY <1>1, NewCommitIsNew DEF Held
<1>4. [tree[b] EXCEPT !.dirty = FALSE] \in WorktreeState \ {NoTree}
  BY <1>1 DEF ReaperInv, ReaperTypeOK, Standing, WorktreeState, NoTree
<1>5. tree'[b] # NoTree /\ ~tree'[b].detached
  BY <1>1, <1>4 DEF ReaperInv, ReaperTypeOK, Standing, WorktreeState, NoTree
<1>6. topic' \in [Topics -> Branch]
  BY <1>1, <1>3 DEF ReaperInv, ReaperTypeOK, Branch
<1>7. \A a \in Topics :
        /\ topic'[a].origin = topic[a].origin
        /\ topic'[a].tip = IF a = b THEN topic[b].tip \cup {NewCommit(b)} ELSE topic[a].tip
  BY <1>1 DEF ReaperInv, ReaperTypeOK, Branch
<1>8. ReaperTypeOK'
  BY <1>1, <1>2, <1>4, <1>6 DEF ReaperInv, ReaperTypeOK
<1>9. PushedHasMerged'
  BY <1>2, <1>3, <1>7 DEF ReaperInv, PushedHasMerged
<1>10. ReapIsDue'
  BY <1>1, <1>2, <1>5, <1>7 DEF ReaperInv, ReaperTypeOK, JudgesABranch, ReapIsDue, Standing
<1> QED
  BY <1>2, <1>8, <1>9, <1>10 DEF ReaperInv, JudgesABranch

\* A push adds to what GitHub has of a branch, or is of all the branch has here.
LEMMA PushKeeps ==
  ASSUME ReaperInv, PushWork
  PROVE  ReaperInv'
<1>1. PICK b \in Topics :
        \/ /\ topic[b].tip # {}
           /\ topic' = [topic EXCEPT ![b].origin = topic[b].tip, ![b].seen = TRUE]
        \/ /\ topic[b].origin # {} /\ MoreToCommit(b)
           /\ topic' = [topic EXCEPT ![b].origin = topic[b].origin \cup {NewCommit(b)}]
  BY DEF PushWork, Alive
<1>2. UNCHANGED <<pull, tree, doctor>>
  BY DEF PushWork, Move
<1>3. topic \in [Topics -> Branch] /\ (MoreToCommit(b) => NewCommit(b) \in Commits)
  BY NewCommitIsNew DEF ReaperInv, ReaperTypeOK
<1>4. /\ topic' \in [Topics -> Branch]
      /\ \A a \in Topics : topic'[a].tip = topic[a].tip
      /\ \A a \in Topics : a # b => topic'[a].origin = topic[a].origin
      /\ topic'[b].origin # {}
      /\ topic'[b].origin = topic[b].tip
           \/ (topic[b].origin # {} /\ topic[b].origin \subseteq topic'[b].origin)
  <2>1. CASE /\ topic[b].tip # {}
             /\ topic' = [topic EXCEPT ![b].origin = topic[b].tip, ![b].seen = TRUE]
    BY <1>3, <2>1 DEF Branch
  <2>2. CASE /\ topic[b].origin # {} /\ MoreToCommit(b)
             /\ topic' = [topic EXCEPT ![b].origin = topic[b].origin \cup {NewCommit(b)}]
    BY <1>3, <2>2 DEF Branch
  <2> QED
    BY <1>1, <2>1, <2>2
<1>5. PushedHasMerged'
  BY <1>2, <1>4 DEF ReaperInv, PushedHasMerged
<1> QED
  BY <1>2, <1>4, <1>5 DEF ReaperInv, ReaperTypeOK, JudgesABranch, ReapIsDue, Standing

\* What gets merged is what was pushed last, and has all that was merged before.
LEMMA PullsKeep ==
  ASSUME ReaperInv, OpenPull \/ ResolvePull \/ SwitchPrimary
  PROVE  ReaperInv'
<1>1. UNCHANGED <<tree, doctor>>
  BY DEF OpenPull, ResolvePull, SwitchPrimary, Move
<1>2. topic \in [Topics -> Branch] /\ pull \in [Topics -> Pull]
  BY DEF ReaperInv, ReaperTypeOK
<1>3. CASE OpenPull
  <2>1. PICK b \in Topics : /\ topic[b].origin # {} /\ UNCHANGED topic
                            /\ pull' = [pull EXCEPT ![b].open = TRUE]
    BY <1>3 DEF OpenPull
  <2>2. /\ pull' \in [Topics -> Pull]
        /\ \A a \in Topics : pull'[a].merged = pull[a].merged
        /\ \A a \in Topics : a # b => pull'[a].open = pull[a].open
    BY <1>2, <2>1 DEF Pull
  <2>3. PushedHasMerged'
    BY <2>1, <2>2 DEF ReaperInv, PushedHasMerged
  <2> QED
    BY <1>1, <2>1, <2>2, <2>3 DEF ReaperInv, ReaperTypeOK, JudgesABranch, ReapIsDue, Standing
<1>4. CASE ResolvePull
  <2>1. PICK b \in Topics :
          /\ pull[b].open
          /\ topic' = [topic EXCEPT ![b].origin = {}]
          /\ \/ pull' = [pull EXCEPT ![b].open = FALSE, ![b].merged = topic[b].origin]
             \/ pull' = [pull EXCEPT ![b].open = FALSE, ![b].closed = TRUE]
    BY <1>4 DEF ResolvePull
  <2>2. topic[b].origin # {} /\ topic[b].tip \cap pull[b].merged \subseteq topic[b].origin
    BY <2>1 DEF ReaperInv, PushedHasMerged
  <2>3. /\ topic' \in [Topics -> Branch]
        /\ \A a \in Topics : topic'[a].tip = topic[a].tip
        /\ \A a \in Topics : a # b => topic'[a].origin = topic[a].origin
        /\ topic'[b].origin = {}
    BY <1>2, <2>1 DEF Branch
  <2>4. /\ pull' \in [Topics -> Pull]
        /\ \A a \in Topics : a # b => pull'[a] = pull[a]
        /\ ~pull'[b].open
        /\ pull'[b].merged = pull[b].merged \/ pull'[b].merged = topic[b].origin
    <3>1. pull[b] \in Pull /\ topic[b].origin \in SUBSET Commits
      BY <1>2 DEF Branch
    <3>2. CASE pull' = [pull EXCEPT ![b].open = FALSE, ![b].merged = topic[b].origin]
      <4>1. pull' = [pull EXCEPT ![b] = [pull[b] EXCEPT !.open = FALSE, !.merged = topic[b].origin]]
        BY <1>2, <3>2
      <4>2. [pull[b] EXCEPT !.open = FALSE, !.merged = topic[b].origin] \in Pull
        BY <3>1 DEF Pull
      <4> QED
        BY <1>2, <3>1, <4>1, <4>2 DEF Pull
    <3>3. CASE pull' = [pull EXCEPT ![b].open = FALSE, ![b].closed = TRUE]
      <4>1. pull' = [pull EXCEPT ![b] = [pull[b] EXCEPT !.open = FALSE, !.closed = TRUE]]
        BY <1>2, <3>3
      <4>2. [pull[b] EXCEPT !.open = FALSE, !.closed = TRUE] \in Pull
        BY <3>1 DEF Pull
      <4> QED
        BY <1>2, <3>1, <4>1, <4>2 DEF Pull
    <3> QED
      BY <2>1, <3>2, <3>3
  <2>5. PushedHasMerged'
    BY <2>3, <2>4 DEF ReaperInv, PushedHasMerged
  <2>6. ReapIsDue'
    BY <1>1, <2>2, <2>3, <2>4 DEF ReaperInv, JudgesABranch, ReapIsDue, Standing
  <2> QED
    BY <1>1, <2>3, <2>4, <2>5, <2>6 DEF ReaperInv, ReaperTypeOK, JudgesABranch
<1>5. CASE SwitchPrimary
  BY <1>1, <1>5
     DEF SwitchPrimary, ReaperInv, ReaperTypeOK, PushedHasMerged, JudgesABranch, ReapIsDue, Standing
<1> QED
  BY <1>3, <1>4, <1>5

-----------------------------------------------------------------------------

LEMMA ReaperStep == ReaperInv /\ [ReaperNext]_reaperVars => ReaperInv'
<1> SUFFICES ASSUME ReaperInv, [ReaperNext]_reaperVars
             PROVE  ReaperInv'
  OBVIOUS
<1>1. CASE UNCHANGED reaperVars
  BY <1>1 DEF reaperVars, ReaperInv, ReaperTypeOK, PushedHasMerged, JudgesABranch, ReapIsDue, Standing
<1>2. CASE DoctorStep
  BY <1>2, GatherKeeps, LooksKeep, ClaimsKeep, ReapKeeps DEF DoctorStep
<1>3. CASE SessionStep
  BY <1>3, WorktreesKeep, CommitsKeep, PushKeeps, PullsKeep DEF SessionStep
<1> QED
  BY <1>1, <1>2, <1>3 DEF ReaperNext

LEMMA ReaperHolds == ReaperSpec => []ReaperInv
<1> QED
  BY ReaperInitially, ReaperStep, PTL DEF ReaperSpec

\* Only the doctor deletes a branch.
LEMMA OnlyReapDeletes ==
  ASSUME ReaperInv, [ReaperNext]_reaperVars, NEW b \in Topics,
         topic[b].tip # {}, topic'[b].tip = {}
  PROVE  Reap /\ doctor.pc = "judge branch" /\ doctor.at.branch = b /\ MayDeleteBranch(b)
<1>1. topic \in [Topics -> Branch]
  BY DEF ReaperInv, ReaperTypeOK
<1>2. topic' # topic
  OBVIOUS
<1>3. CASE GatherRepoFacts
  <2>1. PICK online \in BOOLEAN : topic' = Fetched(online)
    BY <1>3 DEF GatherRepoFacts
  <2>2. topic'[b].tip = topic[b].tip
    BY <1>1, <2>1 DEF Fetched, Branch
  <2> QED
    BY <2>2
<1>4. CASE CommitWork
  <2>1. PICK a \in Topics : topic' = [topic EXCEPT ![a].tip = @ \cup {NewCommit(a)},
                                                   ![a].known = @ \cup {NewCommit(a)}]
    BY <1>4 DEF CommitWork
  <2> QED
    BY <1>1, <2>1 DEF Branch
<1>5. CASE PushWork
  <2>1. PICK a \in Topics :
          \/ topic' = [topic EXCEPT ![a].origin = topic[a].tip, ![a].seen = TRUE]
          \/ topic' = [topic EXCEPT ![a].origin = topic[a].origin \cup {NewCommit(a)}]
    BY <1>5 DEF PushWork
  <2>2. topic'[b].tip = topic[b].tip
    BY <1>1, <2>1 DEF Branch
  <2> QED
    BY <2>2
<1>6. CASE ResolvePull
  <2>1. PICK a \in Topics : topic' = [topic EXCEPT ![a].origin = {}]
    BY <1>6 DEF ResolvePull
  <2>2. topic'[b].tip = topic[b].tip
    BY <1>1, <2>1 DEF Branch
  <2> QED
    BY <2>2
<1>7. CASE Reap
  <2>1. /\ doctor.pc = "judge branch" /\ MayDeleteBranch(doctor.at.branch)
        /\ topic' = [topic EXCEPT ![doctor.at.branch].tip = {}]
    BY <1>2, <1>7 DEF Reap
  <2>2. doctor.at.branch = b
    BY <1>1, <2>1 DEF Branch
  <2> QED
    BY <1>7, <2>1, <2>2
<1> QED
  BY <1>2, <1>3, <1>4, <1>5, <1>6, <1>7
     DEF ReaperNext, DoctorStep, SessionStep, reaperVars, ReportFindings, FindReapCandidates,
         FindBareBranchCandidates, DoctorEnds, CheckClaim, WorktreeIsGone, CheckClean, JudgeBranch,
         AskVerdict, AskContained, sessionVars, Edit, Claim, ClaimAges, Detach, CloseWorktree,
         OpenWorktree, OpenPull, SwitchPrimary

(* A branch that `biffo doctor --fix' deletes has nothing that was not merged,
   however many commits, pushes and merges fall between its questions. *)
THEOREM DeletesOnlyShipped == ReaperSpec => DeletedBranchesHaveShipped
<1>1. ASSUME ReaperInv, [ReaperNext]_reaperVars
      PROVE  \A b \in Topics :
               topic[b].tip # {} /\ topic'[b].tip = {} => topic[b].tip \subseteq pull[b].merged
  <2> SUFFICES ASSUME NEW b \in Topics, topic[b].tip # {}, topic'[b].tip = {}
               PROVE  topic[b].tip \subseteq pull[b].merged
    OBVIOUS
  <2>1. Reap /\ doctor.pc = "judge branch" /\ doctor.at.branch = b /\ MayDeleteBranch(b)
    BY <1>1, OnlyReapDeletes
  <2> QED
    BY <1>1, <2>1 DEF Reap, MayDeleteBranch, ReaperInv, ReapIsDue
<1>2. ReaperInv /\ [ReaperNext]_reaperVars =>
        [\A b \in Topics :
           topic[b].tip # {} /\ topic'[b].tip = {} => topic[b].tip \subseteq pull[b].merged]_reaperVars
  BY <1>1
<1> QED
  BY <1>2, ReaperHolds, PTL DEF ReaperSpec, DeletedBranchesHaveShipped

\* Clearing an aged claim leaves the worktree standing.
LEMMA ClaimsLeaveWorktrees ==
  ASSUME ReaperInv, CheckClaim, NEW b \in Topics, tree[b] # NoTree
  PROVE  tree'[b] # NoTree
<1>1. PICK a \in doctor.todo :
        /\ Standing(a)
        /\ tree' = IF tree[a].claim = "old" THEN [tree EXCEPT ![a].claim = "none"] ELSE tree
  BY DEF CheckClaim
<1>2. tree \in [Topics -> WorktreeState] /\ tree[b] \in WorktreeState \ {NoTree}
  BY DEF ReaperInv, ReaperTypeOK
<1>3. [tree[b] EXCEPT !.claim = "none"] # NoTree
  BY <1>2 DEF WorktreeState, NoTree
<1> QED
  BY <1>1, <1>2, <1>3

(* A worktree that `biffo doctor --fix' removes has no uncommitted work and no
   claim at that moment, and its branch keeps its commits. *)
THEOREM SparesSessions == ReaperSpec => SessionsKeepTheirWorktree
<1> DEFINE A == \A b \in Topics :
                  doctor.pc = "judge tree" /\ doctor' # doctor /\ tree[b] # NoTree /\ tree'[b] = NoTree =>
                    ~tree[b].dirty /\ tree[b].claim = "none" /\ topic'[b].tip = topic[b].tip
<1>1. ASSUME ReaperInv, [ReaperNext]_reaperVars
      PROVE  A
  <2> SUFFICES ASSUME NEW b \in Topics,
                      doctor.pc = "judge tree", doctor' # doctor, tree[b] # NoTree, tree'[b] = NoTree
               PROVE  ~tree[b].dirty /\ tree[b].claim = "none" /\ topic'[b].tip = topic[b].tip
    OBVIOUS
  <2>1. DoctorStep
    BY <1>1 DEF ReaperNext, reaperVars, SessionStep, Edit, CommitWork, Claim, ClaimAges, Detach,
                CloseWorktree, OpenWorktree, PushWork, OpenPull, ResolvePull, SwitchPrimary, Move
  <2>2. tree' # tree
    OBVIOUS
  <2>3. Reap
    BY <1>1, <2>1, <2>2, ClaimsLeaveWorktrees
       DEF DoctorStep, GatherRepoFacts, ReportFindings, FindReapCandidates, FindBareBranchCandidates,
           DoctorEnds, WorktreeIsGone, CheckClean, JudgeBranch, AskVerdict, AskContained, sessionVars
  <2>4. MayRemoveWorktree(doctor.at.branch) /\ UNCHANGED topic
        /\ tree' = [tree EXCEPT ![doctor.at.branch] = NoTree]
    BY <2>2, <2>3 DEF Reap
  <2>5. doctor.at.branch = b
    BY <1>1, <2>4 DEF ReaperInv, ReaperTypeOK
  <2> QED
    BY <2>4, <2>5 DEF MayRemoveWorktree, Unclean
<1>2. ReaperInv /\ [ReaperNext]_reaperVars => [A]_reaperVars
  BY <1>1
<1> QED
  BY <1>2, ReaperHolds, PTL DEF ReaperSpec, SessionsKeepTheirWorktree

-----------------------------------------------------------------------------
(* The creation of a plugin repository: the order of its steps and what each left behind on
   the remote. *)

Steps == {"scaffold", "commit", "refuse", "repository", "label", "push", "default",
          "protect", "seal", "skip", "register"}
Bound == [checks |-> "jobs", admins |-> TRUE]
Remotes == [exists : BOOLEAN, pushed : BOOLEAN, head : {"main", "dev"}, label : BOOLEAN,
            firstRun : {"none", "hosted", "fleet"},
            protection : [checks : {"none", "jobs", "workflows"}, admins : BOOLEAN]]

\* Which step follows which, and which may be the last.
Order == {<<"scaffold", "commit">>, <<"scaffold", "refuse">>, <<"commit", "repository">>,
          <<"repository", "label">>, <<"label", "push">>, <<"push", "default">>,
          <<"default", "protect">>, <<"default", "skip">>, <<"protect", "seal">>,
          <<"seal", "register">>, <<"skip", "register">>}
Final == {"scaffold", "commit", "refuse", "seal", "skip", "register"}
InOrder(s) == s \in Seq(Steps) /\ \A i \in 1..Len(s) - 1 : <<s[i], s[i + 1]>> \in Order
Complete(s) == InOrder(s) /\ Len(s) > 0 /\ s[Len(s)] \in Final

\* Before dev is sealed its checks are required; after that, and after a protection that
\* was not to be had, the run has recorded what is missing.
Midway(c, repo) ==
  /\ Complete(c.steps)
  /\ Head(c.steps) = "seal" => repo.protection.checks = "jobs"
  /\ Head(c.steps) = "register" => Named(c.outcomes) \/ repo.protection = Bound

RepositoryInv ==
  /\ pluginRepo \in Remotes
  /\ create # NoCreate => Midway(create, pluginRepo)

-----------------------------------------------------------------------------
(* Sequences of steps *)

LEMMA TailIsComplete ==
  ASSUME NEW s, Complete(s), Len(s) # 1
  PROVE  Complete(Tail(s)) /\ <<Head(s), Head(Tail(s))>> \in Order
<1>0. s \in Seq(Steps) /\ Len(s) \in Nat /\ Len(s) > 1
  <2>1. s \in Seq(Steps) /\ Len(s) > 0
    BY DEF Complete, InOrder
  <2> QED
    BY <2>1
<1>1. /\ s \in Seq(Steps) /\ Len(s) \in Nat /\ Len(s) > 1 /\ Tail(s) \in Seq(Steps)
      /\ Len(Tail(s)) = Len(s) - 1 /\ \A i \in 1..Len(s) - 1 : Tail(s)[i] = s[i + 1]
  BY <1>0
<1>2. \A i \in 1..Len(Tail(s)) - 1 : <<Tail(s)[i], Tail(s)[i + 1]>> \in Order
  <2> SUFFICES ASSUME NEW i \in 1..Len(Tail(s)) - 1
               PROVE  <<Tail(s)[i], Tail(s)[i + 1]>> \in Order
    OBVIOUS
  <2>1. i + 1 \in 1..Len(s) - 1 /\ Tail(s)[i] = s[i + 1] /\ Tail(s)[i + 1] = s[(i + 1) + 1]
    BY <1>1
  <2> QED
    BY <2>1 DEF Complete, InOrder
<1>3. Tail(s)[Len(Tail(s))] = s[Len(s)]
  BY <1>1
<1>4. Head(s) = s[1] /\ Head(Tail(s)) = s[2]
  BY <1>1
<1> QED
  BY <1>1, <1>2, <1>3, <1>4 DEF Complete, InOrder

LEMMA TailOf ==
  ASSUME NEW s \in Seq(Steps), Len(s) >= 1
  PROVE  /\ Tail(s) \in Seq(Steps) /\ Len(Tail(s)) = Len(s) - 1
         /\ \A i \in 1..Len(s) - 1 : Tail(s)[i] = s[i + 1]
OBVIOUS

LEMMA ThreeOrMore ==
  ASSUME NEW n \in Nat, n > 0, n # 1, n # 2
  PROVE  n >= 3
OBVIOUS

LEMMA AfterTwo ==
  ASSUME NEW s \in Seq(Steps), Len(s) >= 3
  PROVE  SubSeq(s, 3, Len(s)) = Tail(Tail(s))
<1>1. /\ Len(s) \in Nat /\ Tail(s) \in Seq(Steps) /\ Len(Tail(s)) = Len(s) - 1
      /\ \A i \in 1..Len(s) - 1 : Tail(s)[i] = s[i + 1]
  OBVIOUS
<1>2. /\ Tail(Tail(s)) \in Seq(Steps) /\ Len(Tail(Tail(s))) = Len(s) - 2
      /\ \A i \in 1..Len(s) - 2 : Tail(Tail(s))[i] = Tail(s)[i + 1]
  <2>1. Len(Tail(s)) >= 1 /\ Len(Tail(s)) - 1 = Len(s) - 2
    BY <1>1
  <2> QED
    BY <1>1, <2>1, TailOf
<1>3. /\ SubSeq(s, 3, Len(s)) \in Seq(Steps) /\ Len(SubSeq(s, 3, Len(s))) = Len(s) - 2
      /\ \A i \in 1..Len(s) - 2 : SubSeq(s, 3, Len(s))[i] = s[i + 2]
  BY <1>1
<1>4. \A i \in 1..Len(s) - 2 : SubSeq(s, 3, Len(s))[i] = Tail(Tail(s))[i]
  <2> TAKE i \in 1..Len(s) - 2
  <2>1. i + 1 \in 1..Len(s) - 1 /\ (i + 1) + 1 = i + 2
    BY <1>1
  <2> QED
    BY <1>1, <1>2, <1>3, <2>1
<1> QED
  BY <1>2, <1>3, <1>4, SeqEqual

\* A step that may not be the last has one after it.
LEMMA NotTheLast ==
  ASSUME NEW s, Complete(s), Head(s) \notin Final
  PROVE  Len(s) # 1
BY DEF Complete, InOrder

LEMMA Concatenated ==
  ASSUME NEW s, NEW t, InOrder(s), InOrder(t), Len(s) > 0, Len(t) > 0,
         <<s[Len(s)], t[1]>> \in Order
  PROVE  /\ InOrder(s \o t) /\ Len(s \o t) > 0
         /\ (s \o t)[1] = s[1] /\ (s \o t)[Len(s \o t)] = t[Len(t)]
<1>1. /\ s \in Seq(Steps) /\ t \in Seq(Steps) /\ s \o t \in Seq(Steps)
      /\ Len(s) \in Nat /\ Len(t) \in Nat /\ Len(s \o t) = Len(s) + Len(t)
      /\ \A i \in 1..Len(s) : (s \o t)[i] = s[i]
      /\ \A i \in 1..Len(t) : (s \o t)[Len(s) + i] = t[i]
  BY DEF InOrder
<1>2. \A i \in 1..Len(s \o t) - 1 : <<(s \o t)[i], (s \o t)[i + 1]>> \in Order
  <2> SUFFICES ASSUME NEW i \in 1..Len(s \o t) - 1
               PROVE  <<(s \o t)[i], (s \o t)[i + 1]>> \in Order
    OBVIOUS
  <2>0. i \in Nat /\ i <= Len(s) + Len(t) - 1
    BY <1>1
  <2>1. CASE i < Len(s)
    <3>1. i \in 1..Len(s) - 1 /\ i \in 1..Len(s) /\ i + 1 \in 1..Len(s)
      BY <1>1, <2>1
    <3> QED
      BY <1>1, <3>1 DEF InOrder
  <2>2. CASE i = Len(s)
    <3>1. 1 \in 1..Len(t) /\ i \in 1..Len(s)
      BY <1>1, <2>2
    <3> QED
      BY <1>1, <2>2, <3>1
  <2>3. CASE i > Len(s)
    <3>0. i - Len(s) \in 1..Len(t) - 1 /\ i = Len(s) + (i - Len(s))
      BY <1>1, <2>0, <2>3
    <3>1. PICK k \in 1..Len(t) - 1 : i = Len(s) + k
      BY <3>0
    <3>2. k \in 1..Len(t) /\ k + 1 \in 1..Len(t) /\ i + 1 = Len(s) + (k + 1)
      BY <1>1, <3>1
    <3> QED
      BY <1>1, <3>1, <3>2 DEF InOrder
  <2>4. i < Len(s) \/ i = Len(s) \/ i > Len(s)
    BY <1>1, <2>0
  <2> QED
    BY <2>1, <2>2, <2>3, <2>4
<1>3. 1 \in 1..Len(s) /\ Len(t) \in 1..Len(t)
  BY <1>1
<1> QED
  BY <1>1, <1>2, <1>3 DEF InOrder

LEMMA Plans ==
  /\ InOrder(<<"repository", "label", "push", "default">>)
  /\ InOrder(<<"protect", "seal">>) /\ InOrder(<<"skip">>) /\ InOrder(<<"register">>)
  /\ InOrder(<<"scaffold">>) /\ InOrder(<<"commit">>) /\ InOrder(<<"refuse">>)
<1> USE DEF InOrder, Steps, Order
<1>1. InOrder(<<"repository", "label", "push", "default">>)
  OBVIOUS
<1>2. InOrder(<<"protect", "seal">>)
  OBVIOUS
<1>3. InOrder(<<"skip">>) /\ InOrder(<<"register">>)
  OBVIOUS
<1>4. InOrder(<<"scaffold">>) /\ InOrder(<<"commit">>) /\ InOrder(<<"refuse">>)
  OBVIOUS
<1> QED
  BY <1>1, <1>2, <1>3, <1>4

LEMMA AndNothing == ASSUME NEW s, InOrder(s) PROVE s \o <<>> = s
BY DEF InOrder

\* The steps against GitHub end protected or skipped, and perhaps registered.
LEMMA RemoteStepsAreComplete ==
  ASSUME NEW o
  PROVE  Complete(RemoteSteps(o)) /\ RemoteSteps(o)[1] = "repository"
<1> DEFINE register == IF o.register THEN <<"register">> ELSE <<>>
           front == <<"repository", "label", "push", "default">>
           middle == ProtectionSteps(o.contexts)
           both == front \o middle
<1>1. InOrder(front) /\ Len(front) > 0 /\ front[1] = "repository" /\ front[Len(front)] = "default"
  BY Plans
<1>2. /\ InOrder(middle) /\ Len(middle) > 0 /\ middle[1] \in {"protect", "skip"}
      /\ middle[Len(middle)] \in {"seal", "skip"}
  BY Plans DEF ProtectionSteps
<1>3. RemoteSteps(o) = both \o register
  BY DEF RemoteSteps
<1> HIDE DEF front, middle
<1>4. <<front[Len(front)], middle[1]>> \in Order
  BY <1>1, <1>2 DEF Order
<1>5. /\ InOrder(both) /\ Len(both) > 0 /\ both[1] = "repository"
      /\ both[Len(both)] \in {"seal", "skip"}
  BY <1>1, <1>2, <1>4, Concatenated
<1> HIDE DEF both
<1>6. CASE o.register
  <2> DEFINE last == <<"register">>
  <2>1. RemoteSteps(o) = both \o last
    BY <1>3, <1>6
  <2>2. InOrder(last) /\ Len(last) > 0 /\ last[1] = "register" /\ last[Len(last)] = "register"
    BY Plans
  <2> HIDE DEF last
  <2>3. <<both[Len(both)], last[1]>> \in Order
    BY <1>5, <2>2 DEF Order
  <2> QED
    BY <1>5, <2>1, <2>2, <2>3, Concatenated DEF Complete, Final
<1>7. CASE ~o.register
  <2>1. RemoteSteps(o) = both
    BY <1>3, <1>5, <1>7, AndNothing
  <2> QED
    BY <1>5, <2>1 DEF Complete, Final
<1> QED
  BY <1>6, <1>7

LEMMA HeadOfConcat ==
  ASSUME NEW s \in Seq(Steps), NEW t \in Seq(Steps), Len(s) > 0
  PROVE  s \o t \in Seq(Steps) /\ Head(s \o t) = s[1] /\ Head(s) = s[1] /\ Len(s \o t) > 0
<1>1. /\ s \o t \in Seq(Steps) /\ Len(s \o t) = Len(s) + Len(t) /\ Len(s) \in Nat /\ Len(t) \in Nat
      /\ \A i \in 1..Len(s) : (s \o t)[i] = s[i]
  OBVIOUS
<1>2. 1 \in 1..Len(s) /\ Len(s \o t) > 0
  BY <1>1
<1> QED
  BY <1>1, <1>2

LEMMA StepsBeginWithScaffold ==
  ASSUME NEW o \in RunOptions
  PROVE  Head(RepositorySteps(o)) = "scaffold"
<1> DEFINE scaffold == <<"scaffold">>
<1>1. PICK s \in Seq(Steps), t \in Seq(Steps) : RepositorySteps(o) = scaffold \o s \o t
  <2>1. <<"commit">> \in Seq(Steps) /\ <<"refuse">> \in Seq(Steps) /\ RemoteSteps(o) \in Seq(Steps)
    BY Plans, RemoteStepsAreComplete DEF Complete, InOrder
  <2>2. <<>> \in Seq(Steps) /\ o.commit \in BOOLEAN /\ o.org \in BOOLEAN
    BY DEF RunOptions
  <2> QED
    BY <2>1, <2>2 DEF RepositorySteps
<1>2. scaffold \in Seq(Steps) /\ Len(scaffold) > 0 /\ scaffold[1] = "scaffold"
  BY DEF Steps
<1> HIDE DEF scaffold
<1>3. scaffold \o s \in Seq(Steps) /\ Head(scaffold \o s) = "scaffold" /\ Len(scaffold \o s) > 0
  BY <1>2, HeadOfConcat
<1> QED
  BY <1>1, <1>3, HeadOfConcat

LEMMA StepsAreComplete == \A o \in RunOptions : Complete(RepositorySteps(o))
<1> SUFFICES ASSUME NEW o \in RunOptions PROVE Complete(RepositorySteps(o))
  OBVIOUS
<1> DEFINE scaffold == <<"scaffold">>
           commit == <<"commit">>
           refuse == <<"refuse">>
           remote == RemoteSteps(o)
<1>1. o.commit \in BOOLEAN /\ o.org \in BOOLEAN
  BY DEF RunOptions
<1>2. RepositorySteps(o) = scaffold \o (IF o.commit THEN commit ELSE <<>>)
                             \o (IF ~o.org THEN <<>> ELSE IF ~o.commit THEN refuse ELSE remote)
  BY <1>1 DEF RepositorySteps
<1>3. /\ InOrder(scaffold) /\ Len(scaffold) > 0 /\ scaffold[1] = "scaffold" /\ scaffold[Len(scaffold)] = "scaffold"
      /\ InOrder(commit) /\ Len(commit) > 0 /\ commit[1] = "commit" /\ commit[Len(commit)] = "commit"
      /\ InOrder(refuse) /\ Len(refuse) > 0 /\ refuse[1] = "refuse" /\ refuse[Len(refuse)] = "refuse"
  BY Plans
<1>4. InOrder(remote) /\ Len(remote) > 0 /\ remote[1] = "repository" /\ remote[Len(remote)] \in Final
  BY RemoteStepsAreComplete DEF Complete
<1> HIDE DEF scaffold, commit, refuse, remote
<1>5. /\ <<scaffold[Len(scaffold)], commit[1]>> \in Order
      /\ <<scaffold[Len(scaffold)], refuse[1]>> \in Order
  BY <1>3 DEF Order
<1>6. /\ InOrder(scaffold \o commit) /\ Len(scaffold \o commit) > 0
      /\ (scaffold \o commit)[Len(scaffold \o commit)] = "commit"
      /\ Complete(scaffold \o refuse)
  BY <1>3, <1>5, Concatenated DEF Complete, Final
<1>7. CASE ~o.commit
  <2>1. RepositorySteps(o) = scaffold \o (IF o.org THEN refuse ELSE <<>>)
    BY <1>2, <1>3, <1>7, AndNothing
  <2> QED
    BY <1>3, <1>6, <2>1, AndNothing DEF Complete, Final
<1>8. CASE o.commit
  <2>1. RepositorySteps(o) = scaffold \o commit \o (IF o.org THEN remote ELSE <<>>)
    BY <1>2, <1>8
  <2>2. <<(scaffold \o commit)[Len(scaffold \o commit)], remote[1]>> \in Order
    BY <1>4, <1>6 DEF Order
  <2>3. CASE o.org
    <3> DEFINE begin == scaffold \o commit
    <3>1. /\ InOrder(begin) /\ Len(begin) > 0 /\ <<begin[Len(begin)], remote[1]>> \in Order
          /\ RepositorySteps(o) = begin \o remote
      BY <1>6, <2>1, <2>2, <2>3
    <3> HIDE DEF begin
    <3>2. Complete(begin \o remote)
      BY <1>4, <3>1, Concatenated DEF Complete
    <3> QED
      BY <3>1, <3>2
  <2>4. CASE ~o.org
    BY <1>6, <2>1, <2>4, AndNothing DEF Complete, Final
  <2> QED
    BY <2>3, <2>4
<1> QED
  BY <1>7, <1>8

-----------------------------------------------------------------------------
(* The invariant *)

LEMMA NamedLater == ASSUME NEW outcomes, NEW x, x # "applied" PROVE Named(outcomes \cup {x})
BY DEF Named

LEMMA StillNamed == ASSUME NEW outcomes, NEW x, Named(outcomes) PROVE Named(outcomes \cup {x})
BY DEF Named

\* The run goes on with its next step, with these outcomes and this repository.
LEMMA NextStep ==
  ASSUME NEW outcomes, Proceed(outcomes), RepositoryInv, create # NoCreate, pluginRepo' \in Remotes,
         Head(create.steps) = "protect" => pluginRepo'.protection.checks = "jobs",
         Head(create.steps) = "seal" => Named(outcomes) \/ pluginRepo'.protection = Bound,
         Head(create.steps) = "skip" => Named(outcomes)
  PROVE  RepositoryInv'
<1> DEFINE left == Tail(create.steps)
<1>1. CASE Len(create.steps) = 1
  BY <1>1 DEF Proceed, EndCreate, RepositoryInv
<1>2. CASE Len(create.steps) # 1
  <2>1. Complete(left) /\ <<Head(create.steps), Head(left)>> \in Order
    BY <1>2, TailIsComplete DEF RepositoryInv, Midway
  <2>2. create'.steps = left /\ create'.outcomes = outcomes
    BY <1>2 DEF Proceed
  <2> HIDE DEF left
  <2>3. Head(left) = "seal" => Head(create.steps) = "protect"
    BY <2>1 DEF Order
  <2>4. Head(left) = "register" => Head(create.steps) \in {"seal", "skip"}
    BY <2>1 DEF Order
  <2>5. Midway(create', pluginRepo')
    BY <2>1, <2>2, <2>3, <2>4 DEF Midway
  <2> QED
    BY <2>5 DEF RepositoryInv
<1> QED
  BY <1>1, <1>2

LEMMA EndedRun ==
  ASSUME RepositoryInv, create' = NoCreate, pluginRepo' \in Remotes
  PROVE  RepositoryInv'
BY DEF RepositoryInv

LEMMA LocalStepsKeep ==
  RepositoryInv /\ (Scaffold \/ CommitScaffold \/ RefuseToPush \/ Killed) => RepositoryInv'
<1> SUFFICES ASSUME RepositoryInv, Scaffold \/ CommitScaffold \/ RefuseToPush \/ Killed
             PROVE  RepositoryInv'
  OBVIOUS
<1>1. create # NoCreate /\ pluginRepo' = pluginRepo /\ pluginRepo \in Remotes
  BY DEF Scaffold, CommitScaffold, RefuseToPush, Killed, StepIs, RepositoryInv
<1>2. CASE Proceeds /\ Head(create.steps) \in {"scaffold", "commit"}
  BY <1>1, <1>2, NextStep DEF Proceeds
<1>3. CASE create' = NoCreate
  BY <1>1, <1>3, EndedRun
<1> QED
  BY <1>2, <1>3 DEF Scaffold, CommitScaffold, RefuseToPush, Killed, StepIs, Throws, EndCreate

LEMMA RemoteStepsKeep ==
  RepositoryInv /\ (CreateRepository \/ PropagateRunnerLabel \/ PushDev \/ SetDefaultBranch) => RepositoryInv'
<1> SUFFICES ASSUME RepositoryInv,
                    CreateRepository \/ PropagateRunnerLabel \/ PushDev \/ SetDefaultBranch
             PROVE  RepositoryInv'
  OBVIOUS
<1>1. create # NoCreate /\ Head(create.steps) \in {"repository", "label", "push", "default"}
  BY DEF CreateRepository, PropagateRunnerLabel, PushDev, SetDefaultBranch, StepIs
<1>2. pluginRepo' \in Remotes
  BY DEF CreateRepository, PropagateRunnerLabel, PushDev, SetDefaultBranch, RepositoryInv, Remotes
<1>3. CASE Proceeds
  BY <1>1, <1>2, <1>3, NextStep DEF Proceeds
<1>4. CASE create' = NoCreate
  BY <1>2, <1>4, EndedRun
<1> QED
  BY <1>3, <1>4 DEF CreateRepository, PropagateRunnerLabel, PushDev, SetDefaultBranch, Throws, EndCreate

LEMMA SkipProtectionKeeps == RepositoryInv /\ SkipProtection => RepositoryInv'
<1> SUFFICES ASSUME RepositoryInv, SkipProtection PROVE RepositoryInv'
  OBVIOUS
<1>1. Named(create.outcomes \cup {"skipped-no-contexts"})
  BY NamedLater
<1>2. pluginRepo' \in Remotes
  BY DEF SkipProtection, RepositoryInv
<1> QED
  BY <1>1, <1>2, NextStep DEF SkipProtection, StepIs

LEMMA SealDevKeeps == RepositoryInv /\ SealDev => RepositoryInv'
<1> SUFFICES ASSUME RepositoryInv, SealDev PROVE RepositoryInv'
  OBVIOUS
<1>0. create # NoCreate /\ Head(create.steps) = "seal"
  BY DEF SealDev, StepIs
<1>1. pluginRepo \in Remotes /\ pluginRepo.protection.checks = "jobs"
  BY <1>0 DEF RepositoryInv, Midway
<1>2. CASE pluginRepo' = [pluginRepo EXCEPT !.protection.admins = TRUE] /\ Proceed(create.outcomes \cup {"applied"})
  <2>1. pluginRepo' \in Remotes /\ pluginRepo'.protection = Bound
    BY <1>1, <1>2 DEF Remotes, Bound
  <2> QED
    BY <1>0, <1>2, <2>1, NextStep
<1>3. CASE UNCHANGED pluginRepo /\ Proceed(create.outcomes \cup {"unsealed"})
  <2>1. Named(create.outcomes \cup {"unsealed"})
    BY NamedLater
  <2> QED
    BY <1>0, <1>1, <1>3, <2>1, NextStep
<1> QED
  BY <1>2, <1>3 DEF SealDev

\* Of two steps and no more the second is dropped with the first; otherwise the one after it.
LEMMA ProtectDevKeeps == RepositoryInv /\ ProtectDev => RepositoryInv'
<1> SUFFICES ASSUME RepositoryInv, ProtectDev PROVE RepositoryInv'
  OBVIOUS
<1>0. create # NoCreate /\ Head(create.steps) = "protect" /\ pluginRepo \in Remotes
  BY DEF ProtectDev, StepIs, RepositoryInv
<1>1. CASE /\ pluginRepo' = [pluginRepo EXCEPT !.protection = [checks |-> "jobs", admins |-> FALSE]]
           /\ Proceed(create.outcomes \cup {"applied"})
  <2>1. pluginRepo' \in Remotes /\ pluginRepo'.protection.checks = "jobs"
    BY <1>0, <1>1 DEF Remotes
  <2> QED
    BY <1>0, <1>1, <2>1, NextStep
<1>2. CASE create' = NoCreate /\ UNCHANGED pluginRepo
  BY <1>0, <1>2, EndedRun
<1>3. CASE /\ Len(create.steps) # 2 /\ UNCHANGED pluginRepo
           /\ create' = [steps |-> SubSeq(create.steps, 3, Len(create.steps)),
                         outcomes |-> create.outcomes \cup SkippedOutcome]
  <2> DEFINE s == create.steps
             one == Tail(s)
             two == Tail(one)
  <2>1. Complete(s) /\ s \in Seq(Steps) /\ Len(s) \in Nat /\ Len(s) > 0
    BY <1>0 DEF RepositoryInv, Midway, Complete, InOrder
  <2>2. Len(s) # 1
    BY <1>0, <2>1, NotTheLast DEF Final
  <2>3. Complete(one) /\ <<Head(s), Head(one)>> \in Order
    BY <2>1, <2>2, TailIsComplete
  <2>4. Len(one) = Len(s) - 1 /\ Len(one) # 1
    BY <1>3, <2>1, <2>2
  <2>5. Complete(two) /\ <<Head(one), Head(two)>> \in Order
    BY <2>3, <2>4, TailIsComplete
  <2>6. Head(two) = "register"
    BY <1>0, <2>3, <2>5 DEF Order
  <2>7. SubSeq(s, 3, Len(s)) = two
    <3>1. Len(s) >= 3
      <4>1. Len(s) # 2
        BY <1>3
      <4> QED
        BY <2>1, <2>2, <4>1, ThreeOrMore
    <3> QED
      BY <2>1, <3>1, AfterTwo
  <2> HIDE DEF s, one, two
  <2>8. create'.steps = two /\ Named(create'.outcomes)
    <3>1. create'.steps = two /\ create'.outcomes = create.outcomes \cup {"skipped-403"}
      BY <1>3, <2>7 DEF s, SkippedOutcome
    <3> QED
      BY <3>1, NamedLater
  <2>9. Midway(create', pluginRepo')
    BY <2>5, <2>6, <2>8 DEF Midway
  <2> QED
    BY <1>0, <1>3, <2>9 DEF RepositoryInv
<1> QED
  BY <1>1, <1>2, <1>3 DEF ProtectDev, EndCreate

LEMMA RegisterSourceKeeps == RepositoryInv /\ RegisterSource => RepositoryInv'
BY NextStep DEF RegisterSource, StepIs, Proceeds, RepositoryInv

LEMMA PeopleKeep ==
  ASSUME RepositoryInv, \/ \E o \in RunOptions : StartCreate(o)
                        \/ RemoveDirectory \/ DeleteRepository \/ UpgradePlanOfOrg \/ FixProtection
  PROVE  RepositoryInv'
<1>1. CASE \E o \in RunOptions : StartCreate(o)
  <2> PICK o \in RunOptions : StartCreate(o)
    BY <1>1
  <2>1. create'.steps = RepositorySteps(o) /\ pluginRepo' = pluginRepo
    BY DEF StartCreate
  <2>2. Complete(RepositorySteps(o))
    BY StepsAreComplete
  <2>3. Head(RepositorySteps(o)) = "scaffold"
    BY StepsBeginWithScaffold
  <2> QED
    BY <2>1, <2>2, <2>3 DEF RepositoryInv, Midway
<1>2. CASE RemoveDirectory \/ UpgradePlanOfOrg
  BY <1>2 DEF RemoveDirectory, UpgradePlanOfOrg, RepositoryInv, Midway
<1>3. CASE DeleteRepository \/ FixProtection
  <2>1. create' = NoCreate
    BY <1>3 DEF DeleteRepository, FixProtection
  <2>2. pluginRepo' \in Remotes
    <3>1. NoRemote \in Remotes
      BY DEF Remotes, NoRemote, Unprotected
    <3>2. FixProtection => pluginRepo' \in Remotes
      <4> DEFINE fixed == [checks |-> ObservedChecks, admins |-> TRUE]
      <4>1. fixed \in [checks : {"none", "jobs", "workflows"}, admins : BOOLEAN]
        BY DEF ObservedChecks
      <4>2. FixProtection => pluginRepo' = [pluginRepo EXCEPT !.protection = fixed]
        BY DEF FixProtection
      <4> HIDE DEF fixed
      <4> QED
        BY <4>1, <4>2 DEF RepositoryInv, Remotes
    <3> QED
      BY <1>3, <3>1, <3>2 DEF DeleteRepository
  <2> QED
    BY <2>1, <2>2, EndedRun
<1> QED
  BY <1>1, <1>2, <1>3

LEMMA RepositoryInitially == RepositoryInit => RepositoryInv
BY DEF RepositoryInit, RepositoryInv, NoRemote, Unprotected, Remotes

LEMMA RepositoryInvInductive == RepositoryInv /\ [RepositoryNext]_repositoryVars => RepositoryInv'
<1>1. RepositoryInv /\ UNCHANGED repositoryVars => RepositoryInv'
  BY DEF RepositoryInv, repositoryVars, Midway
<1> QED
  BY <1>1, LocalStepsKeep, RemoteStepsKeep, ProtectDevKeeps, SkipProtectionKeeps, SealDevKeeps,
     RegisterSourceKeeps, PeopleKeep DEF RepositoryNext

-----------------------------------------------------------------------------
\* What a run has said of the repository it leaves.
Truthful ==
  create # NoCreate /\ create' = NoCreate /\ lastTold'.result = "done" /\ pluginRepo'.pushed
    /\ Head(create.steps) # "commit" /\ Head(create.steps) # "scaffold"
  => lastTold'.named \/ pluginRepo'.protection = Bound

LEMMA TheLastStep ==
  ASSUME RepositoryInv, create # NoCreate, Len(create.steps) = 1
  PROVE  Head(create.steps) \in Final
BY NotTheLast DEF RepositoryInv, Midway

LEMMA RunsAreTruthful ==
  ASSUME RepositoryInv, [RepositoryNext]_repositoryVars
  PROVE  Truthful
<1> SUFFICES ASSUME create # NoCreate, create' = NoCreate, lastTold'.result = "done",
                    Head(create.steps) \notin {"commit", "scaffold"}
             PROVE  lastTold'.named \/ pluginRepo'.protection = Bound
  BY DEF Truthful
<1>1. \A outcomes : EndCreate("done", outcomes) /\ Named(outcomes) => lastTold'.named
  BY DEF EndCreate
<1>2. \A outcomes : Proceed(outcomes) => Len(create.steps) = 1 /\ EndCreate("done", outcomes)
  <2>1. ASSUME NEW outcomes, Proceed(outcomes), Len(create.steps) # 1 PROVE FALSE
    <3>1. Complete(Tail(create.steps))
      BY <2>1, TailIsComplete DEF RepositoryInv, Midway
    <3>2. create'.steps = Tail(create.steps)
      BY <2>1 DEF Proceed
    <3>3. create'.steps = <<>> /\ Len(<<>>) = 0
      BY DEF NoCreate
    <3>4. Complete(<<>>)
      BY <3>1, <3>2, <3>3
    <3> QED
      BY <3>3, <3>4 DEF Complete
  <2> QED
    BY <2>1 DEF Proceed
<1>3. ~Throws /\ ~EndCreate("failed", create.outcomes \cup {"failed"})
  BY DEF Throws, EndCreate
<1>4. CASE SealDev
  <2>1. pluginRepo \in Remotes /\ pluginRepo.protection.checks = "jobs"
    BY <1>4 DEF SealDev, StepIs, RepositoryInv, Midway
  <2>2. CASE pluginRepo' = [pluginRepo EXCEPT !.protection.admins = TRUE]
    BY <2>1, <2>2 DEF Remotes, Bound
  <2>3. CASE Proceed(create.outcomes \cup {"unsealed"})
    BY <1>1, <1>2, <2>3, NamedLater
  <2> QED
    BY <1>4, <2>2, <2>3 DEF SealDev
<1>5. CASE SkipProtection
  BY <1>1, <1>2, <1>5, NamedLater DEF SkipProtection
<1>6. CASE RegisterSource
  <2>1. Named(create.outcomes) \/ pluginRepo.protection = Bound
    BY <1>6 DEF RegisterSource, StepIs, RepositoryInv, Midway
  <2> QED
    BY <1>1, <1>2, <1>6, <2>1 DEF RegisterSource, Proceeds
<1>7. CASE ProtectDev
  <2>1. Len(create.steps) # 1
    BY <1>7, TheLastStep DEF ProtectDev, StepIs, Final
  <2>2. EndCreate("done", create.outcomes \cup SkippedOutcome) => lastTold'.named
    BY <1>1, NamedLater DEF SkippedOutcome
  <2>3. CASE create' = [steps |-> SubSeq(create.steps, 3, Len(create.steps)),
                        outcomes |-> create.outcomes \cup SkippedOutcome]
    <3>1. create'.outcomes = create.outcomes \cup SkippedOutcome /\ create'.outcomes = {}
      BY <2>3 DEF NoCreate
    <3> QED
      BY <3>1 DEF SkippedOutcome
  <2> QED
    BY <1>2, <1>3, <1>7, <2>1, <2>2, <2>3 DEF ProtectDev
<1>8. CASE CreateRepository \/ PropagateRunnerLabel \/ PushDev \/ SetDefaultBranch
  <2>1. Head(create.steps) \notin Final
    BY <1>8 DEF CreateRepository, PropagateRunnerLabel, PushDev, SetDefaultBranch, StepIs, Final
  <2> QED
    BY <1>2, <1>3, <1>8, <2>1, TheLastStep
       DEF CreateRepository, PropagateRunnerLabel, PushDev, SetDefaultBranch, Proceeds
<1>9. CASE Scaffold \/ CommitScaffold \/ RefuseToPush
  BY <1>3, <1>9 DEF Scaffold, CommitScaffold, RefuseToPush, StepIs
<1>10. CASE Killed
  BY <1>10 DEF Killed
<1>11. CASE \/ \E o \in RunOptions : StartCreate(o)
            \/ RemoveDirectory \/ DeleteRepository \/ UpgradePlanOfOrg \/ FixProtection
            \/ UNCHANGED repositoryVars
  BY <1>11 DEF StartCreate, RemoveDirectory, DeleteRepository, UpgradePlanOfOrg, FixProtection,
               repositoryVars
<1> QED
  BY <1>4, <1>5, <1>6, <1>7, <1>8, <1>9, <1>10, <1>11 DEF RepositoryNext

\* A run of `biffo plugin create' or of the protection repair that says it is done leaves dev
\* bound by its checks for everyone, or has named the repository, whichever call fell short.
THEOREM DoneMeansBoundOrNamedAlways == RepositorySpec => DoneMeansBoundOrNamed
<1>1. RepositoryInv /\ [RepositoryNext]_repositoryVars
      => [(create # NoCreate /\ create' = NoCreate /\ lastTold'.result = "done" /\ pluginRepo'.pushed
             /\ Head(create.steps) # "commit" /\ Head(create.steps) # "scaffold")
          => lastTold'.named \/ pluginRepo'.protection = [checks |-> "jobs", admins |-> TRUE]]_repositoryVars
  BY RunsAreTruthful DEF Truthful, Bound
<1> QED
  BY <1>1, RepositoryInitially, RepositoryInvInductive, PTL DEF RepositorySpec, DoneMeansBoundOrNamed

-----------------------------------------------------------------------------
(* The release: the tags of the workflow, and the runs of it that are waiting, against dev's
   history. *)

Versions == Nat \X Nat
Proposals == [title : Subjects \cup {""}, touched : SUBSET ManifestPaths,
              check : {"none", "pending", "failed", "passed"}]
DevCommits == [subject : Subjects \cup {""}, tree : [ManifestPaths -> {0, 1}]]
Tags == [version : Versions, at : Nat, by : {"workflow", "hand"}]
Jobs == [pc : {"idle", "deciding", "pushing", "dispatching"}, head : Nat, version : Versions]

ReleaseTypes ==
  /\ history \in Seq(DevCommits) /\ proposal \in Proposals
  /\ tags \subseteq Tags /\ tagJob \in Jobs /\ waiting \in Nat

\* A version is tagged once, and one of the tags is the highest.
OneTagPerVersion == \A t, u \in tags : t.version = u.version => t = u
SomeTagIsHighest == tags = {} \/ \E t \in tags : \A u \in tags : ~Lower(t.version, u.version)

\* Between a lower tag of a later commit, b, and a version at a commit there is one that
\* was pushed by hand.
LiftedByHand(b, version, at) ==
  \E h \in tags : /\ h.by = "hand" /\ h.at \in 1..at
                  /\ Lower(b.version, h.version) /\ Lower(h.version, version)

\* The version a run has decided on is above every version of the workflow's, and what is
\* later in dev's history is below it only for a tag by hand.
DecidedVersion ==
  tagJob.pc = "pushing" =>
    \A b \in tags : b.by = "workflow" =>
      /\ Lower(b.version, tagJob.version)
      /\ tagJob.head <= b.at => LiftedByHand(b, tagJob.version, tagJob.head)

ReleaseInv ==
  ReleaseTypes /\ OneTagPerVersion /\ SomeTagIsHighest /\ DecidedVersion /\ VersionsFollowDev

-----------------------------------------------------------------------------
(* Versions are ordered *)

LEMMA LowerIsAnOrder ==
  ASSUME NEW u \in Versions, NEW v \in Versions, NEW w \in Versions
  PROVE  /\ ~Lower(u, u)
         /\ Lower(u, v) /\ Lower(v, w) => Lower(u, w)
         /\ Lower(u, v) \/ u = v \/ Lower(v, u)
         /\ ~Lower(v, u) /\ ~Lower(w, v) => ~Lower(w, u)
<1>1. PICK u1 \in Nat, u2 \in Nat, v1 \in Nat, v2 \in Nat, w1 \in Nat, w2 \in Nat :
        u = <<u1, u2>> /\ v = <<v1, v2>> /\ w = <<w1, w2>>
  BY DEF Versions
<1> QED
  BY <1>1 DEF Lower

LEMMA BumpIsHigher ==
  ASSUME NEW v \in Versions, NEW kind
  PROVE  ApplyBump(v, kind) \in Versions /\ Lower(v, ApplyBump(v, kind))
<1>1. PICK v1 \in Nat, v2 \in Nat : v = <<v1, v2>>
  BY DEF Versions
<1> QED
  BY <1>1 DEF ApplyBump, Lower, Versions

-----------------------------------------------------------------------------
(* Tags *)

\* One more tag: its version is a new one.
LEMMA OneMoreTag ==
  ASSUME ReleaseInv, NEW t \in Tags, t.version \notin TaggedVersions, tags' = tags \cup {t}
  PROVE  OneTagPerVersion' /\ SomeTagIsHighest'
<1>1. OneTagPerVersion'
  BY DEF ReleaseInv, OneTagPerVersion, TaggedVersions
<1>2. \A u \in tags : u.version \in Versions
  BY DEF ReleaseInv, ReleaseTypes, Tags
<1>3. t.version \in Versions /\ ~Lower(t.version, t.version)
  BY LowerIsAnOrder DEF Tags
<1>0. t \in tags' /\ tags \subseteq tags' /\ \A u \in tags' : u \in tags \/ u = t
  OBVIOUS
<1>4. SomeTagIsHighest'
  <2>1. CASE tags = {}
    BY <1>0, <1>3, <2>1 DEF SomeTagIsHighest
  <2>2. ASSUME NEW m \in tags, \A u \in tags : ~Lower(m.version, u.version)
        PROVE  SomeTagIsHighest'
    <3>1. CASE ~Lower(m.version, t.version)
      BY <1>0, <2>2, <3>1 DEF SomeTagIsHighest
    <3>2. CASE Lower(m.version, t.version)
      <4>1. \A u \in tags : ~Lower(t.version, u.version)
        BY <1>2, <1>3, <2>2, <3>2, LowerIsAnOrder
      <4> QED
        BY <1>0, <1>3, <4>1 DEF SomeTagIsHighest
    <3> QED
      BY <3>1, <3>2
  <2> QED
    BY <2>1, <2>2 DEF ReleaseInv, SomeTagIsHighest
<1> QED
  BY <1>1, <1>4

LEMMA LatestIsHighest ==
  ASSUME ReleaseInv, tags # {}
  PROVE  Latest \in tags /\ \A u \in tags : ~Lower(Latest.version, u.version)
BY DEF ReleaseInv, SomeTagIsHighest, Latest

\* Tags that are added take nothing away.
LEMMA StillLifted ==
  ASSUME NEW b, NEW version, NEW at, LiftedByHand(b, version, at), tags \subseteq tags'
  PROVE  \E h \in tags' : /\ h.by = "hand" /\ h.at \in 1..at
                          /\ Lower(b.version, h.version) /\ Lower(h.version, version)
BY DEF LiftedByHand

-----------------------------------------------------------------------------
(* Steps that tag nothing *)

LEMMA EndJobTypes ==
  ASSUME ReleaseInv, EndJob
  PROVE  tagJob' \in Jobs /\ waiting' \in Nat /\ tagJob'.pc # "pushing"
BY DEF ReleaseInv, ReleaseTypes, EndJob, NoTagJob, Jobs, Versions

LEMMA EnqueueTypes ==
  ASSUME ReleaseInv, NEW c \in Nat, Enqueue(c)
  PROVE  tagJob' \in Jobs /\ waiting' \in Nat /\ (tagJob'.pc = "pushing" => tagJob' = tagJob)
BY DEF ReleaseInv, ReleaseTypes, Enqueue, NoTagJob, Jobs, Versions

LEMMA NothingTagged ==
  ASSUME ReleaseInv, ReleaseTypes', tags' = tags, tagJob'.pc = "pushing" => tagJob' = tagJob
  PROVE  ReleaseInv'
BY DEF ReleaseInv, OneTagPerVersion, SomeTagIsHighest, DecidedVersion, LiftedByHand, VersionsFollowDev

LEMMA DatedByCommits == ASSUME ReleaseInv, NEW c \in 0..Len(history) PROVE c \in Nat
<1>1. Len(history) \in Nat
  BY DEF ReleaseInv, ReleaseTypes
<1> QED
  BY <1>1

LEMMA ProposalsKeep ==
  ASSUME ReleaseInv,
         \/ \E t \in Subjects, s \in SUBSET ManifestPaths : OpenProposal(t, s)
         \/ CheckReleaseSubject
         \/ \E t \in Subjects : Retitle(t)
  PROVE  ReleaseInv'
<1>1. UNCHANGED <<history, tags, tagJob, waiting>>
  BY DEF OpenProposal, CheckReleaseSubject, Retitle
<1>2. proposal' \in Proposals
  <2>1. ASSUME NEW t \in Subjects, NEW c \in SUBSET ManifestPaths, OpenProposal(t, c)
        PROVE  proposal' \in Proposals
    BY <2>1 DEF OpenProposal, Proposals
  <2>2. proposal \in Proposals
    BY DEF ReleaseInv, ReleaseTypes
  <2>3. CASE CheckReleaseSubject
    BY <2>2, <2>3 DEF CheckReleaseSubject, Proposals
  <2>4. ASSUME NEW t \in Subjects, Retitle(t)
        PROVE  proposal' \in Proposals
    BY <2>2, <2>4 DEF Retitle, Proposals
  <2> QED
    BY <2>1, <2>3, <2>4
<1>3. ReleaseTypes'
  BY <1>1, <1>2 DEF ReleaseInv, ReleaseTypes
<1> QED
  BY <1>1, <1>3, NothingTagged

LEMMA MergeKeeps == ReleaseInv /\ Merge => ReleaseInv'
<1> SUFFICES ASSUME ReleaseInv, Merge PROVE ReleaseInv'
  OBVIOUS
<1>0. history \in Seq(DevCommits) /\ Len(history) \in Nat /\ proposal \in Proposals
  BY DEF ReleaseInv, ReleaseTypes
<1>1. Tree \in [ManifestPaths -> {0, 1}]
  <2>1. CASE history = <<>>
    BY <2>1 DEF Tree
  <2>2. CASE history # <<>>
    <3>1. history[Len(history)] \in DevCommits
      BY <1>0, <2>2
    <3> QED
      BY <2>2, <3>1 DEF Tree, DevCommits
  <2> QED
    BY <2>1, <2>2
<1>2. [p \in ManifestPaths |-> IF p \in proposal.touched THEN 1 - Tree[p] ELSE Tree[p]]
        \in [ManifestPaths -> {0, 1}]
  BY <1>1
<1>3. history' \in Seq(DevCommits) /\ Len(history) + 1 \in Nat
  <2> DEFINE commit == [subject |-> proposal.title,
                        tree |-> [p \in ManifestPaths |->
                                   IF p \in proposal.touched THEN 1 - Tree[p] ELSE Tree[p]]]
  <2>1. commit \in DevCommits
    BY <1>0, <1>2 DEF DevCommits, Proposals
  <2>2. history' = Append(history, commit)
    BY DEF Merge
  <2> HIDE DEF commit
  <2> QED
    BY <1>0, <2>1, <2>2
<1>4. tagJob' \in Jobs /\ waiting' \in Nat /\ (tagJob'.pc = "pushing" => tagJob' = tagJob)
  BY <1>3, EnqueueTypes DEF Merge
<1>5. ReleaseTypes'
  BY <1>3, <1>4 DEF Merge, NoProposal, Proposals, ReleaseInv, ReleaseTypes
<1> QED
  BY <1>4, <1>5, NothingTagged DEF Merge

LEMMA RunAgainKeeps == ReleaseInv /\ (\E c \in 1..Len(history) : RunAgain(c)) => ReleaseInv'
<1> SUFFICES ASSUME ReleaseInv, NEW c \in 1..Len(history), RunAgain(c) PROVE ReleaseInv'
  OBVIOUS
<1>1. c \in Nat
  BY DatedByCommits
<1>2. tagJob' \in Jobs /\ waiting' \in Nat /\ (tagJob'.pc = "pushing" => tagJob' = tagJob)
  BY <1>1, EnqueueTypes DEF RunAgain
<1>3. ReleaseTypes'
  BY <1>2 DEF RunAgain, ReleaseInv, ReleaseTypes
<1> QED
  BY <1>2, <1>3, NothingTagged DEF RunAgain

LEMMA OtherStepsKeep ==
  ASSUME ReleaseInv,
         \/ DispatchReleases \/ JobFails
         \/ \E v \in TaggedVersions : PublishAgain(v)
         \/ \E v \in publishing : Publish(v)
  PROVE  ReleaseInv'
<1>1. UNCHANGED <<history, proposal, tags>> /\ (EndJob \/ UNCHANGED <<tagJob, waiting>>)
  BY DEF DispatchReleases, JobFails, PublishAgain, Publish
<1>2. tagJob' \in Jobs /\ waiting' \in Nat /\ (tagJob'.pc = "pushing" => tagJob' = tagJob)
  BY <1>1, EndJobTypes DEF ReleaseInv, ReleaseTypes
<1>3. ReleaseTypes'
  BY <1>1, <1>2 DEF ReleaseInv, ReleaseTypes
<1> QED
  BY <1>1, <1>2, <1>3, NothingTagged

-----------------------------------------------------------------------------
(* Deciding and tagging *)

\* Every version of the workflow's is below the bump of the highest tag; one of a later
\* commit is below that tag too, and so lifted by hand, or that tag itself is by hand.
LEMMA BumpOfTheHighest ==
  ASSUME ReleaseInv, NEW head \in Nat, MayRelease(Latest, head), NEW kind,
         NEW b \in tags, b.by = "workflow"
  PROVE  LET version == ApplyBump(Latest.version, kind)
         IN  /\ Lower(b.version, version)
             /\ head <= b.at => LiftedByHand(b, version, head)
<1> DEFINE l == Latest
           version == ApplyBump(l.version, kind)
<1>1. l \in tags /\ ~Lower(l.version, b.version)
  BY LatestIsHighest
<1>2. b.version \in Versions /\ l.version \in Versions /\ l.at \in Nat /\ b.at \in Nat
      /\ l.by \in {"workflow", "hand"}
  BY <1>1 DEF ReleaseInv, ReleaseTypes, Tags
<1>3. version \in Versions /\ Lower(l.version, version)
  BY <1>2, BumpIsHigher
<1>4. InHistoryOf(l, head) /\ l.at # head
  <2>1. l # NoTag
    BY <1>2 DEF NoTag
  <2> QED
    BY <2>1 DEF MayRelease
<1>5. l.at \in 1..head /\ l.at < head
  BY <1>2, <1>4 DEF InHistoryOf
<1> HIDE DEF l, version
<1>6. b.version = l.version \/ Lower(b.version, l.version)
  BY <1>1, <1>2, LowerIsAnOrder
<1>7. Lower(b.version, version)
  BY <1>2, <1>3, <1>6, LowerIsAnOrder
<1>8. ASSUME head <= b.at PROVE LiftedByHand(b, version, head)
  <2>1. b # l
    BY <1>2, <1>5, <1>8
  <2>2. Lower(b.version, l.version)
    BY <1>1, <1>6, <2>1 DEF ReleaseInv, OneTagPerVersion
  <2>3. CASE l.by = "hand"
    BY <1>1, <1>3, <1>5, <2>2, <2>3 DEF LiftedByHand
  <2>4. CASE l.by = "workflow"
    <3>1. l.at <= b.at
      BY <1>2, <1>5, <1>8
    <3>2. PICK h \in tags : /\ h.by = "hand" /\ h.at \in 1..l.at
                            /\ Lower(b.version, h.version) /\ Lower(h.version, l.version)
      BY <1>1, <2>2, <2>4, <3>1 DEF ReleaseInv, VersionsFollowDev
    <3>3. h.version \in Versions
      BY DEF ReleaseInv, ReleaseTypes, Tags
    <3>4. Lower(h.version, version)
      BY <1>2, <1>3, <3>2, <3>3, LowerIsAnOrder
    <3>5. h.at \in 1..head
      BY <1>2, <1>5, <3>2
    <3> QED
      BY <3>2, <3>4, <3>5 DEF LiftedByHand
  <2> QED
    BY <1>2, <2>3, <2>4
<1> QED
  BY <1>7, <1>8 DEF l, version

LEMMA DecideReleaseKeeps == ReleaseInv /\ DecideRelease => ReleaseInv'
<1> SUFFICES ASSUME ReleaseInv, DecideRelease PROVE ReleaseInv'
  OBVIOUS
<1>0. UNCHANGED <<history, proposal, tags>>
  BY DEF DecideRelease
<1>1. CASE EndJob
  <2>1. ReleaseTypes'
    BY <1>0, <1>1, EndJobTypes DEF ReleaseInv, ReleaseTypes
  <2> QED
    BY <1>0, <1>1, <2>1, EndJobTypes, NothingTagged
<1>2. CASE ~EndJob
  <2> DEFINE head == tagJob.head
             kind == BumpKindFor(history[head].subject)
             version == ApplyBump(Latest.version, kind)
  <2>1. /\ MayRelease(Latest, head) /\ waiting' = waiting
        /\ tagJob' = [tagJob EXCEPT !.pc = "pushing", !.version = version]
    BY <1>2 DEF DecideRelease
  <2>2. head \in Nat /\ Latest.version \in Versions
    <3>1. NoTag.version \in Versions
      BY DEF NoTag, Versions
    <3>2. tags # {} => Latest.version \in Versions
      BY LatestIsHighest DEF ReleaseInv, ReleaseTypes, Tags
    <3>3. tags = {} => Latest = NoTag
      BY DEF Latest
    <3> QED
      BY <3>1, <3>2, <3>3 DEF ReleaseInv, ReleaseTypes, Jobs
  <2>3. version \in Versions
    BY <2>2, BumpIsHigher
  <2>4. \A b \in tags : b.by = "workflow" =>
          /\ Lower(b.version, version)
          /\ head <= b.at => LiftedByHand(b, version, head)
    BY <2>1, <2>2, BumpOfTheHighest
  <2> HIDE DEF kind, version
  <2>5. tagJob' \in Jobs /\ tagJob'.version = version /\ tagJob'.head = head
    BY <2>1, <2>3 DEF ReleaseInv, ReleaseTypes, Jobs
  <2>6. ReleaseTypes'
    BY <1>0, <2>1, <2>5 DEF ReleaseInv, ReleaseTypes
  <2>7. DecidedVersion'
    BY <1>0, <2>4, <2>5 DEF DecidedVersion, LiftedByHand
  <2> QED
    BY <1>0, <2>6, <2>7
       DEF ReleaseInv, OneTagPerVersion, SomeTagIsHighest, VersionsFollowDev
<1> QED
  BY <1>1, <1>2

LEMMA PushTagKeeps == ReleaseInv /\ PushTag => ReleaseInv'
<1> SUFFICES ASSUME ReleaseInv, PushTag PROVE ReleaseInv'
  OBVIOUS
<1>0. tagJob.pc = "pushing" /\ UNCHANGED <<history, proposal>>
  BY DEF PushTag
<1>1. CASE EndJob /\ UNCHANGED tags
  <2>1. ReleaseTypes'
    BY <1>0, <1>1, EndJobTypes DEF ReleaseInv, ReleaseTypes
  <2> QED
    BY <1>0, <1>1, <2>1, EndJobTypes, NothingTagged
<1>2. CASE tagJob.version \notin TaggedVersions
  <2> DEFINE n == [version |-> tagJob.version, at |-> tagJob.head, by |-> "workflow"]
  <2>1. /\ tags' = tags \cup {n} /\ waiting' = waiting
        /\ tagJob' = [tagJob EXCEPT !.pc = "dispatching"]
    BY <1>2 DEF PushTag
  <2>2. /\ n \in Tags /\ n.version = tagJob.version /\ n.at = tagJob.head /\ n.by = "workflow"
    BY DEF ReleaseInv, ReleaseTypes, Jobs, Tags
  <2> HIDE DEF n
  <2>3. tagJob' \in Jobs /\ tagJob'.pc # "pushing"
    BY <2>1 DEF ReleaseInv, ReleaseTypes, Jobs
  <2>4. ReleaseTypes'
    BY <1>0, <2>1, <2>2, <2>3 DEF ReleaseInv, ReleaseTypes
  <2>5. OneTagPerVersion' /\ SomeTagIsHighest'
    BY <1>2, <2>1, <2>2, OneMoreTag
  <2>6. VersionsFollowDev'
    <3> SUFFICES ASSUME NEW a \in tags', a.by = "workflow", NEW b \in tags', b.by = "workflow",
                        a.at <= b.at, Lower(b.version, a.version)
                 PROVE  \E h \in tags' : /\ h.by = "hand" /\ h.at \in 1..a.at
                                         /\ Lower(b.version, h.version) /\ Lower(h.version, a.version)
      BY DEF VersionsFollowDev
    <3>0. tags \subseteq tags' /\ a.version \in Versions /\ b.version \in Versions
      BY <2>1, <2>4 DEF ReleaseTypes, Tags
    <3>1. CASE a \in tags /\ b \in tags
      BY <3>0, <3>1 DEF ReleaseInv, VersionsFollowDev
    <3>2. CASE a = n /\ b \in tags
      <4>1. LiftedByHand(b, a.version, a.at)
        BY <1>0, <2>2, <3>2 DEF ReleaseInv, DecidedVersion
      <4> QED
        BY <3>0, <4>1, StillLifted
    <3>3. CASE b = n
      <4>1. a \in tags => Lower(a.version, b.version)
        BY <1>0, <2>2, <3>3 DEF ReleaseInv, DecidedVersion
      <4>2. a \notin tags => a = b
        BY <2>1, <3>3
      <4> QED
        BY <3>0, <4>1, <4>2, LowerIsAnOrder
    <3> QED
      BY <2>1, <3>1, <3>2, <3>3
  <2> QED
    BY <2>3, <2>4, <2>5, <2>6 DEF ReleaseInv, DecidedVersion
<1> QED
  BY <1>1, <1>2 DEF PushTag

LEMMA HandTagKeeps ==
  ReleaseInv /\ (\E v \in HandVersions, c \in 0..Len(history) : HandTag(v, c)) => ReleaseInv'
<1> SUFFICES ASSUME ReleaseInv, NEW v \in HandVersions, NEW c \in 0..Len(history), HandTag(v, c)
             PROVE  ReleaseInv'
  OBVIOUS
<1> DEFINE n == [version |-> v, at |-> c, by |-> "hand"]
<1>1. /\ tags' = tags \cup {n} /\ UNCHANGED <<history, proposal, tagJob, waiting>>
      /\ v \notin TaggedVersions
  BY DEF HandTag
<1>2. n \in Tags /\ n.by = "hand" /\ n.version = v
  BY HandVersionsAssumption, DatedByCommits DEF Tags, Versions
<1> HIDE DEF n
<1>3. ReleaseTypes'
  BY <1>1, <1>2 DEF ReleaseInv, ReleaseTypes
<1>4. OneTagPerVersion' /\ SomeTagIsHighest'
  BY <1>1, <1>2, OneMoreTag
<1>5. \A t \in tags' : t.by = "workflow" => t \in tags
  BY <1>1, <1>2
<1>6. tags \subseteq tags'
  BY <1>1
<1>7. DecidedVersion'
  BY <1>1, <1>5, <1>6 DEF ReleaseInv, DecidedVersion, LiftedByHand
<1>8. VersionsFollowDev'
  BY <1>5, <1>6 DEF ReleaseInv, VersionsFollowDev
<1> QED
  BY <1>3, <1>4, <1>7, <1>8 DEF ReleaseInv

LEMMA ReleaseInitially == ReleaseInit => ReleaseInv
<1> SUFFICES ASSUME ReleaseInit PROVE ReleaseInv
  OBVIOUS
<1>1. history \in Seq(DevCommits) /\ tags = {} /\ waiting \in Nat
  BY DEF ReleaseInit
<1>2. proposal \in Proposals /\ tagJob \in Jobs /\ tagJob.pc # "pushing"
  BY DEF ReleaseInit, NoProposal, Proposals, NoTagJob, Jobs, Versions
<1> QED
  BY <1>1, <1>2 DEF ReleaseInv, ReleaseTypes, OneTagPerVersion, SomeTagIsHighest, DecidedVersion,
                    VersionsFollowDev

LEMMA ReleaseInvInductive == ReleaseInv /\ [ReleaseNext]_releaseVars => ReleaseInv'
<1>1. ReleaseInv /\ UNCHANGED releaseVars => ReleaseInv'
  BY NothingTagged DEF releaseVars, ReleaseInv, ReleaseTypes
<1> QED
  BY <1>1, ProposalsKeep, MergeKeeps, RunAgainKeeps, DecideReleaseKeeps, PushTagKeeps,
     HandTagKeeps, OtherStepsKeep DEF ReleaseNext

\* The versions the workflow tags grow along dev's history, but for tags pushed by hand.
THEOREM VersionsFollowDevAlways == ReleaseSpec => []VersionsFollowDev
<1>1. ReleaseInv => VersionsFollowDev
  BY DEF ReleaseInv
<1> QED
  BY <1>1, ReleaseInitially, ReleaseInvInductive, PTL DEF ReleaseSpec

-----------------------------------------------------------------------------
(* The ownership guard: what the commit hook let pass and why, and what a merge brings into
   a branch. *)

MadeCommits == [paths : SUBSET GuardedPaths, moved : SUBSET (GuardedPaths \X GuardedPaths),
                recorded : BOOLEAN, upgrade : BOOLEAN, hooked : BOOLEAN, made : GuardedBranches, first : Nat,
                on : SUBSET GuardedBranches]

GuardTypes ==
  /\ commits \in Seq(MadeCommits)
  /\ checked \in [GuardedBranches -> {"none", "passed", "failed"}]

\* What the hook let pass without a reason on record it found in the first commit of an
\* upgrade's branch, or did not see, the file having another name now.
Answered(c) ==
  c.hooked /\ ~c.recorded =>
    \A p \in (c.paths \cap Prefixed) \ WarnOnly :
      \/ p \in OldPaths(c.moved)
      \/ c.made \in NamedUpgrade /\ c.first \in DOMAIN commits /\ p \in commits[c.first].paths
HookAnswered == \A i \in DOMAIN commits : Answered(commits[i])

Excused(b) == (\E i \in Ahead(b) : ~commits[i].hooked) \/ SeenUnlike(b)

\* A rename changes both its paths.
RenamesWithin(renames, paths) ==
  renames \subseteq GuardedPaths \X GuardedPaths /\ \A m \in renames : BothPaths(m) \subseteq paths
RenamesPaths(c) == RenamesWithin(c.moved, c.paths)
RenamesAreChanges == \A i \in DOMAIN commits : RenamesPaths(commits[i])

GuardInv == GuardTypes /\ HookAnswered /\ RenamesAreChanges /\ HookSpeaksForCheck

-----------------------------------------------------------------------------
(* Branches *)

LEMMA SetOfNatHasLeast ==
  ASSUME NEW S, S \subseteq Nat, S # {}
  PROVE  \E i \in S : \A j \in S : i <= j
<1> DEFINE T == {0..n : n \in S}
<1>1. T \subseteq FiniteSubsetsOf(Nat) /\ T # {}
  <2>1. ASSUME NEW n \in Nat PROVE 0..n \in FiniteSubsetsOf(Nat)
    <3>1. IsFiniteSet(0..n) /\ 0..n \subseteq Nat
      BY FS_Interval
    <3> QED
      BY <3>1 DEF FiniteSubsetsOf
  <2> QED
    BY <2>1
<1>2. PICK x \in T : \A y \in T : <<y, x>> \notin StrictSubsetOrdering(Nat)
  BY <1>1, FS_StrictSubsetOrderingWellFounded, WFMin
<1>3. PICK i \in S : x = 0..i
  OBVIOUS
<1>4. ASSUME NEW j \in S, j < i PROVE FALSE
  <2>1. 0..j \in T /\ 0..j \subseteq 0..i /\ i \in 0..i /\ i \notin 0..j
    BY <1>4
  <2>2. <<0..j, x>> \in StrictSubsetOrdering(Nat)
    BY <1>3, <2>1 DEF StrictSubsetOrdering
  <2> QED
    BY <1>2, <2>1, <2>2
<1> QED
  BY <1>4

LEMMA FirstAheadIsAhead ==
  ASSUME GuardTypes, NEW b \in GuardedBranches, Ahead(b) # {}
  PROVE  FirstAhead(b) \in Ahead(b)
<1>1. Ahead(b) \subseteq Nat
  BY DEF Ahead
<1>2. \E i \in Ahead(b) : \A j \in Ahead(b) : i <= j
  BY <1>1, SetOfNatHasLeast
<1> QED
  BY <1>2 DEF FirstAhead

LEMMA AheadIsCommitted ==
  ASSUME GuardTypes
  PROVE  /\ Len(commits) \in Nat /\ DOMAIN commits = 1..Len(commits)
         /\ \A i \in DOMAIN commits : commits[i] \in MadeCommits
         /\ \A b \in GuardedBranches : Ahead(b) \subseteq DOMAIN commits
BY DEF GuardTypes, Ahead

\* What a path of the difference says: a commit of the branch changes it.
LEMMA SomeCommitChanges ==
  ASSUME NEW b \in GuardedBranches, NEW p \in Difference(b)
  PROVE  \E i \in Ahead(b) : p \in commits[i].paths
<1>1. CASE {i \in Ahead(b) : p \in commits[i].paths} = {}
  <2>1. Cardinality({i \in Ahead(b) : p \in commits[i].paths}) = 0
    BY <1>1, FS_EmptySet
  <2> QED
    BY <2>1 DEF Difference
<1> QED
  BY <1>1

\* A rename no other commit touches is a difference of the branch at both its ends.
LEMMA RenamedAlone ==
  ASSUME GuardInv, NEW b \in GuardedBranches, NEW i \in Ahead(b), NEW m \in commits[i].moved,
         ~TouchedElsewhere(b, i, m)
  PROVE  BothPaths(m) \subseteq Difference(b)
<1>1. commits[i] \in MadeCommits /\ BothPaths(m) \subseteq commits[i].paths
  BY AheadIsCommitted DEF GuardInv, RenamesAreChanges, RenamesPaths, RenamesWithin
<1> SUFFICES ASSUME NEW q \in BothPaths(m) PROVE q \in Difference(b)
  OBVIOUS
<1>2. {j \in Ahead(b) : q \in commits[j].paths} = {i}
  BY <1>1 DEF TouchedElsewhere
<1>3. Cardinality({j \in Ahead(b) : q \in commits[j].paths}) = 1
  BY <1>2, FS_Singleton
<1> QED
  BY <1>1, <1>3 DEF Difference, MadeCommits

-----------------------------------------------------------------------------
(* Commits that are made and merged *)

\* The commits there were, all but where they are now.
CommitsKept ==
  /\ DOMAIN commits \subseteq DOMAIN commits'
  /\ \A i \in DOMAIN commits :
       /\ commits'[i].paths = commits[i].paths /\ commits'[i].moved = commits[i].moved
       /\ commits'[i].recorded = commits[i].recorded /\ commits'[i].hooked = commits[i].hooked
       /\ commits'[i].made = commits[i].made /\ commits'[i].first = commits[i].first

LEMMA StillAnswered ==
  ASSUME GuardInv, GuardTypes', CommitsKept, NEW i \in DOMAIN commits
  PROVE  Answered(commits[i])'
<1>1. Answered(commits[i])
  BY DEF GuardInv, HookAnswered
<1> QED
  BY <1>1 DEF Answered, CommitsKept

\* So does a branch whose commits are the same.
LEMMA StillExcused ==
  ASSUME CommitsKept, NEW c \in GuardedBranches, Ahead(c)' = Ahead(c),
         Ahead(c) \subseteq DOMAIN commits, Excused(c)
  PROVE  Excused(c)'
<1>1. FirstAhead(c)' = FirstAhead(c)
  BY DEF FirstAhead
<1>2. ASSUME NEW i \in Ahead(c)
      PROVE  /\ commits'[i].paths = commits[i].paths /\ commits'[i].moved = commits[i].moved
             /\ commits'[i].hooked = commits[i].hooked /\ commits'[i].made = commits[i].made
             /\ commits'[i].first = commits[i].first
  BY <1>2 DEF CommitsKept
<1>3. ASSUME NEW i \in Ahead(c), NEW m \in commits[i].moved, TouchedElsewhere(c, i, m)
      PROVE  TouchedElsewhere(c, i, m)'
  BY <1>2, <1>3 DEF TouchedElsewhere
<1>4. RenameMayComeApart(c) => RenameMayComeApart(c)'
  BY <1>2, <1>3 DEF RenameMayComeApart
<1>5. MadeUnderAnotherName(c) => MadeUnderAnotherName(c)'
  BY <1>2 DEF MadeUnderAnotherName
<1>6. FirstCommitIsAnother(c) => FirstCommitIsAnother(c)'
  BY <1>1, <1>2 DEF FirstCommitIsAnother
<1>7. (\E i \in Ahead(c) : ~commits[i].hooked) => (\E i \in Ahead(c) : ~commits[i].hooked)'
  BY <1>2
<1> QED
  BY <1>4, <1>5, <1>6, <1>7 DEF Excused, SeenUnlike

\* A branch's commits are new ones, and what was said of the branch is forgotten; the other
\* branches are as they were.
LEMMA OneBranchMoves ==
  ASSUME GuardInv, GuardTypes', CommitsKept, NEW b \in GuardedBranches, Unchecked({b}),
         \A c \in GuardedBranches \ {b} : Ahead(c)' = Ahead(c),
         \A i \in DOMAIN commits' \ DOMAIN commits : Answered(commits[i])' /\ RenamesPaths(commits[i])'
  PROVE  GuardInv'
<1>1. HookAnswered' /\ RenamesAreChanges'
  <2>1. HookAnswered'
    BY StillAnswered DEF HookAnswered
  <2>2. \A i \in DOMAIN commits : RenamesPaths(commits[i])'
    BY DEF GuardInv, RenamesAreChanges, RenamesPaths, CommitsKept
  <2> QED
    BY <2>1, <2>2 DEF RenamesAreChanges
<1>2. HookSpeaksForCheck'
  <2> SUFFICES ASSUME NEW c \in GuardedBranches, checked'[c] = "failed"
               PROVE  Excused(c)'
    BY DEF HookSpeaksForCheck, Excused
  <2>1. c # b /\ checked[c] = "failed"
    BY DEF Unchecked
  <2>2. Ahead(c)' = Ahead(c) /\ Ahead(c) \subseteq DOMAIN commits
    BY <2>1, AheadIsCommitted DEF GuardInv
  <2>3. Excused(c)
    BY <2>1 DEF GuardInv, HookSpeaksForCheck, Excused
  <2> QED
    BY <2>2, <2>3, StillExcused
<1> QED
  BY <1>1, <1>2 DEF GuardInv

\* What there is to know of a commit that is made on a branch.
Makes(b, paths, renames, recorded, upgrade, hooked) ==
  /\ paths \subseteq GuardedPaths /\ RenamesWithin(renames, paths)
  /\ recorded \in BOOLEAN /\ upgrade \in BOOLEAN /\ hooked \in BOOLEAN
  /\ hooked => HookAllows(b, ParseNameStatus(paths, renames), recorded)
  /\ Unchecked({b})

\* A commit goes on top of the branch: what the hook let pass it exempted, as the upgrade's.
LEMMA CommitOnTop ==
  ASSUME GuardInv, NEW b \in GuardedBranches, NEW onto \in [DOMAIN commits -> SUBSET GuardedBranches],
         \A i \in DOMAIN commits : onto[i] \ {b} = commits[i].on \ {b},
         NEW paths, NEW renames, NEW recorded, NEW upgrade, NEW hooked,
         Makes(b, paths, renames, recorded, upgrade, hooked),
         commits' = Append([i \in 1..Len(commits) |-> [commits[i] EXCEPT !.on = onto[i]]],
                           Record(b, paths, renames, recorded, upgrade, hooked))
  PROVE  GuardInv'
<1> DEFINE c == Record(b, paths, renames, recorded, upgrade, hooked)
           n == Len(commits)
           rest == [i \in 1..n |-> [commits[i] EXCEPT !.on = onto[i]]]
<1>0. GuardTypes /\ n \in Nat /\ DOMAIN commits = 1..n /\ \A i \in 1..n : commits[i] \in MadeCommits
  BY AheadIsCommitted DEF GuardInv
<1>a. /\ paths \subseteq GuardedPaths /\ renames \subseteq GuardedPaths \X GuardedPaths
      /\ recorded \in BOOLEAN /\ upgrade \in BOOLEAN /\ hooked \in BOOLEAN
      /\ RenamesWithin(renames, paths) /\ Unchecked({b})
      /\ hooked => HookAllows(b, ParseNameStatus(paths, renames), recorded)
  BY DEF Makes, RenamesWithin
<1>1. FirstSeen(b) \in 1..(n + 1) /\ (Ahead(b) # {} => FirstSeen(b) = FirstAhead(b) /\ FirstSeen(b) \in 1..n)
  BY <1>0, FirstAheadIsAhead, AheadIsCommitted DEF FirstSeen
<1>2. /\ c \in MadeCommits /\ c.paths = paths /\ c.moved = renames /\ c.recorded = recorded
      /\ c.hooked = hooked /\ c.made = b /\ c.first = FirstSeen(b) /\ c.on = {b}
  BY <1>0, <1>1, <1>a DEF Record, MadeCommits
<1>3. \A i \in 1..n : rest[i] \in MadeCommits
  BY <1>0 DEF MadeCommits
<1>4. rest \in Seq(MadeCommits) /\ Len(rest) = n
  BY <1>0, <1>3, IsASeq
<1> HIDE DEF c
<1>5. commits' = Append(rest, c)
  BY DEF c
<1>6. /\ commits' \in Seq(MadeCommits) /\ DOMAIN commits' = 1..(n + 1)
      /\ commits'[n + 1] = c /\ \A i \in 1..n : commits'[i] = rest[i]
  BY <1>0, <1>2, <1>4, <1>5, AppendProperties
<1>7. GuardTypes'
  BY <1>0, <1>6, <1>a DEF GuardTypes, Unchecked
<1>8. CommitsKept
  BY <1>0, <1>6 DEF CommitsKept, MadeCommits
<1>9. ASSUME NEW d \in GuardedBranches \ {b}
      PROVE  Ahead(d)' = Ahead(d)
  <2>1. Ahead(d)' = {i \in 1..(n + 1) : d \in commits'[i].on}
    BY <1>6, <1>7, AheadIsCommitted DEF Ahead
  <2>2. \A i \in 1..n : d \in commits'[i].on <=> d \in commits[i].on
    BY <1>0, <1>6 DEF MadeCommits
  <2>3. d \notin commits'[n + 1].on
    BY <1>2, <1>6
  <2> QED
    BY <1>0, <2>1, <2>2, <2>3 DEF Ahead
<1>10. ASSUME hooked, ~recorded, NEW p \in (paths \cap Prefixed) \ WarnOnly, p \notin OldPaths(renames)
       PROVE  b \in NamedUpgrade /\ p \in commits'[FirstSeen(b)].paths
  <2> DEFINE seen == ParseNameStatus(paths, renames)
  <2>1. p \in HookExempts(b, seen)
    BY <1>a, <1>10 DEF HookAllows, Allowed, Offending, GuardedPaths, ParseNameStatus
  <2>2. b \in NamedUpgrade /\ p \in UpgradeCommitFiles(b, seen)
    BY <2>1 DEF HookExempts
  <2>3. CASE Ahead(b) = {}
    <3>1. FirstSeen(b) = n + 1
      BY <2>3 DEF FirstSeen
    <3> QED
      BY <1>2, <1>6, <2>2, <3>1
  <2>4. CASE Ahead(b) # {}
    <3>1. p \in commits[FirstSeen(b)].paths /\ FirstSeen(b) \in 1..n
      BY <1>1, <2>2, <2>4 DEF UpgradeCommitFiles
    <3> QED
      BY <1>0, <1>8, <2>2, <3>1 DEF CommitsKept
  <2> QED
    BY <2>3, <2>4
<1>11. ASSUME NEW i \in DOMAIN commits' \ DOMAIN commits
       PROVE  Answered(commits[i])' /\ RenamesPaths(commits[i])'
  <2>1. commits'[i] = c
    BY <1>0, <1>6, <1>11
  <2>2. Answered(commits[i])'
    <3> SUFFICES ASSUME c.hooked, ~c.recorded, NEW p \in (c.paths \cap Prefixed) \ WarnOnly,
                        p \notin OldPaths(c.moved)
                 PROVE  /\ c.made \in NamedUpgrade /\ c.first \in DOMAIN commits'
                        /\ p \in commits'[c.first].paths
      BY <2>1 DEF Answered
    <3>1. hooked /\ ~recorded /\ p \in (paths \cap Prefixed) \ WarnOnly /\ p \notin OldPaths(renames)
      BY <1>2
    <3>2. b \in NamedUpgrade /\ p \in commits'[FirstSeen(b)].paths
      BY <1>10, <3>1
    <3> QED
      BY <1>1, <1>2, <1>6, <3>2
  <2>3. RenamesPaths(commits'[i])
    BY <1>a, <1>2, <2>1 DEF RenamesPaths
  <2> QED
    BY <2>2, <2>3 DEF RenamesPaths
<1> QED
  BY <1>7, <1>8, <1>9, <1>11, <1>a, OneBranchMoves

LEMMA NothingRenamed == \A paths : ParseNameStatus(paths, {}) = paths
BY DEF ParseNameStatus, OldPaths

LEMMA NothingMovedBelow ==
  ASSUME GuardTypes
  PROVE  commits = [i \in 1..Len(commits) |-> [commits[i] EXCEPT !.on = commits[i].on]]
BY AheadIsCommitted DEF MadeCommits, GuardTypes

LEMMA CommitHere ==
  ASSUME GuardInv, NEW b \in GuardedBranches, NEW paths, NEW renames, NEW recorded, NEW upgrade, NEW hooked,
         Makes(b, paths, renames, recorded, upgrade, hooked),
         commits' = Append(commits, Record(b, paths, renames, recorded, upgrade, hooked))
  PROVE  GuardInv'
<1> DEFINE onto == [i \in DOMAIN commits |-> commits[i].on]
<1>1. onto \in [DOMAIN commits -> SUBSET GuardedBranches]
  BY AheadIsCommitted DEF MadeCommits, GuardInv
<1>2. commits = [i \in 1..Len(commits) |-> [commits[i] EXCEPT !.on = onto[i]]]
  BY NothingMovedBelow, AheadIsCommitted DEF GuardInv
<1>3. \A i \in DOMAIN commits : onto[i] \ {b} = commits[i].on \ {b}
  OBVIOUS
<1>4. commits' = Append([i \in 1..Len(commits) |-> [commits[i] EXCEPT !.on = onto[i]]],
                        Record(b, paths, renames, recorded, upgrade, hooked))
  BY <1>2
<1> HIDE DEF onto
<1> QED
  BY <1>1, <1>3, <1>4, CommitOnTop

LEMMA CommitKeeps ==
  ASSUME GuardInv, NEW b \in GuardedBranches, NEW paths \in SUBSET GuardedPaths,
         \/ UpgradeCommit(b, paths)
         \/ \E renames \in Moves(b, paths) :
              (\E r \in BOOLEAN : CommitEdit(b, paths, renames, r)) \/ CommitUnverified(b, paths, renames)
  PROVE  GuardInv'
<1>1. CASE UpgradeCommit(b, paths)
  <2>1. HookAllows(b, ParseNameStatus(paths, {}), FALSE) /\ Unchecked({b}) /\ RenamesWithin({}, paths)
    BY <1>1, NothingRenamed DEF UpgradeCommit, RenamesWithin
  <2>2. Makes(b, paths, {}, FALSE, TRUE, TRUE)
    BY <2>1 DEF Makes
  <2> QED
    BY <1>1, <2>2, CommitHere DEF UpgradeCommit
<1>2. ASSUME NEW renames \in Moves(b, paths)
      PROVE  RenamesWithin(renames, paths)
  BY DEF Moves, Renamings, RenamesWithin
<1>3. ASSUME NEW renames \in Moves(b, paths), NEW r \in BOOLEAN, CommitEdit(b, paths, renames, r)
      PROVE  GuardInv'
  <2>1. Makes(b, paths, renames, r, FALSE, TRUE)
    BY <1>2, <1>3 DEF Makes, CommitEdit
  <2> QED
    BY <1>3, <2>1, CommitHere DEF CommitEdit
<1>4. ASSUME NEW renames \in Moves(b, paths), CommitUnverified(b, paths, renames)
      PROVE  GuardInv'
  <2>1. Makes(b, paths, renames, FALSE, FALSE, FALSE)
    BY <1>2, <1>4 DEF Makes, CommitUnverified
  <2> QED
    BY <1>4, <2>1, CommitHere DEF CommitUnverified
<1> QED
  BY <1>1, <1>3, <1>4

LEMMA MergeInKeeps ==
  ASSUME GuardInv, NEW a \in GuardedBranches, NEW b \in GuardedBranches,
         NEW resolved \in SUBSET GuardedPaths, NEW r \in BOOLEAN, MergeIn(a, b, resolved, r)
  PROVE  GuardInv'
<1> DEFINE onto == [i \in DOMAIN commits |->
                      IF i \in Ahead(a) THEN commits[i].on \cup {b} ELSE commits[i].on]
<1>1. onto \in [DOMAIN commits -> SUBSET GuardedBranches]
  BY AheadIsCommitted DEF MadeCommits, GuardInv
<1>2. [i \in 1..Len(commits) |->
         IF i \in Ahead(a) THEN [commits[i] EXCEPT !.on = @ \cup {b}] ELSE commits[i]]
        = [i \in 1..Len(commits) |-> [commits[i] EXCEPT !.on = onto[i]]]
  BY AheadIsCommitted DEF MadeCommits, GuardInv
<1>3. commits' = Append([i \in 1..Len(commits) |-> [commits[i] EXCEPT !.on = onto[i]]],
                        Record(b, resolved, {}, r, FALSE, TRUE))
  BY <1>2 DEF MergeIn
<1>4. \A i \in DOMAIN commits : onto[i] \ {b} = commits[i].on \ {b}
  OBVIOUS
<1> HIDE DEF onto
<1>5. HookAllows(b, ParseNameStatus(resolved, {}), r) /\ Unchecked({b}) /\ RenamesWithin({}, resolved)
  BY NothingRenamed DEF MergeIn, RenamesWithin
<1>6. Makes(b, resolved, {}, r, FALSE, TRUE)
  BY <1>5 DEF Makes
<1> QED
  BY <1>1, <1>3, <1>4, <1>6, CommitOnTop

LEMMA MergeCheckedKeeps ==
  ASSUME GuardInv, NEW b \in GuardedBranches, MergeChecked(b)
  PROVE  GuardInv'
<1> DEFINE n == Len(commits)
           rest == [i \in 1..n |-> [commits[i] EXCEPT !.on = @ \ {b}]]
<1>0. GuardTypes /\ n \in Nat /\ DOMAIN commits = 1..n /\ \A i \in 1..n : commits[i] \in MadeCommits
  BY AheadIsCommitted DEF GuardInv
<1>1. commits' = rest /\ Unchecked({b})
  BY DEF MergeChecked
<1>2. \A i \in 1..n : commits'[i] \in MadeCommits /\ commits'[i].on = commits[i].on \ {b}
  BY <1>0, <1>1 DEF MadeCommits
<1>3. commits' \in Seq(MadeCommits) /\ Len(commits') = n /\ DOMAIN commits' = 1..n
  <2>1. \A i \in 1..n : rest[i] \in MadeCommits
    BY <1>1, <1>2
  <2>2. rest \in Seq(MadeCommits) /\ Len(rest) = n /\ DOMAIN rest = 1..n
    BY <1>0, <2>1, IsASeq
  <2> QED
    BY <1>1, <2>2
<1>4. GuardTypes'
  BY <1>0, <1>1, <1>3 DEF GuardTypes, Unchecked
<1>5. CommitsKept
  BY <1>0, <1>1 DEF CommitsKept, MadeCommits
<1>6. \A d \in GuardedBranches \ {b} : Ahead(d)' = Ahead(d)
  BY <1>0, <1>2, <1>3 DEF Ahead
<1> QED
  BY <1>0, <1>1, <1>3, <1>4, <1>5, <1>6, OneBranchMoves

-----------------------------------------------------------------------------
(* The check *)

\* A branch the check refuses changes a path that no first commit answers for, or that only
\* the check sees.
LEMMA RefusedHasReason ==
  ASSUME GuardInv, NEW b \in GuardedBranches, NEW shipped, NEW renames \in FoundInDifference(b),
         ~CheckAllows(b, renames, shipped)
  PROVE  Excused(b)
<1>1. PICK p \in Difference(b) : /\ p \in Prefixed \ WarnOnly /\ p \notin CheckExempts(b)
                                 /\ p \notin OldPaths(renames)
  BY DEF CheckAllows, Allowed, Offending, ParseNameStatus
<1>2. PICK i \in Ahead(b) : p \in commits[i].paths
  BY SomeCommitChanges
<1>3. ~commits[i].recorded
  BY <1>2 DEF CheckAllows, Allowed
<1>4. Answered(commits[i]) /\ commits[i] \in MadeCommits
  BY AheadIsCommitted DEF GuardInv, HookAnswered
<1>5. CASE p \in OldPaths(commits[i].moved)
  <2>1. PICK m \in commits[i].moved : m[1] = p
    BY <1>5 DEF OldPaths
  <2>2. m \notin renames
    BY <1>1, <2>1 DEF OldPaths
  <2>3. CASE TouchedElsewhere(b, i, m)
    BY <1>1, <2>1, <2>3 DEF Excused, SeenUnlike, RenameMayComeApart
  <2>4. CASE ~TouchedElsewhere(b, i, m)
    <3>1. BothPaths(m) \subseteq Difference(b)
      BY <2>1, <2>4, RenamedAlone
    <3> QED
      BY <2>1, <2>2, <2>4, <3>1 DEF FoundInDifference
  <2> QED
    BY <2>3, <2>4
<1>6. CASE p \notin OldPaths(commits[i].moved)
  <2> SUFFICES ASSUME commits[i].hooked, commits[i].made = b, b \in PushedAsUpgrade,
                      commits[i].first = FirstAhead(b)
               PROVE  FALSE
    BY <1>1, <1>2, <1>3, <1>4, <1>6
       DEF Answered, Excused, SeenUnlike, MadeUnderAnotherName, FirstCommitIsAnother
  <2>1. p \in commits[FirstAhead(b)].paths
    BY <1>1, <1>2, <1>3, <1>4, <1>6 DEF Answered
  <2>2. p \in CheckExempts(b)
    BY <1>2, <2>1 DEF CheckExempts, UpgradeCommitFiles
  <2> QED
    BY <1>1, <2>2
<1> QED
  BY <1>5, <1>6

LEMMA CheckPullRequestKeeps ==
  ASSUME GuardInv, NEW b \in GuardedBranches, CheckPullRequest(b)
  PROVE  GuardInv'
<1>1. PICK renames \in FoundInDifference(b), shipped \in ShippedPaths :
        checked' = [checked EXCEPT ![b] = IF CheckAllows(b, renames, shipped) THEN "passed" ELSE "failed"]
  BY DEF CheckPullRequest
<1>2. commits' = commits
  BY DEF CheckPullRequest
<1>3. GuardTypes'
  BY <1>1, <1>2 DEF GuardInv, GuardTypes
<1>4. HookAnswered' /\ RenamesAreChanges'
  BY <1>2 DEF GuardInv, HookAnswered, Answered, RenamesAreChanges, RenamesPaths
<1>5. /\ CommitsKept
      /\ \A c \in GuardedBranches : Ahead(c)' = Ahead(c) /\ Ahead(c) \subseteq DOMAIN commits
  BY <1>2, AheadIsCommitted DEF Ahead, CommitsKept, GuardInv
<1>6. HookSpeaksForCheck'
  <2> SUFFICES ASSUME NEW c \in GuardedBranches, checked'[c] = "failed"
               PROVE  Excused(c)'
    BY DEF HookSpeaksForCheck, Excused
  <2>1. CASE c = b
    <3>1. ~CheckAllows(b, renames, shipped)
      BY <1>1, <2>1 DEF GuardInv, GuardTypes
    <3>2. Excused(b)
      BY <3>1, RefusedHasReason
    <3> QED
      BY <1>5, <2>1, <3>2, StillExcused
  <2>2. CASE c # b
    <3>1. checked[c] = "failed"
      BY <1>1, <2>2 DEF GuardInv, GuardTypes
    <3>2. Excused(c)
      BY <3>1 DEF GuardInv, HookSpeaksForCheck, Excused
    <3> QED
      BY <1>5, <3>2, StillExcused
  <2> QED
    BY <2>1, <2>2
<1> QED
  BY <1>3, <1>4, <1>6 DEF GuardInv

-----------------------------------------------------------------------------
LEMMA GuardInitially == GuardInit => GuardInv
BY DEF GuardInit, GuardInv, GuardTypes, HookAnswered, RenamesAreChanges, HookSpeaksForCheck

LEMMA GuardInvInductive == GuardInv /\ [GuardNext]_guardVars => GuardInv'
<1>1. GuardInv /\ UNCHANGED guardVars => GuardInv'
  BY DEF guardVars, GuardInv, GuardTypes, HookAnswered, Answered, HookSpeaksForCheck, Ahead, FirstAhead,
         RenamesAreChanges, RenamesPaths, SeenUnlike, MadeUnderAnotherName, FirstCommitIsAnother,
         RenameMayComeApart, TouchedElsewhere
<1> QED
  BY <1>1, CommitKeeps, MergeInKeeps, MergeCheckedKeeps, CheckPullRequestKeeps DEF GuardNext

\* What the commit hook let pass, the pull request's check does not refuse: for every number
\* of branches and commits, whatever is merged into what and checked in between.
THEOREM HookSpeaksForCheckAlways == GuardSpec => []HookSpeaksForCheck
<1>1. GuardInv => HookSpeaksForCheck
  BY DEF GuardInv
<1> QED
  BY <1>1, GuardInitially, GuardInvInductive, PTL DEF GuardSpec
=============================================================================
