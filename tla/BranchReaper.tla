----------------------------- MODULE BranchReaper -----------------------------
(***************************************************************************)
(* `biffo doctor' and `doctor --fix' (cli/src/commands/doctor.ts,          *)
(* lib/doctor.ts, lib/doctor-reaper.ts), on a clone whose worktrees other  *)
(* sessions work in while it runs: it gathers facts, and then judges and   *)
(* removes one worktree, and one branch without a worktree, after another. *)
(*                                                                         *)
(* A tip, a pull request's head and what the clone has of a branch are the *)
(* sets of the commits they reach, without what dev had: ancestry is       *)
(* inclusion, and the empty set is no branch and no head.                  *)
(***************************************************************************)
EXTENDS Naturals

CONSTANTS
  Topics,              \* the names of the branches work is done on
  Commits, First,      \* bound: the commits of a branch; the first on each
  MaxScans, MaxMoves   \* bounds: runs of the doctor, steps of the sessions
ASSUME FirstAssumption == First \in Commits

NoTree == [kind |-> "none"]
NewTree == [kind |-> "tree", detached |-> FALSE, dirty |-> FALSE, claim |-> "none"]

VARIABLES
  topic,     \* branch -> [tip, origin, seen, known]: its local tip, GitHub's, whether
             \* the clone has origin/<branch>, the commits the clone has
  pull,      \* branch -> its pull requests: [open, closed, merged]
  tree,      \* branch -> the linked worktree made for it
  primary,   \* the branch the primary checkout is on
  doctor,    \* the command
  scans, moves

reaperVars == <<topic, pull, tree, primary, doctor, scans, moves>>
sessionVars == <<topic, pull, tree, primary>>

NoCase == [branch |-> "none", step |-> "none"]
Well == [pc |-> "idle", at |-> NoCase]

ReaperInit ==
  /\ topic = [b \in Topics |-> [tip |-> {First}, origin |-> {}, seen |-> FALSE, known |-> {First}]]
  /\ pull = [b \in Topics |-> [open |-> FALSE, closed |-> FALSE, merged |-> {}]]
  /\ tree = [b \in Topics |-> NewTree]
  /\ primary = "dev"
  /\ doctor = Well /\ scans = 0 /\ moves = 0

Standing(b) == tree[b] # NoTree
Alive(b) == topic[b].tip # {}

-----------------------------------------------------------------------------
(* The doctor *)

\* git fetch --prune, whose failure goes unnoticed, or --no-fetch.
Fetched(online) ==
  IF online THEN [b \in Topics |->
                    [topic[b] EXCEPT !.seen = topic[b].origin # {},
                                     !.known = @ \cup topic[b].origin]]
  ELSE topic

\* gatherRepoFacts: listWorktrees has no branch for a detached worktree, and so
\* leaves it out.
GatherRepoFacts ==
  /\ doctor = Well /\ scans < MaxScans
  /\ \E online, fix \in BOOLEAN :
       /\ topic' = Fetched(online)
       /\ doctor' = [pc |-> IF fix THEN "worktrees" ELSE "verdict",
                     branches |-> {b \in Topics : Alive(b)} \ {primary},
                     worktrees |-> {b \in Topics : Standing(b) /\ ~tree[b].detached},
                     todo |-> {}, at |-> NoCase]
  /\ scans' = scans + 1
  /\ UNCHANGED <<pull, tree, primary, moves>>

\* printFindings and the exit code.
ReportFindings ==
  /\ doctor.pc = "verdict"
  /\ doctor' = Well
  /\ UNCHANGED <<sessionVars, scans, moves>>

\* hasProvenGoneRemote, by the names under refs/remotes/origin at this moment.
GoneRemote(names) == {b \in names : ~topic[b].seen}

\* findReapCandidates and findBareBranchCandidates, from the facts gathered before
\* any worktree was removed.
FindReapCandidates ==
  /\ doctor.pc = "worktrees"
  /\ doctor' = [doctor EXCEPT !.pc = "judge tree",
                              !.todo = GoneRemote(doctor.branches) \cap doctor.worktrees]
  /\ UNCHANGED <<sessionVars, scans, moves>>
FindBareBranchCandidates ==
  /\ doctor.pc = "judge tree" /\ doctor.todo = {} /\ doctor.at = NoCase
  /\ doctor' = [doctor EXCEPT !.pc = "judge branch",
                              !.todo = GoneRemote(doctor.branches) \ doctor.worktrees]
  /\ UNCHANGED <<sessionVars, scans, moves>>
DoctorEnds ==
  /\ doctor.pc = "judge branch" /\ doctor.todo = {} /\ doctor.at = NoCase
  /\ doctor' = [doctor EXCEPT !.pc = "verdict"]
  /\ UNCHANGED <<sessionVars, scans, moves>>

Keep == doctor' = [doctor EXCEPT !.at = NoCase]
AskNext(b, step) == doctor' = [doctor EXCEPT !.todo = @ \ {b}, !.at = [branch |-> b, step |-> step]]

\* reapCandidate: the worktree's HEAD and its claim. A claim older than
\* FLEET_CLAIM_STALE_AFTER_MS is cleared; one whose age cannot be read is live.
CheckClaim ==
  /\ doctor.pc = "judge tree" /\ doctor.at = NoCase
  /\ \E b \in doctor.todo :
       /\ Standing(b)
       /\ LET live == tree[b].claim = "young" \/ tree[b].detached
          IN  /\ tree' = IF tree[b].claim = "old" THEN [tree EXCEPT ![b].claim = "none"] ELSE tree
              /\ IF live THEN doctor' = [doctor EXCEPT !.todo = @ \ {b}] ELSE AskNext(b, "clean?")
  /\ UNCHANGED <<topic, pull, primary, scans, moves>>

\* A worktree that has gone in the meantime: git fails, and the command ends.
WorktreeIsGone ==
  /\ doctor.pc = "judge tree" /\ doctor.at = NoCase
  /\ \E b \in doctor.todo : ~Standing(b)
  /\ doctor' = Well
  /\ UNCHANGED <<sessionVars, scans, moves>>

\* hasUncommittedChanges: a claim is an untracked directory.
Unclean(b) == tree[b].dirty \/ tree[b].claim # "none"
CheckClean ==
  /\ doctor.at.step = "clean?"
  /\ IF ~Standing(doctor.at.branch) THEN doctor' = Well
     ELSE IF Unclean(doctor.at.branch) THEN Keep
     ELSE doctor' = [doctor EXCEPT !.at.step = "pull request?"]
  /\ UNCHANGED <<sessionVars, scans, moves>>

\* reapBareBranch starts with GitHub.
JudgeBranch ==
  /\ doctor.pc = "judge branch" /\ doctor.at = NoCase
  /\ \E b \in doctor.todo : AskNext(b, "pull request?")
  /\ UNCHANGED <<sessionVars, scans, moves>>

\* prVerdictForBranch: open wins over merged. GitHub may not answer.
Verdict(b) == CASE pull[b].open -> "open"
                [] ~pull[b].open /\ pull[b].merged # {} -> "merged"
                [] OTHER -> "not merged"
AskVerdict ==
  /\ doctor.at.step = "pull request?"
  /\ \/ Verdict(doctor.at.branch) = "merged" /\ doctor' = [doctor EXCEPT !.at.step = "contained?"]
     \/ Keep
  /\ UNCHANGED <<sessionVars, scans, moves>>

\* Mutant: a merged pull request of that name is enough.
MergedIsEnough(b, tip) == TRUE

\* headSha or branchSha, mergedHeadSha and isAncestor. A head the clone never
\* fetched leaves it undecided, which keeps.
MergeContains(b, tip) == tip \subseteq pull[b].merged /\ pull[b].merged \subseteq topic[b].known

\* A vanished worktree or branch has no sha.
AskContained ==
  /\ doctor.at.step = "contained?"
  /\ LET b == doctor.at.branch
         there == IF doctor.pc = "judge tree" THEN Standing(b) ELSE Alive(b)
     IN  \/ there /\ MergeContains(b, topic[b].tip) /\ doctor' = [doctor EXCEPT !.at.step = "reap"]
         \/ Keep
  /\ UNCHANGED <<sessionVars, scans, moves>>

\* Mutant: git worktree remove --force.
RemoveForced(b) == TRUE

\* git worktree remove refuses one with changed or untracked files, git branch -D
\* a branch that is checked out.
MayRemoveWorktree(b) == Standing(b) /\ ~Unclean(b)
MayDeleteBranch(b) == Alive(b) /\ primary # b /\ ~(Standing(b) /\ ~tree[b].detached)

Reap ==
  /\ doctor.at.step = "reap"
  /\ LET b == doctor.at.branch
     IN  \/ /\ doctor.pc = "judge tree" /\ MayRemoveWorktree(b)
            /\ tree' = [tree EXCEPT ![b] = NoTree]
            /\ UNCHANGED topic
         \/ /\ doctor.pc = "judge branch" /\ MayDeleteBranch(b)
            /\ topic' = [topic EXCEPT ![b].tip = {}]
            /\ UNCHANGED tree
         \/ UNCHANGED <<topic, tree>>
  /\ Keep
  /\ UNCHANGED <<pull, primary, scans, moves>>

DoctorStep ==
  \/ GatherRepoFacts \/ ReportFindings \/ FindReapCandidates \/ FindBareBranchCandidates
  \/ DoctorEnds \/ CheckClaim \/ WorktreeIsGone \/ CheckClean \/ JudgeBranch
  \/ AskVerdict \/ AskContained \/ Reap

-----------------------------------------------------------------------------
(* The sessions, and GitHub *)

Move == moves < MaxMoves /\ moves' = moves + 1 /\ UNCHANGED <<doctor, scans>>

\* A commit nobody has yet, here or on GitHub.
Held(b) == topic[b].tip \cup topic[b].origin \cup topic[b].known \cup pull[b].merged
MoreToCommit(b) == Commits \ Held(b) # {}
NewCommit(b) == CHOOSE c \in Commits : c \notin Held(b)

\* A session works in the worktree of b, at any moment; but it does not leave the
\* branch again within the seconds the doctor takes to judge it.
Judged(b) == doctor.at.branch = b
InWorktree(b, new) == tree' = [tree EXCEPT ![b] = new] /\ UNCHANGED <<pull, primary>>

Edit ==
  /\ Move
  /\ \E b \in Topics : Standing(b) /\ InWorktree(b, [tree[b] EXCEPT !.dirty = TRUE])
  /\ UNCHANGED topic
CommitWork ==
  /\ Move
  /\ \E b \in Topics :
       /\ Standing(b) /\ tree[b].dirty /\ ~tree[b].detached /\ MoreToCommit(b)
       /\ InWorktree(b, [tree[b] EXCEPT !.dirty = FALSE])
       /\ topic' = [topic EXCEPT ![b].tip = @ \cup {NewCommit(b)},
                                 ![b].known = @ \cup {NewCommit(b)}]
Claim ==
  /\ Move
  /\ \E b \in Topics : Standing(b) /\ InWorktree(b, [tree[b] EXCEPT !.claim = "young"])
  /\ UNCHANGED topic
ClaimAges ==
  /\ Move
  /\ \E b \in Topics : Standing(b) /\ tree[b].claim = "young" /\ ~Judged(b)
                       /\ InWorktree(b, [tree[b] EXCEPT !.claim = "old"])
  /\ UNCHANGED topic
Detach ==
  /\ Move
  /\ \E b \in Topics : Standing(b) /\ ~tree[b].dirty /\ ~Judged(b)
                       /\ InWorktree(b, [tree[b] EXCEPT !.detached = ~@])
  /\ UNCHANGED topic
CloseWorktree ==
  /\ Move
  /\ \E b \in Topics : Standing(b) /\ ~Unclean(b) /\ ~Judged(b) /\ InWorktree(b, NoTree)
  /\ UNCHANGED topic
OpenWorktree ==
  /\ Move
  /\ \E b \in Topics : ~Standing(b) /\ Alive(b) /\ primary # b /\ InWorktree(b, NewTree)
  /\ UNCHANGED topic

\* A push, from here or by somebody else: then GitHub has a commit the clone has not,
\* and a commit made here on top of the old tip is not in what gets merged.
PushWork ==
  /\ Move
  /\ \E b \in Topics :
       \/ /\ Alive(b) /\ topic[b].origin \subseteq topic[b].tip /\ topic[b].tip # topic[b].origin
          /\ topic' = [topic EXCEPT ![b].origin = topic[b].tip, ![b].seen = TRUE]
       \/ /\ topic[b].origin # {} /\ MoreToCommit(b)
          /\ topic' = [topic EXCEPT ![b].origin = @ \cup {NewCommit(b)}]
  /\ UNCHANGED <<pull, tree, primary>>

OpenPull ==
  /\ Move
  /\ \E b \in Topics : /\ topic[b].origin # {} /\ ~pull[b].open
                       /\ pull' = [pull EXCEPT ![b].open = TRUE]
  /\ UNCHANGED <<topic, tree, primary>>

\* Squash-merged, or closed, and the branch deleted on GitHub.
ResolvePull ==
  /\ Move
  /\ \E b \in Topics :
       /\ pull[b].open
       /\ topic' = [topic EXCEPT ![b].origin = {}]
       /\ \/ pull' = [pull EXCEPT ![b].open = FALSE, ![b].merged = topic[b].origin]
          \/ pull' = [pull EXCEPT ![b].open = FALSE, ![b].closed = TRUE]
  /\ UNCHANGED <<tree, primary>>

\* git switch in the primary checkout.
SwitchPrimary ==
  /\ Move
  /\ primary' \in ({"dev"} \cup {b \in Topics : Alive(b) /\ ~Standing(b)}) \ {primary}
  /\ UNCHANGED <<topic, pull, tree>>

SessionStep ==
  \/ Edit \/ CommitWork \/ Claim \/ ClaimAges \/ Detach \/ CloseWorktree \/ OpenWorktree
  \/ PushWork \/ OpenPull \/ ResolvePull \/ SwitchPrimary

ReaperNext == DoctorStep \/ SessionStep
ReaperSpec == ReaperInit /\ [][ReaperNext]_reaperVars

-----------------------------------------------------------------------------
(* What --fix never costs anybody *)

\* A branch the doctor deletes has nothing that was not merged: every commit of its
\* last tip is in the head GitHub recorded, whatever was committed, pushed or merged
\* while it was being judged.
DeletedBranchesHaveShipped ==
  [][\A b \in Topics :
       topic[b].tip # {} /\ topic'[b].tip = {} => topic[b].tip \subseteq pull[b].merged]_reaperVars

\* A worktree the doctor removes has no uncommitted work and nobody's claim at that
\* moment, and its branch's commits stay.
SessionsKeepTheirWorktree ==
  [][\A b \in Topics :
       doctor.pc = "judge tree" /\ doctor' # doctor /\ tree[b] # NoTree /\ tree'[b] = NoTree =>
         ~tree[b].dirty /\ tree[b].claim = "none" /\ topic'[b].tip = topic[b].tip]_reaperVars
=============================================================================
