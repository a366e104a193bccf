--------------------------- MODULE ClosingKeywords --------------------------
(***************************************************************************)
(* The guard over a pull request's closing keywords                        *)
(* (check-closing-keywords.mjs, a step of the required check Release       *)
(* Guards), beside the people who rewrite the pull request while it runs   *)
(* and the merge that GitHub acts on.                                      *)
(*                                                                         *)
(* A document is the set of the forms in which it puts a closing keyword   *)
(* before an issue: a directive ("Closes #1." as a clause of its own), in  *)
(* passing ("the fix #1 asked for"), denied ("does not close #1") or       *)
(* quoted (in passing, in a code span).  A denial the guard does not know  *)
(* ("no longer closes #1") is one in passing.  Links made by hand on the   *)
(* pull request's page are asked for as such, and left out.                *)
(***************************************************************************)
EXTENDS Naturals, FiniteSets

CONSTANTS BodyTexts, TitleTexts, MessageTexts,   \* documents people write
          MaxRewrites                            \* bound

VARIABLES
  draft,     \* the pull request: [body, trailer, title, messages, deployOnly]
  rewrites,  \* how often it was rewritten
  unsent,    \* a change of it whose event has not started a run yet
  reading,   \* the run: what it reads next, what it has read, and whether its head is the head
  verdict,   \* the required check on the head: "none", "running", "green" or "red"
  entry,     \* its place in the merge queue: "out", "in", or "outdated" by an unchecked rewrite
  mergedIn   \* it is merged

keywordVars == <<draft, rewrites, unsent, reading, verdict, entry, mergedIn>>

Drafts == [body : BodyTexts, trailer : BOOLEAN, title : TitleTexts,
           messages : MessageTexts, deployOnly : BOOLEAN]

----------------------------------------------------------------------------
(* What GitHub closes.  The linker reads the body as markdown; the squash  *)
(* commit is the title and the messages as they stand, code spans and all. *)
Rendered(document) == document \ {"quoted"}
LinkedIssues(d) == Rendered(d.body) # {}
ClosedByMessages(d) == d.messages # {}

----------------------------------------------------------------------------
(* What the guard makes of what it has read.  Body and title are scanned   *)
(* without their code spans (stripCode), messages with them.               *)
Documents(d) == {Rendered(d.body), Rendered(d.title), d.messages}
Negated(d) == \E document \in Documents(d) : "denied" \in document
Deliberate(d) == \E document \in Documents(d) : "directive" \in document
Hits(d) == {document \in Documents(d) : document # {}}

(* The order of the questions is the code's: a denial, a link nobody made  *)
(* on purpose, nothing at all, a message's keyword nobody made on purpose, *)
(* and keywords on paths a green suite is no evidence for.                 *)
Assess(d, linked) ==
  /\ ~Negated(d)
  /\ linked => Deliberate(d)
  /\ \/ Hits(d) = {}
     \/ ~d.deployOnly /\ (d.messages = {} \/ Deliberate(d))
     \/ d.deployOnly /\ d.trailer

----------------------------------------------------------------------------
NoReading == [at |-> "nothing"]

(* A run of the workflow cancels the one before it (concurrency).  The     *)
(* difference is the checkout's, which is of the head the run is for.      *)
StartRun ==
  /\ reading' = [at |-> "body", d |-> draft, linked |-> FALSE, current |-> TRUE]
  /\ verdict' = "running"

(* Mutant: the types GitHub listens to unless told. *)
DefaultTypes == {"opened", "synchronize", "reopened"}

(* What of a pull request starts the workflow, beside the merge queue. *)
Types == {"opened", "synchronize", "reopened", "edited"}

DeliverEvent ==
  /\ unsent /\ unsent' = FALSE
  /\ StartRun
  /\ UNCHANGED <<draft, rewrites, entry, mergedIn>>

(* gh run rerun --failed: there is no new event, and what is read is live. *)
RunAnew ==
  /\ verdict = "red" /\ StartRun
  /\ UNCHANGED <<draft, rewrites, unsent, entry, mergedIn>>

Reads(step) == reading.at = step /\ UNCHANGED <<draft, rewrites, unsent, verdict, entry, mergedIn>>

(* resolveBody, resolveTitle, resolveCommits and the links, each read from *)
(* the API as it is at that moment.                                        *)
ReadBody ==
  /\ Reads("body")
  /\ reading' = [reading EXCEPT !.at = "title", !.d.body = draft.body, !.d.trailer = draft.trailer]
ReadTitle ==
  /\ Reads("title")
  /\ reading' = [reading EXCEPT !.at = "messages", !.d.title = draft.title]
ReadMessages ==
  /\ Reads("messages")
  /\ reading' = [reading EXCEPT !.at = "links", !.d.messages = draft.messages]
ReadLinks ==
  /\ Reads("links")
  /\ reading' = [reading EXCEPT !.at = "diff", !.linked = LinkedIssues(draft)]

(* The check run belongs to the head the run was started for. *)
Conclusion(said) ==
  /\ reading' = NoReading
  /\ verdict' = IF reading.current THEN said ELSE verdict
  /\ UNCHANGED <<draft, rewrites, unsent, entry, mergedIn>>

Judge == reading.at = "diff" /\ Conclusion(IF Assess(reading.d, reading.linked) THEN "green" ELSE "red")

(* A read that fails fails the check, as does another of the job's guards. *)
FailToRead == reading # NoReading /\ Conclusion("red")

----------------------------------------------------------------------------
MayRewrite == ~mergedIn /\ rewrites < MaxRewrites /\ rewrites' = rewrites + 1
Outdated == IF entry = "out" THEN "out" ELSE "outdated"

(* Somebody edits the description, before, during or after a run. *)
Rewrite(body, trailer, title) ==
  /\ MayRewrite
  /\ draft' = [draft EXCEPT !.body = body, !.trailer = trailer, !.title = title]
  /\ draft' # draft
  /\ unsent' = (unsent \/ "edited" \in Types)
  /\ entry' = Outdated
  /\ UNCHANGED <<reading, verdict, mergedIn>>

(* Commits are pushed or replaced: a new head, which no check is on yet,   *)
(* and which leaves the queue.                                             *)
PushCommits(messages, deployOnly) ==
  /\ MayRewrite
  /\ draft' = [draft EXCEPT !.messages = messages, !.deployOnly = deployOnly]
  /\ unsent' = (unsent \/ "synchronize" \in Types)
  /\ reading' = IF reading = NoReading THEN NoReading ELSE [reading EXCEPT !.current = FALSE]
  /\ verdict' = "none"
  /\ entry' = "out"
  /\ UNCHANGED mergedIn

MergeNow ==
  /\ ~mergedIn /\ verdict = "green" /\ entry = "out"
  /\ mergedIn' = TRUE
  /\ UNCHANGED <<draft, rewrites, unsent, reading, verdict, entry>>

JoinQueue ==
  /\ ~mergedIn /\ verdict = "green" /\ entry = "out"
  /\ entry' = IF unsent THEN "outdated" ELSE "in"
  /\ UNCHANGED <<draft, rewrites, unsent, reading, verdict, mergedIn>>

(* On merge_group the job reports success and looks at nothing. *)
MergeQueued ==
  /\ ~mergedIn /\ entry # "out"
  /\ mergedIn' = TRUE
  /\ UNCHANGED <<draft, rewrites, unsent, reading, verdict, entry>>

KeywordsInit ==
  /\ draft \in Drafts
  /\ rewrites = 0 /\ unsent = TRUE
  /\ reading = NoReading /\ verdict = "none" /\ entry = "out" /\ mergedIn = FALSE

KeywordsNext ==
  \/ ~mergedIn /\ (DeliverEvent \/ RunAnew)
  \/ ~mergedIn /\ (ReadBody \/ ReadTitle \/ ReadMessages \/ ReadLinks \/ Judge \/ FailToRead)
  \/ \E body \in BodyTexts, trailer \in BOOLEAN, title \in TitleTexts : Rewrite(body, trailer, title)
  \/ \E messages \in MessageTexts, deployOnly \in BOOLEAN : PushCommits(messages, deployOnly)
  \/ MergeNow \/ JoinQueue \/ MergeQueued

KeywordsSpec == KeywordsInit /\ [][KeywordsNext]_keywordVars

----------------------------------------------------------------------------
(* A merge closes no issue against its author's word or unasked: whatever  *)
(* was rewritten between the guard's four reads, between two runs or       *)
(* before the merge, a merged pull request denies nothing it closes, what  *)
(* its body or its messages close somebody asked for, and on deploy-only   *)
(* paths nothing it shows closes without the evidence.  Not so for a       *)
(* rewrite that no run had answered when it was merged or queued or that   *)
(* came in the queue, and for a message's keyword beside the evidence.     *)
MergeClosesWhatWasAsked ==
  mergedIn /\ ~unsent /\ entry # "outdated" =>
    /\ ~Negated(draft)
    /\ LinkedIssues(draft) => Deliberate(draft)
    /\ ClosedByMessages(draft) => Deliberate(draft) \/ (draft.deployOnly /\ draft.trailer)
    /\ draft.deployOnly /\ ~draft.trailer => Hits(draft) = {}
=============================================================================
