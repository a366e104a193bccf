--------------------------- MODULE MigrationGuard ---------------------------
(***************************************************************************)
(* The template's guard on migrations it has released: whoever edits the   *)
(* DDL of one says, in a `# biffo:body-change:' line directly above each   *)
(* statement the edit touches, what it means for a database that has run   *)
(* the old text (migration-body-change-guard.ts, core-migrations.ts).      *)
(*                                                                         *)
(* One migration file is the sequence of its lines.  A line is a text; the *)
(* texts that are code open a bracket, close one, or are balanced.  What   *)
(* counts as prose - comments, blank lines, docstrings, the revision       *)
(* assignments - does so wherever it stands.  dev is strictly protected: a *)
(* pull request is merged onto the dev it was checked against.             *)
(***************************************************************************)
EXTENDS Naturals, Sequences, FiniteSets, SequencesExt

CONSTANTS Balanced, Opening, Closing,   \* texts that are code
          WellFormed, Malformed,        \* texts that are markers
          Prose,                        \* other texts that are not code
          FirstVersions,                \* what dev may begin with
          MaxDiffCells,                 \* MAX_DIFF_CELLS
          MaxLines, MaxLineEdits, MaxGuardedMerges   \* bounds

VARIABLES
  migration,    \* the file on dev, NoFile when there is none
  proposed,     \* the file on the pull request's branch
  lineEdits,    \* how many edits made it
  bodyVerdict,  \* what the required check says of the branch: none, passed, failed
  guardedMerges \* pull requests merged

migrationVars == <<migration, proposed, lineEdits, bodyVerdict, guardedMerges>>

NoFile == <<>>
Code == Balanced \cup Opening \cup Closing
MarkerTexts == WellFormed \cup Malformed
Texts == Code \cup MarkerTexts \cup Prose

----------------------------------------------------------------------------
(* migrationBodyHash, and isSubstantiveLine in it. *)
HashedBody(file) == SelectSeq(file, LAMBDA line : line \in Code)

(* pythonStatementGroups: how many brackets are open where a line begins.  *)
(* A closing one too many is not counted.                                  *)
OpenBrackets(file) ==
  LET depth[i \in 1..Len(file) + 1] ==
        IF i = 1 THEN 0
        ELSE CASE file[i - 1] \in Opening -> depth[i - 1] + 1
               [] file[i - 1] \in Closing /\ depth[i - 1] > 0 -> depth[i - 1] - 1
               [] OTHER -> depth[i - 1]
  IN  depth

StatementStarts(file) == {i \in 1..Len(file) : OpenBrackets(file)[i] = 0}
Statement(file, start) ==
  {i \in start..Len(file) : StatementStarts(file) \cap (start + 1)..i = {}}

(* computeMatchedNewLineIndices: the lines of `new' a longest common       *)
(* subsequence takes from `old', of several the one the walk comes upon;   *)
(* none for files too long for the table.                                  *)
Unchanged(old, new) ==
  LET common[i \in 1..Len(old) + 1, j \in 1..Len(new) + 1] ==
        IF i > Len(old) \/ j > Len(new) THEN 0
        ELSE IF old[i] = new[j] THEN common[i + 1, j + 1] + 1
        ELSE Max({common[i + 1, j], common[i, j + 1]})
      walk[i \in 1..Len(old) + 1, j \in 1..Len(new) + 1] ==
        IF i > Len(old) \/ j > Len(new) THEN {}
        ELSE IF old[i] = new[j] THEN {j} \cup walk[i + 1, j + 1]
        ELSE IF common[i + 1, j] >= common[i, j + 1] THEN walk[i + 1, j]
        ELSE walk[i, j + 1]
  IN  IF Len(old) * Len(new) > MaxDiffCells THEN {} ELSE walk[1, 1]

----------------------------------------------------------------------------
(* findEditScopedBodyChangeDeclarations: the statements that need a        *)
(* declaration, each by its first line.                                    *)
Asked(old, new) ==
  LET kept == Unchanged(old, new)
  IN  {s \in StatementStarts(new) : \E i \in Statement(new, s) \ kept : new[i] \in Code}

(* Mutant: a marker is taken for the edit's own however long it has been there. *)
NeverStale(old, marker) == FALSE

(* The marker's text was in the file before, there or anywhere else. *)
Stale(old, marker) == marker \in Range(old)

DeclaredAt(old, new, s) ==
  /\ s > 1 /\ new[s - 1] \in WellFormed
  /\ ~Stale(old, new[s - 1])

(* checkMigrationBodyChangeMarkers, of a file that was there and still is. *)
(* That no statement is asked about is refused too: an edit that only      *)
(* removes lines.                                                          *)
EditAllowed(old, new) ==
  \/ HashedBody(old) = HashedBody(new)
  \/ Asked(old, new) # {} /\ \A s \in Asked(old, new) : DeclaredAt(old, new, s)

(* A file that was added or deleted is not examined. *)
BodyChangeAllowed(old, new) == old = NoFile \/ new = NoFile \/ EditAllowed(old, new)

----------------------------------------------------------------------------
(* git push: a new head, that no check has run on. *)
Propose(file) ==
  /\ lineEdits < MaxLineEdits /\ guardedMerges < MaxGuardedMerges
  /\ proposed' = file /\ lineEdits' = lineEdits + 1 /\ bodyVerdict' = "none"
  /\ UNCHANGED <<migration, guardedMerges>>

InsertLine(i, line) == Len(proposed) < MaxLines /\ Propose(InsertAt(proposed, i, line))
DeleteLine(i) == Propose(RemoveAt(proposed, i))

(* The required check, on the pull request's head. *)
RunBodyChangeCheck ==
  /\ bodyVerdict = "none" /\ proposed # migration
  /\ bodyVerdict' = IF BodyChangeAllowed(migration, proposed) THEN "passed" ELSE "failed"
  /\ UNCHANGED <<migration, proposed, lineEdits, guardedMerges>>

(* The next pull request starts from what this one leaves on dev. *)
MergeProposed ==
  /\ bodyVerdict = "passed"
  /\ migration' = proposed /\ lineEdits' = 0 /\ bodyVerdict' = "none"
  /\ guardedMerges' = guardedMerges + 1
  /\ UNCHANGED proposed

MigrationInit ==
  /\ migration \in FirstVersions /\ proposed = migration
  /\ lineEdits = 0 /\ bodyVerdict = "none" /\ guardedMerges = 0

MigrationNext ==
  \/ \E i \in 1..Len(proposed) + 1, line \in Texts : InsertLine(i, line)
  \/ \E i \in 1..Len(proposed) : DeleteLine(i)
  \/ RunBodyChangeCheck
  \/ MergeProposed

MigrationSpec == MigrationInit /\ [][MigrationNext]_migrationVars

----------------------------------------------------------------------------
Occurrences(file, line) == {i \in 1..Len(file) : file[i] = line}

(* Whatever order pull requests edit a released migration in, and whatever *)
(* markers earlier ones left in it: a line of code dev gets more of stands *)
(* in a statement whose own marker was nowhere in the file before.  How    *)
(* the lines are matched does not come into it, nor does moving code.      *)
MergedEditsAreDeclared ==
  [][migration # NoFile =>
       \A line \in Code :
         Cardinality(Occurrences(migration', line)) > Cardinality(Occurrences(migration, line)) =>
           \E i \in Occurrences(migration', line), s \in 2..MaxLines :
             /\ i \in Statement(migration', s) /\ s \in StatementStarts(migration')
             /\ migration'[s - 1] \in WellFormed \ Range(migration)]_migrationVars
=============================================================================
