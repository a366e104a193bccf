---------------------------- MODULE MigrationCarry ----------------------------
(***************************************************************************)
(* How `biffo core upgrade' decides which of a release's Alembic           *)
(* migrations an instance still has to receive, and where in the           *)
(* instance's own chain they go: cli/src/lib/core-migrations.ts.           *)
(*                                                                         *)
(* A migration is a record: its file, <<number, description>>; its         *)
(* revision and down_revision; the hash of its body; and the template file *)
(* its provenance marker names, Unmarked when it has none. The text of a   *)
(* migration is not modelled.                                              *)
(***************************************************************************)
EXTENDS Naturals, Sequences, FiniteSets, SequencesExt

Root == <<>>             \* down_revision = None
Unmarked == <<>>         \* no `# biffo:carried-from:' line

Slug(file) == file[2]                            \* migrationSlug
Reissued(file) == <<"core", file[1], file[2]>>   \* reissuedRevisionId, of the file alone

Revisions(chain) == {m.rev : m \in chain}
ParentsIn(chain, m) == {p \in chain : p.rev = m.down}
Heads(chain) == {m \in chain : \A c \in chain : c.down # m.rev}

\* parseMigration and validateChain do not throw: every migration has a revision, they
\* are unique, every parent exists, and there are one base, one head and no cycle beside
\* them.
ValidChain(chain) ==
  \/ chain = {}
  \/ /\ \A m, n \in chain : m.rev # Root /\ (m.rev = n.rev => m = n)
     /\ \A m \in chain : m.down = Root \/ ParentsIn(chain, m) # {}
     /\ Cardinality({m \in chain : m.down = Root}) = 1
     /\ Cardinality(Heads(chain)) = 1
     /\ \A loop \in (SUBSET chain) \ {{}} :
          \E m \in loop : m.down = Root \/ ParentsIn(loop, m) = {}

\* The revision validateChain returns.
HeadOf(chain) ==
  IF chain = {} THEN Root ELSE (CHOOSE m \in Heads(chain) : TRUE).rev

\* The instance's migrations that are template migration m: by the provenance
\* marker, else by the file name, else by a body that occurs once on each side.
ByProvenance(m, instance) == {i \in instance : i.from = m.file}
ByFile(m, instance) == {i \in instance : i.file = m.file}
ByBody(m, instance, template) ==
  LET same == {i \in instance : i.body = m.body}
  IN  IF Cardinality(same) = 1 /\ Cardinality({t \in template : t.body = m.body}) = 1
      THEN same ELSE {}

\* Mutant: the provenance marker is not read.
CarriedUnmarked(m, instance, template) ==
  ByFile(m, instance) \cup ByBody(m, instance, template) # {}

AlreadyCarried(m, instance, template) ==
  ByProvenance(m, instance) \cup ByFile(m, instance) \cup ByBody(m, instance, template) # {}

\* "Refusing to guess": the same description, another body, no provenance.
Ambiguous(m, instance, template) ==
  /\ ~AlreadyCarried(m, instance, template)
  /\ \E i \in instance : Slug(i.file) = Slug(m.file) /\ i.from = Unmarked

\* The carried migrations' revision ids: of each its own, or the replacement when the
\* instance or one carried before it uses that.
Earlier(wanted, k) == {j \in wanted : j < k}
CarriedRevisions(release, wanted, used) ==
  LET revs[k \in wanted] ==
        IF release[k].rev \in used \cup {revs[j] : j \in Earlier(wanted, k)}
        THEN Reissued(release[k].file) ELSE release[k].rev
  IN  revs

\* planMigrationCarry, for the release's migrations in chain order: which of them are
\* carried, by their place in that order, each after the one carried before it.
\* `refused' when it throws. An instance whose chain is broken is not touched.
PlanMigrationCarry(release, instance, declined) ==
  LET template == Range(release)
      used == Revisions(instance)
      broken == ~ValidChain(instance)
      wanted == {k \in DOMAIN release : /\ ~broken /\ release[k].file \notin declined
                                        /\ ~AlreadyCarried(release[k], instance, template)}
      revs == CarriedRevisions(release, wanted, used)
      entries == [k \in wanted |->
        [file |-> release[k].file, rev |-> revs[k], body |-> release[k].body,
         down |-> IF Earlier(wanted, k) = {} THEN HeadOf(instance) ELSE revs[Max(Earlier(wanted, k))],
         from |-> release[k].file]]
  IN  [entries |-> entries,
       refused |-> \/ broken
                   \/ \E m \in template : m.file \notin declined /\ Ambiguous(m, instance, template)
                   \/ \E k \in wanted : revs[k] \in used \cup {revs[j] : j \in Earlier(wanted, k)}
                   \/ ~ValidChain(instance \cup Range(entries))]

\* applyMigrationCarry, once it has written the entries of `done'.
ApplyMigrationCarry(instance, entries, done) == instance \cup {entries[k] : k \in done}
=============================================================================
