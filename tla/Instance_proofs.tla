---------------------------- MODULE Instance_proofs ----------------------------
(***************************************************************************)
(* An instance: its core upgrades (CoreUpgrade), and how init makes it and *)
(* teardown unmakes it (InstanceLifecycle).                                *)
(*                                                                         *)
(* The upgrade: what its branch holds, what was planned for it, and which  *)
(* of the clone's branches are settled.                                    *)
(***************************************************************************)
EXTENDS CoreUpgrade, InstanceLifecycle, FiniteSetTheorems, SequenceTheorems, WellFoundedInduction, TLAPS

-----------------------------------------------------------------------------
(* Chains of migrations *)

IsHead(h, chain) == \A c \in chain : c.down # h.rev
OneBase(chain) == \E m \in chain : \A n \in chain : n.down = Root <=> n = m
OneHead(chain) == \E m \in chain : \A n \in chain : IsHead(n, chain) <=> n = m
NoLoop(chain) ==
  \A loop \in SUBSET chain : loop # {} =>
    \E m \in loop : m.down = Root \/ \A p \in loop : p.rev # m.down
Chained(chain) ==
  /\ \A m, n \in chain : m.rev # Root /\ (m.rev = n.rev => m = n)
  /\ \A m \in chain : m.down = Root \/ m.down \in Revisions(chain)
  /\ chain # {} => OneBase(chain) /\ OneHead(chain)
  /\ NoLoop(chain)

\* One element, told by counting or by name.
LEMMA OneIsOne ==
  ASSUME NEW S, IsFiniteSet(S)
  PROVE  Cardinality(S) = 1 <=> \E m \in S : \A n \in S : n = m
<1>1. Cardinality(S) = 1 <=> \E x : S = {x}
  BY FS_Singleton
<1> QED
  BY <1>1

LEMMA ValidIsChained ==
  ASSUME NEW chain, IsFiniteSet(chain)
  PROVE  ValidChain(chain) <=> Chained(chain)
<1> DEFINE bases == {m \in chain : m.down = Root}
<1>1. Cardinality(bases) = 1 <=> OneBase(chain)
  <2>1. IsFiniteSet(bases)
    BY FS_Subset
  <2>2. OneBase(chain) <=> \E m \in bases : \A n \in bases : n = m
    BY DEF OneBase
  <2> HIDE DEF bases
  <2> QED
    BY <2>1, <2>2, OneIsOne
<1>2. Cardinality(Heads(chain)) = 1 <=> OneHead(chain)
  <2>1. IsFiniteSet(Heads(chain))
    BY FS_Subset DEF Heads
  <2>2. OneHead(chain) <=> \E m \in Heads(chain) : \A n \in Heads(chain) : n = m
    BY DEF OneHead, IsHead, Heads
  <2> QED
    BY <2>1, <2>2, OneIsOne
<1>3. ASSUME NEW m \in chain
      PROVE  ParentsIn(chain, m) # {} <=> m.down \in Revisions(chain)
  BY DEF ParentsIn, Revisions
<1>4. (\A loop \in (SUBSET chain) \ {{}} : \E m \in loop : m.down = Root \/ ParentsIn(loop, m) = {})
        <=> NoLoop(chain)
  <2>1. \A loop, m : ParentsIn(loop, m) = {} <=> \A p \in loop : p.rev # m.down
    BY DEF ParentsIn
  <2> QED
    BY <2>1 DEF NoLoop
<1> HIDE DEF bases
<1>5. CASE chain = {}
  BY <1>5 DEF ValidChain, Chained, NoLoop
<1>6. CASE chain # {}
  BY <1>1, <1>2, <1>3, <1>4, <1>6 DEF ValidChain, Chained, bases
<1> QED
  BY <1>5, <1>6

\* The head of a chain is the one migration that is no other's parent.
LEMMA HeadIsHead ==
  ASSUME NEW chain, Chained(chain), chain # {}
  PROVE  \E h \in chain : h.rev = HeadOf(chain) /\ \A n \in chain : IsHead(n, chain) <=> n = h
<1>1. PICK h \in chain : \A n \in chain : IsHead(n, chain) <=> n = h
  BY DEF Chained, OneHead
<1>2. Heads(chain) = {h}
  BY <1>1 DEF Heads, IsHead
<1> DEFINE top == CHOOSE m \in Heads(chain) : TRUE
<1>3. HeadOf(chain) = top.rev
  BY DEF HeadOf
<1>4. top = h
  BY <1>2
<1> HIDE DEF top
<1> QED
  BY <1>1, <1>3, <1>4

\* A migration with a new revision on the head.
LEMMA OnTheHead ==
  ASSUME NEW chain, Chained(chain), NEW x, x.rev # Root, x.rev \notin Revisions(chain),
         x.down = HeadOf(chain)
  PROVE  Chained(chain \cup {x})
<1> DEFINE new == chain \cup {x}
<1>0. \A m \in chain : m.down = Root \/ m.down \in Revisions(chain)
  BY DEF Chained
<1>1. \A m \in chain : m.rev # x.rev /\ m.down # x.rev
  BY <1>0 DEF Revisions
<1>2. x.down # x.rev
  <2>1. CASE chain = {}
    BY <2>1 DEF HeadOf
  <2>2. CASE chain # {}
    BY <2>2, HeadIsHead, <1>1
  <2> QED
    BY <2>1, <2>2
<1>3. \A m, n \in new : m.rev # Root /\ (m.rev = n.rev => m = n)
  BY <1>1 DEF Chained
<1>4. \A m \in new : m.down = Root \/ m.down \in Revisions(new)
  <2>1. x.down = Root \/ x.down \in Revisions(chain)
    BY HeadIsHead DEF HeadOf, Revisions
  <2> QED
    BY <2>1, <1>0 DEF Revisions
<1>5. OneBase(new) /\ OneHead(new)
  <2>1. CASE chain = {}
    <3>1. x.down = Root
      BY <2>1 DEF HeadOf
    <3> QED
      BY <2>1, <3>1, <1>2 DEF OneBase, OneHead, IsHead
  <2>2. CASE chain # {}
    <3>1. PICK h \in chain : h.rev = HeadOf(chain) /\ \A n \in chain : IsHead(n, chain) <=> n = h
      BY <2>2, HeadIsHead
    <3>2. x.down = h.rev /\ x.down # Root
      BY <3>1 DEF Chained
    <3>3. OneBase(new)
      <4>1. PICK m \in chain : \A n \in chain : n.down = Root <=> n = m
        BY <2>2 DEF Chained, OneBase
      <4>2. x # m
        BY <1>1
      <4> QED
        BY <4>1, <4>2, <3>2 DEF OneBase
    <3>4. \A n \in new : IsHead(n, new) <=> n = x
      <4>1. IsHead(x, new)
        BY <1>1, <1>2 DEF IsHead
      <4>2. ASSUME NEW n \in chain PROVE ~IsHead(n, new)
        <5>1. CASE n = h
          BY <5>1, <3>2 DEF IsHead
        <5>2. CASE n # h
          BY <5>2, <3>1 DEF IsHead
        <5> QED
          BY <5>1, <5>2
      <4>3. x \notin chain
        BY <1>1
      <4> QED
        BY <4>1, <4>2, <4>3
    <3> QED
      BY <3>3, <3>4 DEF OneHead
  <2> QED
    BY <2>1, <2>2
<1>6. NoLoop(new)
  <2> SUFFICES ASSUME NEW loop \in SUBSET new, loop # {}
               PROVE  \E m \in loop : m.down = Root \/ \A p \in loop : p.rev # m.down
    BY DEF NoLoop
  <2>1. CASE loop \ {x} = {}
    BY <2>1, <1>2
  <2>2. CASE loop \ {x} # {}
    <3>1. PICK m \in loop \ {x} : m.down = Root \/ \A p \in loop \ {x} : p.rev # m.down
      BY <2>2 DEF Chained, NoLoop
    <3> QED
      BY <3>1, <1>1
  <2> QED
    BY <2>1, <2>2
<1> HIDE DEF new
<1>7. Chained(new)
  BY <1>3, <1>4, <1>5, <1>6 DEF Chained
<1> QED
  BY <1>7 DEF new

\* Renaming or rewriting a migration moves nothing in the chain.
LEMMA RevisedInPlace ==
  ASSUME NEW chain, Chained(chain), NEW m \in chain, NEW x, x.rev = m.rev, x.down = m.down
  PROVE  Chained((chain \ {m}) \cup {x})
<1> DEFINE new == (chain \ {m}) \cup {x}
<1>1. \A n, o \in new : n.rev # Root /\ (n.rev = o.rev => n = o)
  BY DEF Chained
<1>2. Revisions(new) = Revisions(chain)
  BY DEF Revisions
<1>3. \A n \in new : n.down = Root \/ n.down \in Revisions(new)
  BY <1>2 DEF Chained
<1>4. OneBase(new)
  <2>1. PICK b \in chain : \A n \in chain : n.down = Root <=> n = b
    BY DEF Chained, OneBase
  <2>2. CASE b = m
    BY <2>1, <2>2 DEF OneBase
  <2>3. CASE b # m
    BY <2>1, <2>3 DEF OneBase
  <2> QED
    BY <2>2, <2>3
<1>5. OneHead(new)
  <2>1. PICK h \in chain : \A n \in chain : IsHead(n, chain) <=> n = h
    BY DEF Chained, OneHead
  <2>2. \A n : IsHead(n, new) <=> IsHead(n, chain)
    BY DEF IsHead
  <2>3. IsHead(x, chain) <=> IsHead(m, chain)
    BY DEF IsHead
  <2>4. CASE h = m
    BY <2>1, <2>2, <2>3, <2>4 DEF OneHead
  <2>5. CASE h # m
    BY <2>1, <2>2, <2>3, <2>5 DEF OneHead
  <2> QED
    BY <2>4, <2>5
<1>6. NoLoop(new)
  <2> SUFFICES ASSUME NEW loop \in SUBSET new, loop # {}
               PROVE  \E n \in loop : n.down = Root \/ \A p \in loop : p.rev # n.down
    BY DEF NoLoop
  <2>1. CASE x \notin loop
    BY <2>1 DEF Chained, NoLoop
  <2>2. CASE x \in loop
    <3> DEFINE old == (loop \ {x}) \cup {m}
    <3>1. old \in SUBSET chain /\ old # {}
      OBVIOUS
    <3>2. PICK n \in old : n.down = Root \/ \A p \in old : p.rev # n.down
      BY <3>1 DEF Chained, NoLoop
    <3>3. CASE n = m
      BY <2>2, <3>2, <3>3
    <3>4. CASE n # m
      BY <2>2, <3>2, <3>4
    <3> QED
      BY <3>3, <3>4
  <2> QED
    BY <2>1, <2>2
<1> HIDE DEF new
<1>7. Chained(new)
  BY <1>1, <1>3, <1>4, <1>5, <1>6 DEF Chained
<1> QED
  BY <1>7 DEF new

-----------------------------------------------------------------------------
(* What is carried *)

LEMMA SetOfNatHasLeast ==
  ASSUME NEW S, S \subseteq Nat, S # {}
  PROVE  \E i \in S : \A j \in S : i <= j
<1> DEFINE T == {0..n : n \in S}
<1>1. T \subseteq FiniteSubsetsOf(Nat) /\ T # {}
  <2>1. ASSUME NEW n \in Nat PROVE 0..n \in FiniteSubsetsOf(Nat)
    <3>1. IsFiniteSet(0..n) /\ 0..n \subseteq Nat
      BY FS_Interval
    <3> QED
      BY <3>1 DEF FiniteSubsetsOf
  <2> QED
    BY <2>1
<1>2. PICK x \in T : \A y \in T : <<y, x>> \notin StrictSubsetOrdering(Nat)
  BY <1>1, FS_StrictSubsetOrderingWellFounded, WFMin
<1>3. PICK i \in S : x = 0..i
  OBVIOUS
<1>4. ASSUME NEW j \in S, j < i PROVE FALSE
  <2>1. 0..j \in T /\ 0..j \subseteq 0..i /\ i \in 0..i /\ i \notin 0..j
    BY <1>4
  <2>2. <<0..j, x>> \in StrictSubsetOrdering(Nat)
    BY <1>3, <2>1 DEF StrictSubsetOrdering
  <2> QED
    BY <1>2, <2>1, <2>2
<1> QED
  BY <1>4

LEMMA MaxIsGreatest ==
  ASSUME NEW L \in Nat, NEW S, S \subseteq 1..L, S # {}
  PROVE  Max(S) \in S /\ \A j \in S : j <= Max(S)
<1> DEFINE bounds == {n \in Nat : \A j \in S : j <= n}
<1>1. L \in bounds /\ bounds \subseteq Nat
  OBVIOUS
<1>2. PICK u \in bounds : \A n \in bounds : u <= n
  BY <1>1, SetOfNatHasLeast
<1>3. u \in S
  <2> SUFFICES ASSUME u \notin S PROVE FALSE
    OBVIOUS
  <2>1. u \in Nat /\ \A j \in S : j \in Nat /\ j <= u /\ j # u
    OBVIOUS
  <2>2. PICK j \in S : TRUE
    OBVIOUS
  <2>3. u - 1 \in Nat /\ \A i \in S : i <= u - 1
    BY <2>1, <2>2
  <2>4. u - 1 \in bounds
    BY <2>3
  <2> QED
    BY <1>2, <2>1, <2>4
<1>4. u \in S /\ \A j \in S : u >= j
  BY <1>3
<1> DEFINE max == CHOOSE x \in S : \A y \in S : x >= y
<1>5. max \in S /\ \A y \in S : max >= y
  BY <1>4
<1>6. Max(S) = max
  BY DEF Max
<1> HIDE DEF max
<1> QED
  BY <1>5, <1>6

\* The entries of a plan have new revisions and follow each other from the head of the chain.
Follows(entries, k, chain) ==
  entries[k].down = IF Earlier(DOMAIN entries, k) = {} THEN HeadOf(chain)
                    ELSE entries[Max(Earlier(DOMAIN entries, k))].rev
Linked(entries, chain) ==
  \A k \in DOMAIN entries :
    /\ entries[k].rev # Root /\ entries[k].rev \notin Revisions(chain)
    /\ \A j \in Earlier(DOMAIN entries, k) : entries[j].rev # entries[k].rev
    /\ Follows(entries, k, chain)

\* The entries written so far: those before some of them, or all.
SoFar(done, entries) ==
  /\ done \subseteq DOMAIN entries
  /\ \A k \in done : Earlier(DOMAIN entries, k) \subseteq done

\* However far the carry came, the chain is one.
LEMMA CarriedSoFar ==
  ASSUME NEW chain, Chained(chain), NEW L \in Nat, NEW entries, DOMAIN entries \subseteq 1..L,
         Linked(entries, chain), NoLoop(chain \cup Range(entries)),
         NEW done, SoFar(done, entries)
  PROVE  Chained(ApplyMigrationCarry(chain, entries, done))
<1> DEFINE carried == {entries[k] : k \in done}
           new == chain \cup carried
           before(k) == Earlier(DOMAIN entries, k)
<1>1. /\ done \subseteq DOMAIN entries /\ done \subseteq 1..L
      /\ \A k \in done : /\ before(k) \subseteq done /\ before(k) \subseteq 1..L
                         /\ before(k) = {j \in DOMAIN entries : j < k}
  BY DEF SoFar, Earlier
<1>2. \A k \in done : entries[k].rev # Root /\ entries[k].rev \notin Revisions(chain)
  BY <1>1 DEF Linked
<1>3. \A j, k \in done : entries[j].rev = entries[k].rev => j = k
  <2>1. \A j, k \in done : j < k => entries[j].rev # entries[k].rev
    BY <1>1 DEF Linked
  <2>2. \A j, k \in done : j = k \/ j < k \/ k < j
    BY <1>1
  <2> QED
    BY <2>1, <2>2
<1>4. ASSUME NEW k \in done, before(k) = {}
      PROVE  entries[k].down = HeadOf(chain)
  BY <1>1, <1>4 DEF Linked, Follows
<1>5. ASSUME NEW k \in done, before(k) # {}
      PROVE  \E j \in done : /\ j < k /\ \A i \in done : i < k => i <= j
                             /\ entries[k].down = entries[j].rev
  <2>1. Max(before(k)) \in before(k) /\ \A i \in before(k) : i <= Max(before(k))
    BY <1>1, <1>5, MaxIsGreatest
  <2>2. entries[k].down = entries[Max(before(k))].rev
    BY <1>1, <1>5 DEF Linked, Follows
  <2> DEFINE j == Max(before(k))
  <2> HIDE DEF j
  <2>3. j \in done /\ j < k /\ \A i \in done : i < k => i <= j
    BY <1>1, <2>1 DEF j
  <2> QED
    BY <2>2, <2>3 DEF j
<1> HIDE DEF before
<1>6. \A m, n \in new : m.rev # Root /\ (m.rev = n.rev => m = n)
  <2>1. \A m, n \in chain : m.rev # Root /\ (m.rev = n.rev => m = n)
    BY DEF Chained
  <2>2. \A m \in chain, k \in done : m.rev # entries[k].rev
    BY <1>2 DEF Revisions
  <2> QED
    BY <2>1, <2>2, <1>2, <1>3
<1>7. \A m \in new : m.down = Root \/ m.down \in Revisions(new)
  <2>1. \A m \in chain : m.down = Root \/ m.down \in Revisions(new)
    BY DEF Chained, Revisions
  <2>2. HeadOf(chain) = Root \/ HeadOf(chain) \in Revisions(new)
    BY HeadIsHead DEF HeadOf, Revisions
  <2>3. ASSUME NEW k \in done
        PROVE  entries[k].down = Root \/ entries[k].down \in Revisions(new)
    BY <1>4, <1>5, <2>2 DEF Revisions
  <2> QED
    BY <2>1, <2>3
<1>8. NoLoop(new)
  <2>1. new \subseteq chain \cup Range(entries)
    BY <1>1 DEF Range
  <2> QED
    BY <2>1 DEF NoLoop
<1>9. ASSUME done # {} PROVE OneBase(new) /\ OneHead(new)
  <2>1. PICK first \in done : \A i \in done : first <= i
    BY <1>1, <1>9, SetOfNatHasLeast
  <2>2. PICK last \in done : \A i \in done : i <= last
    BY <1>1, <1>9, MaxIsGreatest
  <2>3. \A k \in done : before(k) = {} <=> k = first
    <3>1. \A k \in done : before(k) = {i \in done : i < k}
      BY <1>1
    <3> QED
      BY <2>1, <3>1, <1>1
  <2>4. OneBase(new)
    <3>1. \A k \in done : k # first => entries[k].down # Root
      BY <1>5, <2>3, <1>2
    <3>2. CASE chain = {}
      <4>1. entries[first].down = Root
        BY <1>4, <2>3, <3>2 DEF HeadOf
      <4>2. entries[first] \in new /\ \A n \in new : n.down = Root <=> n = entries[first]
        BY <3>1, <3>2, <4>1
      <4> QED
        BY <4>2 DEF OneBase
    <3>3. CASE chain # {}
      <4>1. HeadOf(chain) # Root
        BY <3>3, HeadIsHead DEF Chained
      <4>2. entries[first].down # Root
        BY <1>4, <2>3, <4>1
      <4>3. PICK b \in chain : \A n \in chain : n.down = Root <=> n = b
        BY <3>3 DEF Chained, OneBase
      <4>4. \A n \in new : n.down = Root <=> n = b
        BY <3>1, <4>2, <4>3
      <4> QED
        BY <4>3, <4>4 DEF OneBase
    <3> QED
      BY <3>2, <3>3
  <2>5. \A m \in chain : ~IsHead(m, new)
    <3> SUFFICES ASSUME NEW m \in chain PROVE ~IsHead(m, new)
      OBVIOUS
    <3>1. PICK h \in chain : h.rev = HeadOf(chain) /\ \A n \in chain : IsHead(n, chain) <=> n = h
      BY HeadIsHead
    <3>2. CASE m = h
      <4>1. entries[first].down = h.rev /\ entries[first] \in new
        BY <1>4, <2>3, <3>1
      <4> QED
        BY <3>2, <4>1 DEF IsHead
    <3>3. CASE m # h
      BY <3>1, <3>3 DEF IsHead
    <3> QED
      BY <3>2, <3>3
  <2>6. IsHead(entries[last], new)
    <3>1. \A m \in chain : m.down # entries[last].rev
      BY <1>2 DEF Chained
    <3>2. ASSUME NEW k \in done PROVE entries[k].down # entries[last].rev
      <4>1. CASE before(k) = {}
        <5>1. HeadOf(chain) = Root \/ HeadOf(chain) \in Revisions(chain)
          BY HeadIsHead DEF HeadOf, Revisions
        <5> QED
          BY <4>1, <5>1, <1>2, <1>4
      <4>2. CASE before(k) # {}
        <5>1. PICK j \in done : j < k /\ entries[k].down = entries[j].rev
          BY <4>2, <1>5
        <5>2. j # last
          BY <5>1, <2>2, <1>1
        <5> QED
          BY <5>1, <5>2, <1>3
      <4> QED
        BY <4>1, <4>2
    <3> QED
      BY <3>1, <3>2 DEF IsHead
  <2>7. ASSUME NEW k \in done, k # last PROVE ~IsHead(entries[k], new)
    <3> DEFINE later == {i \in done : k < i}
    <3>1. later \subseteq Nat /\ later # {}
      BY <2>2, <2>7, <1>1
    <3>2. PICK n \in later : \A i \in later : n <= i
      BY <3>1, SetOfNatHasLeast
    <3>3. before(n) # {}
      BY <1>1, <3>2
    <3>4. PICK j \in done : j < n /\ (\A i \in done : i < n => i <= j) /\ entries[n].down = entries[j].rev
      BY <1>5, <3>2, <3>3
    <3>5. j = k
      <4>1. k <= j
        BY <3>2, <3>4
      <4>2. ~(k < j)
        BY <3>2, <3>4, <1>1
      <4> QED
        BY <4>1, <4>2, <1>1
    <3> QED
      BY <3>2, <3>4, <3>5 DEF IsHead
  <2>8. \A n \in new : IsHead(n, new) <=> n = entries[last]
    <3>1. entries[last] \notin chain
      BY <2>5, <2>6
    <3> QED
      BY <2>5, <2>6, <2>7, <3>1
  <2> QED
    BY <2>4, <2>8 DEF OneHead
<1>10. ASSUME done = {} PROVE new = chain
  BY <1>10
<1>11. new # {} => OneBase(new) /\ OneHead(new)
  BY <1>9, <1>10 DEF Chained
<1>12. ApplyMigrationCarry(chain, entries, done) = new
  BY DEF ApplyMigrationCarry
<1> HIDE DEF new
<1> QED
  BY <1>6, <1>7, <1>8, <1>11, <1>12 DEF Chained

\* The entries are migrations of the release that the instance has not, under new revisions.
NewTo(instance, entries, migs) ==
  \A k \in DOMAIN entries :
    /\ entries[k] = [file |-> migs[k].file, rev |-> entries[k].rev,
                     down |-> entries[k].down, body |-> migs[k].body, from |-> migs[k].file]
    /\ ~AlreadyCarried(migs[k], instance, Range(migs))
    /\ ~Ambiguous(migs[k], instance, Range(migs))
    /\ entries[k].rev \notin Revisions(instance)
    /\ \A j \in Earlier(DOMAIN entries, k) : entries[j].rev # entries[k].rev
    /\ Follows(entries, k, instance)

\* A plan that is not refused carries such migrations, and ends in a valid chain.
LEMMA PlannedEntries ==
  ASSUME NEW L \in Nat, NEW migs, DOMAIN migs = 1..L, NEW instance, NEW declined,
         ~PlanMigrationCarry(migs, instance, declined).refused,
         NEW entries, entries = PlanMigrationCarry(migs, instance, declined).entries
  PROVE  /\ ValidChain(instance) /\ ValidChain(instance \cup Range(entries))
         /\ DOMAIN entries \subseteq DOMAIN migs
         /\ NewTo(instance, entries, migs)
<1> DEFINE wanted == {k \in DOMAIN migs : /\ ~~ValidChain(instance) /\ migs[k].file \notin declined
                                         /\ ~AlreadyCarried(migs[k], instance, Range(migs))}
           revs == CarriedRevisions(migs, wanted, Revisions(instance))
           after(k) == IF Earlier(wanted, k) = {} THEN HeadOf(instance) ELSE revs[Max(Earlier(wanted, k))]
           planned == [k \in wanted |->
             [file |-> migs[k].file, rev |-> revs[k], body |-> migs[k].body,
              down |-> after(k), from |-> migs[k].file]]
<1>1. /\ entries = planned
      /\ ValidChain(instance) /\ ValidChain(instance \cup Range(planned))
      /\ \A m \in Range(migs) : m.file \notin declined => ~Ambiguous(m, instance, Range(migs))
      /\ \A k \in wanted : revs[k] \notin Revisions(instance) \cup {revs[j] : j \in Earlier(wanted, k)}
  BY DEF PlanMigrationCarry
<1>2. DOMAIN entries = wanted /\ wanted \subseteq DOMAIN migs
  BY <1>1
<1>3. \A k \in wanted : migs[k] \in Range(migs) /\ migs[k].file \notin declined
                        /\ ~AlreadyCarried(migs[k], instance, Range(migs))
  BY DEF Range
<1>4. \A k \in wanted : Earlier(wanted, k) \subseteq wanted
  BY DEF Earlier
<1> HIDE DEF wanted, revs, after
<1>5. \A k \in wanted : /\ entries[k] = [file |-> migs[k].file, rev |-> revs[k], body |-> migs[k].body,
                                       down |-> after(k), from |-> migs[k].file]
                        /\ entries[k].rev = revs[k] /\ entries[k].down = after(k)
  BY <1>1
<1> HIDE DEF planned
<1>6. ASSUME NEW k \in wanted PROVE Follows(entries, k, instance)
  <2>1. CASE Earlier(wanted, k) = {}
    BY <2>1, <1>2, <1>5 DEF Follows, after
  <2>2. CASE Earlier(wanted, k) # {}
    <3>1. Max(Earlier(wanted, k)) \in wanted
      BY <2>2, <1>2, <1>4, MaxIsGreatest
    <3>2. entries[Max(Earlier(wanted, k))].rev = revs[Max(Earlier(wanted, k))]
      BY <3>1, <1>5
    <3>3. entries[k].down = revs[Max(Earlier(wanted, k))]
      <4>1. entries[k].down = after(k)
        BY <1>5
      <4> QED
        BY <4>1, <2>2 DEF after
    <3> QED
      BY <2>2, <3>2, <3>3, <1>2 DEF Follows
  <2> QED
    BY <2>1, <2>2
<1>7. NewTo(instance, entries, migs)
  BY <1>1, <1>2, <1>3, <1>4, <1>5, <1>6 DEF NewTo
<1> QED
  BY <1>1, <1>2, <1>7

\* A migration that the instance has not and that may be carried describes something new.
LEMMA CarriedIsNew ==
  ASSUME NEW instance, NEW m, NEW template, NEW r \in TemplateMigrations, r.file = m.file,
         \A n \in instance : IsInstances(n),
         ~AlreadyCarried(m, instance, template), ~Ambiguous(m, instance, template)
  PROVE  \A n \in instance : Slug(n.file) # Slug(m.file)
<1> SUFFICES ASSUME NEW n \in instance, Slug(n.file) = Slug(m.file)
             PROVE  FALSE
  OBVIOUS
<1>1. n.from # Unmarked
  BY DEF Ambiguous
<1>2. PICK o \in TemplateMigrations : o.file = n.from /\ Slug(o.file) = Slug(n.file)
  BY <1>1 DEF IsInstances
<1>3. o.file = r.file
  BY <1>2, IdentityAssumption
<1>4. n \in ByProvenance(m, instance)
  BY <1>2, <1>3 DEF ByProvenance
<1> QED
  BY <1>4 DEF AlreadyCarried

LEMMA FirstOnesAreFinite == ASSUME NEW n \in Nat PROVE IsFiniteSet(1..n)
BY FS_Interval

\* What is carried keeps the chain sound, however far the carry came.
LEMMA CarryKeepsSound ==
  ASSUME NEW instance, SoundChain(instance), NEW theirs \in TemplateTrees, NEW declined,
         ~PlanMigrationCarry(theirs.migs, instance, declined).refused,
         NEW entries, entries = PlanMigrationCarry(theirs.migs, instance, declined).entries,
         NEW done, SoFar(done, entries)
  PROVE  SoundChain(ApplyMigrationCarry(instance, entries, done))
<1> DEFINE migs == theirs.migs
           L == Len(migs)
           new == ApplyMigrationCarry(instance, entries, done)
<1>1. L \in Nat /\ DOMAIN migs = 1..L
  BY DirectoryAssumption
<1>2. \A i, j \in DOMAIN migs : migs[i].file = migs[j].file => i = j
  BY DirectoryAssumption
<1>3. /\ ValidChain(instance) /\ ValidChain(instance \cup Range(entries))
      /\ DOMAIN entries \subseteq DOMAIN migs
      /\ NewTo(instance, entries, migs)
  <2>1. /\ ~PlanMigrationCarry(migs, instance, declined).refused
        /\ entries = PlanMigrationCarry(migs, instance, declined).entries
    OBVIOUS
  <2> HIDE DEF L, migs
  <2> QED
    BY <1>1, <2>1, PlannedEntries
<1>4. IsFiniteSet(instance) /\ IsFiniteSet(instance \cup Range(entries))
  <2>1. IsFiniteSet(DOMAIN entries)
    <3> HIDE DEF L, migs
    <3>1. IsFiniteSet(1..L)
      BY <1>1, FirstOnesAreFinite
    <3> QED
      BY <3>1, <1>1, <1>3, FS_Subset
  <2>2. [k \in DOMAIN entries |-> entries[k]] \in Surjection(DOMAIN entries, Range(entries))
    BY DEF Surjection, Range
  <2>3. IsFiniteSet(Range(entries))
    BY <2>1, <2>2, FS_Surjection
  <2>4. IsFiniteSet(instance)
    BY DEF SoundChain
  <2> QED
    BY <2>3, <2>4, FS_Union
<1>5. new \subseteq instance \cup Range(entries) /\ \A k \in done : k \in DOMAIN entries
  BY DEF ApplyMigrationCarry, Range, SoFar
<1>6. Chained(new)
  <2>1. Chained(instance) /\ Chained(instance \cup Range(entries))
    BY <1>3, <1>4, ValidIsChained
  <2>2. \A k \in DOMAIN entries : entries[k].rev # Root
    BY <2>1 DEF Chained, Range
  <2>3. Linked(entries, instance)
    BY <1>3, <2>2 DEF Linked, NewTo
  <2>4. NoLoop(instance \cup Range(entries)) /\ DOMAIN entries \subseteq 1..L
    BY <1>1, <1>3, <2>1 DEF Chained
  <2> HIDE DEF L
  <2> QED
    BY <1>1, <2>1, <2>3, <2>4, CarriedSoFar
<1>7. IsFiniteSet(new) /\ ValidChain(new)
  <2> HIDE DEF new
  <2> QED
    BY <1>4, <1>5, <1>6, FS_Subset, ValidIsChained
<1>8. \A k \in DOMAIN entries : /\ entries[k].file = migs[k].file /\ entries[k].from = migs[k].file
                                /\ IsMigration(entries[k])
  <2> SUFFICES ASSUME NEW k \in DOMAIN entries
               PROVE  /\ entries[k].file = migs[k].file /\ entries[k].from = migs[k].file
                      /\ IsMigration(entries[k])
    OBVIOUS
  <2>1. entries[k] = [file |-> migs[k].file, rev |-> entries[k].rev, down |-> entries[k].down,
                      body |-> migs[k].body, from |-> migs[k].file]
    BY <1>3 DEF NewTo
  <2>2. /\ entries[k].file = migs[k].file /\ entries[k].body = migs[k].body
        /\ entries[k].from = migs[k].file
    BY <2>1
  <2> QED
    BY <2>1, <2>2 DEF IsMigration
<1>9. \A k \in DOMAIN entries : \E r \in TemplateMigrations : r.file = migs[k].file
  BY <1>3 DEF TemplateMigrations, Range
<1>10. \A k \in DOMAIN entries : IsInstances(entries[k])
  <2> SUFFICES ASSUME NEW k \in DOMAIN entries PROVE IsInstances(entries[k])
    OBVIOUS
  <2>1. IsMigration(entries[k])
    BY <1>8
  <2>2. PICK r \in TemplateMigrations : r.file = migs[k].file
    BY <1>9
  <2>3. Slug(entries[k].file) # Slug(Own.file)
    BY <2>2, <1>8, IdentityAssumption
  <2> QED
    BY <2>1, <2>2, <2>3, <1>8 DEF IsInstances
<1>11. \A j, k \in DOMAIN entries : Slug(entries[j].file) = Slug(entries[k].file) => j = k
  <2> SUFFICES ASSUME NEW j \in DOMAIN entries, NEW k \in DOMAIN entries,
                      Slug(entries[j].file) = Slug(entries[k].file)
               PROVE  j = k
    OBVIOUS
  <2>1. PICK r \in TemplateMigrations : r.file = migs[k].file
    BY <1>9
  <2>2. PICK o \in TemplateMigrations : o.file = migs[j].file
    BY <1>9
  <2>3. migs[j].file = migs[k].file
    BY <2>1, <2>2, <1>8, IdentityAssumption
  <2> QED
    BY <2>3, <1>2, <1>3
<1>12. \A n \in instance : IsInstances(n)
  BY DEF SoundChain
<1>13. \A k \in DOMAIN entries, n \in instance : Slug(n.file) # Slug(entries[k].file)
  <2> SUFFICES ASSUME NEW k \in DOMAIN entries
               PROVE  \A n \in instance : Slug(n.file) # Slug(migs[k].file)
    BY <1>8
  <2>1. PICK r \in TemplateMigrations : r.file = migs[k].file
    BY <1>9
  <2>2. ~AlreadyCarried(migs[k], instance, Range(migs)) /\ ~Ambiguous(migs[k], instance, Range(migs))
    BY <1>3 DEF NewTo
  <2> QED
    BY <2>1, <2>2, <1>12, CarriedIsNew
<1>14. \A m, n \in new : IsInstances(m) /\ (Slug(m.file) = Slug(n.file) => m = n)
  <2>1. \A m, n \in instance : Slug(m.file) = Slug(n.file) => m = n
    BY DEF SoundChain
  <2>2. new = instance \cup {entries[k] : k \in done}
    BY DEF ApplyMigrationCarry
  <2> HIDE DEF new
  <2> QED
    BY <1>5, <1>10, <1>11, <1>12, <1>13, <2>1, <2>2
<1> QED
  BY <1>7, <1>14 DEF SoundChain

-----------------------------------------------------------------------------
(* What is planned *)

\* The three versions of a file, seen by the planner.
Compared(p, in, base, ours, theirs) ==
  /\ p \in in.base => base[p] # Absent
  /\ p \in in.ours <=> ours[p] # Absent
  /\ p \in in.theirs <=> theirs[p] # Absent

\* A merged file is a file.
LEMMA MergedIsAFile ==
  ASSUME NEW b, NEW o, NEW t
  PROVE  /\ MergeFile(b, o, t).content # Absent
         /\ \A h \in 1..2 : MergeFile(b, o, t).content[h] = MergeHunk(b[h], o[h], t[h])
         /\ ~MergeFile(b, o, t).conflicted =>
              \A h \in 1..2 : MergeHunk(b[h], o[h], t[h]) = Markers => o[h] = Markers
<1> DEFINE merged == [h \in 1..2 |-> MergeHunk(b[h], o[h], t[h])]
<1>1. DOMAIN merged = 1..2 /\ \A h \in 1..2 : merged[h] = MergeHunk(b[h], o[h], t[h])
  OBVIOUS
<1>2. DOMAIN Absent = {}
  BY DEF Absent
<1>3. MergeFile(b, o, t) = [content |-> merged,
                            conflicted |-> \E h \in 1..2 : merged[h] = Markers /\ o[h] # Markers]
  BY DEF MergeFile
<1> HIDE DEF merged
<1>4. 1 \in DOMAIN merged
  BY <1>1
<1>5. merged # Absent
  BY <1>2, <1>4
<1> QED
  BY <1>1, <1>3, <1>5

\* Of a file the instance has edited, the planner keeps the edit or tells of a conflict.
LEMMA EditsAreKept ==
  ASSUME NEW p, NEW in, NEW base, NEW ours, NEW theirs, NEW divergent,
         Compared(p, in, base, ours, theirs), ours[p] # Absent,
         NEW h \in 1..2, base[p] = Absent \/ ours[p][h] # base[p][h],
         ~Classify(p, in, base, ours, theirs, divergent).conflicted
  PROVE  LET entry == Classify(p, in, base, ours, theirs, divergent)
         IN  entry.status # "removed" /\ (entry.content # Absent => entry.content[h] = ours[p][h])
<1> DEFINE entry == Classify(p, in, base, ours, theirs, divergent)
           b == base[p]
           o == ours[p]
           t == theirs[p]
           merge == MergeFile(b, o, t)
<1>0. p \in in.ours /\ (p \in in.base => o # b)
  BY DEF Compared
<1>1. CASE p \notin in.base
  <2>1. entry = Entry("keep-ours", FALSE, Absent) \/ entry = Entry("unchanged", FALSE, Absent)
        \/ entry = Entry("add-conflict", TRUE, t)
    BY <1>0, <1>1 DEF Classify
  <2> QED
    BY <2>1 DEF Entry
<1>2. CASE p \in in.base /\ p \notin in.theirs
  <2>1. entry = Entry("remove-conflict", TRUE, Absent)
    BY <1>0, <1>2 DEF Classify
  <2> QED
    BY <2>1 DEF Entry
<1>3. CASE p \in in.base /\ p \in in.theirs
  <2>1. \/ entry = Entry("keep-ours", FALSE, Absent) \/ entry = Entry("unchanged", FALSE, Absent)
        \/ entry = Entry("conflict", TRUE, t)
        \/ entry = Entry(IF merge.conflicted THEN "conflict" ELSE "merged", merge.conflicted, merge.content)
    BY <1>0, <1>3 DEF Classify
  <2>2. CASE entry = Entry(IF merge.conflicted THEN "conflict" ELSE "merged", merge.conflicted, merge.content)
    <3>1. ~merge.conflicted /\ entry.status = "merged" /\ entry.content = merge.content
      BY <2>2 DEF Entry
    <3>2. b # Absent
      BY <1>3 DEF Compared
    <3>3. merge.content[h] = MergeHunk(b[h], o[h], t[h])
          /\ (MergeHunk(b[h], o[h], t[h]) = Markers => o[h] = Markers)
      BY <3>1, MergedIsAFile
    <3>4. MergeHunk(b[h], o[h], t[h]) = o[h]
      BY <3>2, <3>3 DEF MergeHunk
    <3> QED
      BY <3>1, <3>3, <3>4
  <2>3. CASE entry # Entry(IF merge.conflicted THEN "conflict" ELSE "merged", merge.conflicted, merge.content)
    BY <2>1, <2>3 DEF Entry
  <2> QED
    BY <2>2, <2>3
<1> QED
  BY <1>1, <1>2, <1>3

\* A file taken from the release has content, the release's.
LEMMA VerbatimIsTheirs ==
  ASSUME NEW p, NEW in, NEW base, NEW ours, NEW theirs, NEW divergent,
         Compared(p, in, base, ours, theirs),
         Classify(p, in, base, ours, theirs, divergent).status \in Verbatim
  PROVE  Classify(p, in, base, ours, theirs, divergent).content # Absent
<1> DEFINE entry == Classify(p, in, base, ours, theirs, divergent)
           b == base[p]
           o == ours[p]
           t == theirs[p]
           merge == MergeFile(b, o, t)
<1>1. \/ \E status \in {"keep-ours", "unchanged", "removed"} : entry = Entry(status, FALSE, Absent)
      \/ entry = Entry("remove-conflict", TRUE, Absent)
      \/ p \in in.theirs /\ \E status \in Verbatim, conflicted \in BOOLEAN : entry = Entry(status, conflicted, t)
      \/ \E status \in Derived : \E c, content : entry = Entry(status, c, content)
  <2>1. CASE p \notin in.base
    BY <2>1 DEF Classify, Verbatim
  <2>2. CASE p \in in.base /\ p \notin in.theirs
    BY <2>2 DEF Classify
  <2>3. CASE p \in in.base /\ p \in in.theirs /\ p \notin in.ours
    BY <2>3 DEF Classify, Verbatim
  <2>4. CASE p \in in.base /\ p \in in.theirs /\ p \in in.ours
    BY <2>4 DEF Classify, Verbatim, Derived
  <2> QED
    BY <2>1, <2>2, <2>3, <2>4
<1>2. entry.status \in Verbatim
  OBVIOUS
<1>3. p \in in.theirs => t # Absent
  BY DEF Compared
<1> HIDE DEF entry, t
<1>4. entry.content # Absent
  BY <1>1, <1>2, <1>3 DEF Entry, Verbatim, Derived
<1> QED
  BY <1>4 DEF entry

\* A hunk the release changed and the instance did not comes with the plan.
LEMMA ChangesArrive ==
  ASSUME NEW p, NEW in, NEW base, NEW ours, NEW theirs, NEW divergent,
         Compared(p, in, base, ours, theirs), base[p] # Absent => p \in in.base,
         theirs[p] # Absent, base[p] = Absent <=> ours[p] = Absent,
         NEW h \in 1..2, base[p] # Absent => ours[p][h] = base[p][h]
  PROVE  LET entry == Classify(p, in, base, ours, theirs, divergent)
         IN  /\ entry.status # "removed"
             /\ entry.content # Absent => entry.content[h] = theirs[p][h]
             /\ entry.content = Absent => ours[p] # Absent /\ ours[p][h] = theirs[p][h]
<1> DEFINE entry == Classify(p, in, base, ours, theirs, divergent)
           b == base[p]
           o == ours[p]
           t == theirs[p]
           merge == MergeFile(b, o, t)
<1>1. CASE b = Absent
  <2>1. entry = Entry("added", FALSE, t)
    BY <1>1 DEF Classify, Compared
  <2> QED
    BY <2>1 DEF Entry
<1>2. CASE b # Absent
  <2>0. p \in in.base /\ p \in in.theirs /\ p \in in.ours /\ o # Absent /\ o[h] = b[h]
    BY <1>2 DEF Compared
  <2>1. \/ t = b /\ \E status \in {"keep-ours", "unchanged"} : entry = Entry(status, FALSE, Absent)
        \/ entry = Entry("take-theirs", FALSE, t)
        \/ o = t /\ entry = Entry("unchanged", FALSE, Absent)
        \/ entry = Entry("conflict", TRUE, t)
        \/ \E status \in Derived : entry = Entry(status, merge.conflicted, merge.content)
    BY <2>0 DEF Classify, Derived
  <2>2. CASE t = b /\ \E status \in {"keep-ours", "unchanged"} : entry = Entry(status, FALSE, Absent)
    BY <2>0, <2>2 DEF Entry
  <2>3. CASE entry = Entry("take-theirs", FALSE, t) \/ entry = Entry("conflict", TRUE, t)
    BY <2>0, <2>3 DEF Entry
  <2>4. CASE o = t /\ entry = Entry("unchanged", FALSE, Absent)
    BY <2>0, <2>4 DEF Entry
  <2>5. CASE \E status \in Derived : entry = Entry(status, merge.conflicted, merge.content)
    <3>1. entry.status # "removed" /\ entry.content = merge.content
      BY <2>5 DEF Entry, Derived
    <3>2. merge.content # Absent /\ merge.content[h] = MergeHunk(b[h], o[h], t[h])
      BY MergedIsAFile
    <3>3. MergeHunk(b[h], o[h], t[h]) = t[h]
      BY <2>0 DEF MergeHunk
    <3> QED
      BY <3>1, <3>2, <3>3
  <2> QED
    BY <2>1, <2>2, <2>3, <2>4, <2>5
<1> QED
  BY <1>1, <1>2

-----------------------------------------------------------------------------
(* The invariant *)

GoodTree(t) == IsTree(t) /\ SoundChain(t.migs)
Refs(refs) == refs = [b \in Branches |-> refs[b]]

TreesInv ==
  /\ GoodTree(work) /\ head \in Branches /\ branches[head] # None /\ branches[Main] # None
  /\ Refs(branches) /\ \A b \in Branches : branches[b] # None => GoodTree(branches[b])
ForgeInv ==
  /\ Refs(remote) /\ Refs(tracking) /\ Refs(upstream) /\ remote[Main] # None
  /\ \A b \in Branches : remote[b] # None => GoodTree(remote[b])
  /\ \A pr \in prs : pr.branch \in UpgradeBranches /\ remote[pr.branch] # None
  /\ \A pr, other \in prs : pr.branch = other.branch => pr = other

\* A command, and what it has planned: a merge of the tree it began with, faithful to the
\* tag unless it could not be verified, and migrations that can be carried.
Before == {"currency", "resolve", "plan", "gate"}
OnBranch == {"apply", "commit", "install", "push"}
Stages == Before \cup OnBranch \cup {"pr", "restore", "report"}
IsCommand(c) ==
  /\ c = [pc |-> c.pc, opt |-> c.opt, from |-> c.from, to |-> c.to, viaCheckout |-> c.viaCheckout,
          theirs |-> c.theirs, verified |-> c.verified, plan |-> c.plan, entries |-> c.entries,
          orphans |-> c.orphans, ours |-> c.ours, caller |-> c.caller, failed |-> c.failed]
  /\ c.pc \in Stages /\ c.from \in Versions /\ c.to \in Versions /\ c.caller \in Branches
Planned(c) ==
  LET base == Release[c.from]
      manifest == c.theirs.manifest
      in == Sides(base.files, c.ours, c.theirs.files, base.manifest, manifest)
  IN  /\ c.plan = PlanCoreUpgrade(manifest, in, base.files, c.ours, c.theirs.files,
                                  DeclaredDivergent(manifest, Config, Trailers))
      /\ c.verified => FaithfulToTag(c.plan, c.theirs.files, Release[c.to].files)
      /\ ~c.viaCheckout => c.theirs = Release[c.to] /\ c.verified
Carriable(c, migs) ==
  /\ DOMAIN c.entries \subseteq Nat
  /\ \A done : SoFar(done, c.entries) => SoundChain(ApplyMigrationCarry(migs, c.entries, done))
Applied(c) == ApplyUpgradePlan(c.ours, c.plan, Paths)

\* How far the command is: what it has planned it writes, and what it has written it commits,
\* on a branch of its own.
CommandInv ==
  cmd # Idle =>
    /\ IsCommand(cmd) /\ branches[cmd.caller] # None
    /\ cmd.pc \in Before \cup {"apply"} => cmd.ours = work.files
    /\ cmd.pc \in {"gate"} \cup OnBranch => Planned(cmd)
    /\ cmd.pc \in {"gate", "apply"} => Carriable(cmd, work.migs)
    /\ cmd.pc \in OnBranch => /\ head \in UpgradeBranches
                              /\ Conflicts(cmd.plan) = {} \/ cmd.opt.allowConflicts
    /\ cmd.pc = "pr" => head \in UpgradeBranches
    /\ cmd.pc = "commit" => work.files = Applied(cmd) /\ work.version = cmd.to
    /\ cmd.pc = "install" => branches[head].files = Applied(cmd) /\ branches[head].version = cmd.to

\* What was last pushed of a branch is what GitHub has of it, or is settled.
Pushed ==
  \A b \in UpgradeBranches : HasUpstream(b) =>
    /\ branches[b] # None
    /\ remote[b] = upstream[b] \/ upstream[b] \in settled
    /\ tracking[b] = upstream[b] \/ upstream[b] \in settled

\* On main there is nothing but the commit and what the developer left.
MainKept == head = Main => work \in {branches[Main], mine}

UpgradeInv == TreesInv /\ ForgeInv /\ CommandInv /\ Pushed /\ MainKept

-----------------------------------------------------------------------------

LEMMA TreeIsThere == ASSUME NEW t, IsTree(t) PROVE t # None
<1>1. "files" \in DOMAIN t
  BY DEF IsTree
<1>2. DOMAIN None = {}
  BY DEF None
<1> QED
  BY <1>1, <1>2

LEMMA MainIsNoUpgrade == Main \notin UpgradeBranches /\ Main \in Branches /\ UpgradeBranches \subseteq Branches
BY ReleasesAssumption DEF Main, UpgradeBranches, Branches, Versions

\* Two commands that differ in how far they are.
SameWork(c, d) ==
  /\ d.opt = c.opt /\ d.from = c.from /\ d.to = c.to /\ d.viaCheckout = c.viaCheckout
  /\ d.theirs = c.theirs /\ d.verified = c.verified /\ d.plan = c.plan /\ d.entries = c.entries /\ d.ours = c.ours
  /\ d.caller = c.caller
LEMMA AStage == {"currency", "resolve", "plan", "gate", "apply", "commit", "install", "push", "pr",
                 "restore", "report"} \subseteq Stages
BY DEF Stages, Before, OnBranch

LEMMA GoesOn ==
  ASSUME NEW c, IsCommand(c), NEW pc \in Stages, NEW d, d = [c EXCEPT !.pc = pc]
  PROVE  /\ IsCommand(d) /\ d.pc = pc /\ d # Idle
         /\ SameWork(c, d)
<1>1. PICK f : d = [pc |-> pc, opt |-> c.opt, from |-> c.from, to |-> c.to,
                    viaCheckout |-> c.viaCheckout, theirs |-> c.theirs, verified |-> c.verified, plan |-> c.plan,
                    entries |-> c.entries, orphans |-> c.orphans, ours |-> c.ours,
                    caller |-> c.caller, failed |-> f]
  BY DEF IsCommand
<1>2. d.pc = pc /\ SameWork(c, d)
  BY <1>1 DEF SameWork
<1>3. IsCommand(d)
  BY <1>1 DEF IsCommand
<1>4. d # Idle
  BY <1>2 DEF Idle, Stages, Before, OnBranch
<1> QED
  BY <1>2, <1>3, <1>4

LEMMA Restores ==
  ASSUME NEW c, IsCommand(c), NEW d, d = [c EXCEPT !.pc = "restore", !.failed = TRUE]
  PROVE  IsCommand(d) /\ d.pc = "restore" /\ SameWork(c, d)
<1>1. d = [pc |-> "restore", opt |-> c.opt, from |-> c.from, to |-> c.to,
           viaCheckout |-> c.viaCheckout, theirs |-> c.theirs, verified |-> c.verified, plan |-> c.plan,
           entries |-> c.entries, orphans |-> c.orphans, ours |-> c.ours,
           caller |-> c.caller, failed |-> TRUE]
  BY DEF IsCommand
<1>2. d.pc = "restore" /\ SameWork(c, d)
  BY <1>1 DEF SameWork
<1>3. IsCommand(d)
  BY <1>1, AStage DEF IsCommand
<1> QED
  BY <1>2, <1>3

LEMMA SameWorkSamePlan ==
  ASSUME NEW c, NEW d, SameWork(c, d)
  PROVE  /\ Planned(c) <=> Planned(d)
         /\ Applied(c) = Applied(d)
         /\ \A migs : Carriable(c, migs) <=> Carriable(d, migs)
BY DEF SameWork, Planned, Applied, Carriable

\* A tree with other files, migrations or lockfile.
LEMMA ChangedTree ==
  ASSUME NEW t, IsTree(t), NEW x
  PROVE  /\ IsTree([t EXCEPT !.files = x]) /\ [t EXCEPT !.files = x].migs = t.migs
         /\ IsTree([t EXCEPT !.migs = x]) /\ [t EXCEPT !.migs = x].migs = x
         /\ IsTree([t EXCEPT !.locked = x]) /\ [t EXCEPT !.locked = x].migs = t.migs
         /\ [t EXCEPT !.locked = x].files = t.files /\ [t EXCEPT !.locked = x].version = t.version
<1>1. PICK files, migs, seed, version, baseline, fossil, locked :
        t = [files |-> files, migs |-> migs, seed |-> seed, version |-> version,
             baseline |-> baseline, fossil |-> fossil, locked |-> locked]
  BY DEF IsTree
<1>2. t.version \in Versions
  BY DEF IsTree
<1>3. IsTree([t EXCEPT !.files = x]) /\ [t EXCEPT !.files = x].migs = t.migs
  BY <1>1, <1>2 DEF IsTree
<1>4. IsTree([t EXCEPT !.migs = x]) /\ [t EXCEPT !.migs = x].migs = x
  BY <1>1, <1>2 DEF IsTree
<1>5. /\ IsTree([t EXCEPT !.locked = x]) /\ [t EXCEPT !.locked = x].migs = t.migs
      /\ [t EXCEPT !.locked = x].files = t.files /\ [t EXCEPT !.locked = x].version = t.version
  BY <1>1, <1>2 DEF IsTree
<1> QED
  BY <1>3, <1>4, <1>5

LEMMA UpgradeInitially == UpgradeInit => UpgradeInv
<1> SUFFICES ASSUME UpgradeInit PROVE UpgradeInv
  OBVIOUS
<1>1. GoodTree(FirstTree) /\ FirstTree # None
  BY FirstTreeAssumption, TreeIsThere DEF GoodTree
<1>2. \A b \in Branches : branches[b] = IF b = Main THEN FirstTree ELSE None
  BY DEF UpgradeInit
<1>3. TreesInv
  BY <1>1, <1>2, MainIsNoUpgrade DEF TreesInv, UpgradeInit, Refs
<1>4. ForgeInv
  BY <1>1, <1>2, MainIsNoUpgrade DEF ForgeInv, UpgradeInit, Refs
<1>5. \A b \in UpgradeBranches : ~HasUpstream(b)
  BY <1>2, MainIsNoUpgrade DEF UpgradeInit, HasUpstream
<1>6. CommandInv /\ Pushed /\ MainKept
  BY <1>5 DEF UpgradeInit, CommandInv, Pushed, MainKept
<1> QED
  BY <1>3, <1>4, <1>6 DEF UpgradeInv

-----------------------------------------------------------------------------
(* The steps of the command *)

StandsStill == UNCHANGED <<instanceVars, githubVars, refVars, historyVars>>

LEMMA OnlyTheCommandMoves ==
  UpgradeInv /\ StandsStill => TreesInv' /\ ForgeInv' /\ Pushed' /\ MainKept'
<1> SUFFICES ASSUME UpgradeInv, StandsStill PROVE TreesInv' /\ ForgeInv' /\ Pushed' /\ MainKept'
  OBVIOUS
<1> USE DEF StandsStill, instanceVars, githubVars, refVars, historyVars, UpgradeInv
<1>1. TreesInv'
  BY DEF TreesInv
<1>2. ForgeInv'
  BY DEF ForgeInv
<1>3. Pushed'
  BY DEF Pushed, HasUpstream
<1>4. MainKept'
  BY DEF MainKept
<1> QED
  BY <1>1, <1>2, <1>3, <1>4

LEMMA EndsIdle == cmd' = Idle => CommandInv'
BY DEF CommandInv

LEMMA RunKeeps == UpgradeInv /\ RunCoreUpgrade => UpgradeInv'
<1> SUFFICES ASSUME UpgradeInv, RunCoreUpgrade PROVE UpgradeInv'
  OBVIOUS
<1>1. TreesInv' /\ ForgeInv' /\ Pushed' /\ MainKept'
  BY OnlyTheCommandMoves DEF StandsStill, RunCoreUpgrade
<1>2. CommandInv'
  <2>1. PICK opt \in Options, to \in Versions :
          cmd' = [pc |-> "currency", opt |-> opt, from |-> work.version, to |-> to,
                  viaCheckout |-> FALSE, theirs |-> Release[to], verified |-> FALSE, plan |-> <<>>, entries |-> <<>>,
                  orphans |-> 0, ours |-> work.files, caller |-> head, failed |-> FALSE]
    BY DEF RunCoreUpgrade
  <2>2. work' = work /\ head' = head /\ branches' = branches
    BY DEF RunCoreUpgrade, instanceVars
  <2>3. head \in Branches /\ branches[head] # None /\ work.version \in Versions
    BY DEF UpgradeInv, TreesInv, GoodTree, IsTree
  <2>4. cmd'.pc = "currency" /\ cmd'.ours = work.files /\ cmd'.caller = head
    BY <2>1
  <2>5. IsCommand(cmd')
    BY <2>1, <2>3 DEF IsCommand, Stages, Before
  <2>6. cmd'.pc \notin {"gate", "apply", "commit", "install", "push", "pr"} \cup OnBranch
    BY <2>4 DEF OnBranch
  <2> QED
    BY <2>2, <2>3, <2>4, <2>5, <2>6 DEF CommandInv
<1> QED
  BY <1>1, <1>2 DEF UpgradeInv

LEMMA CurrencyKeeps == UpgradeInv /\ CheckInstanceCurrency => UpgradeInv'
<1> SUFFICES ASSUME UpgradeInv, CheckInstanceCurrency PROVE UpgradeInv'
  OBVIOUS
<1>1. PICK online \in BOOLEAN :
        /\ tracking' = [b \in Branches |-> IF online /\ remote[b] # None
                                             THEN remote[b] ELSE tracking[b]]
        /\ Fail \/ At("resolve")
  BY DEF CheckInstanceCurrency
<1>2. /\ branches' = branches /\ head' = head /\ work' = work /\ remote' = remote /\ prs' = prs
      /\ upstream' = upstream /\ mine' = mine /\ settled' = settled /\ cmd.pc = "currency"
  BY DEF CheckInstanceCurrency, instanceVars, githubVars, historyVars, Doing
<1>3. TreesInv'
  BY <1>2 DEF UpgradeInv, TreesInv
<1>4. ForgeInv'
  BY <1>1, <1>2 DEF UpgradeInv, ForgeInv, Refs
<1>5. CommandInv'
  <2>1. CASE Fail
    BY <2>1, EndsIdle DEF Fail
  <2>2. CASE At("resolve")
    <3>1. IsCommand(cmd) /\ branches[cmd.caller] # None /\ cmd.ours = work.files
      BY <1>2 DEF UpgradeInv, CommandInv, Idle, Before
    <3>2. cmd' = [cmd EXCEPT !.pc = "resolve"]
      BY <2>2 DEF At
    <3>3. IsCommand(cmd') /\ cmd'.pc = "resolve" /\ SameWork(cmd, cmd')
      BY <3>1, <3>2, GoesOn DEF Stages, Before
    <3> QED
      BY <1>2, <3>1, <3>3 DEF CommandInv, OnBranch, SameWork
  <2> QED
    BY <1>1, <2>1, <2>2
<1>6. Pushed'
  BY <1>1, <1>2, MainIsNoUpgrade DEF UpgradeInv, Pushed, HasUpstream
<1>7. MainKept'
  BY <1>2 DEF UpgradeInv, MainKept
<1> QED
  BY <1>3, <1>4, <1>5, <1>6, <1>7 DEF UpgradeInv

LEMMA ResolveKeeps == UpgradeInv /\ ResolveTrees => UpgradeInv'
<1> SUFFICES ASSUME UpgradeInv, ResolveTrees PROVE UpgradeInv'
  OBVIOUS
<1>1. TreesInv' /\ ForgeInv' /\ Pushed' /\ MainKept'
  BY OnlyTheCommandMoves DEF StandsStill, ResolveTrees
<1>2. CommandInv'
  <2>1. PICK via : cmd' = [cmd EXCEPT !.pc = "plan", !.viaCheckout = via]
    BY DEF ResolveTrees
  <2>2. branches' = branches /\ work' = work /\ cmd.pc = "resolve"
    BY DEF ResolveTrees, instanceVars, Doing
  <2>3. IsCommand(cmd) /\ branches[cmd.caller] # None /\ cmd.ours = work.files
    BY <2>2 DEF UpgradeInv, CommandInv, Idle, Before
  <2>4. cmd' = [pc |-> "plan", opt |-> cmd.opt, from |-> cmd.from, to |-> cmd.to,
                viaCheckout |-> via, theirs |-> cmd.theirs, verified |-> cmd.verified, plan |-> cmd.plan,
                entries |-> cmd.entries, orphans |-> cmd.orphans, ours |-> cmd.ours,
                caller |-> cmd.caller, failed |-> cmd.failed]
    BY <2>1, <2>3 DEF IsCommand
  <2>5. IsCommand(cmd')
    BY <2>3, <2>4 DEF IsCommand, Stages, Before
  <2>6. cmd'.pc = "plan" /\ cmd'.ours = cmd.ours /\ cmd'.caller = cmd.caller
    BY <2>4
  <2> QED
    BY <2>2, <2>3, <2>5, <2>6 DEF CommandInv, OnBranch
<1> QED
  BY <1>1, <1>2 DEF UpgradeInv

LEMMA PlanKeeps == UpgradeInv /\ PlanUpgrade => UpgradeInv'
<1> SUFFICES ASSUME UpgradeInv, PlanUpgrade PROVE UpgradeInv'
  OBVIOUS
<1>1. TreesInv' /\ ForgeInv' /\ Pushed' /\ MainKept'
  BY OnlyTheCommandMoves DEF StandsStill, PlanUpgrade
<1>2. branches' = branches /\ work' = work /\ cmd.pc = "plan"
  BY DEF PlanUpgrade, instanceVars, Doing
<1>3. IsCommand(cmd) /\ branches[cmd.caller] # None /\ cmd.ours = work.files
  BY <1>2 DEF UpgradeInv, CommandInv, Idle, Before
<1>4. GoodTree(work)
  BY DEF UpgradeInv, TreesInv
<1>5. PICK theirs \in TargetTrees, verified \in IF cmd.viaCheckout THEN BOOLEAN ELSE {TRUE} :
        cmd' = AfterPlanning(theirs, verified)
  BY DEF PlanUpgrade
<1>6. CASE Fail
  BY <1>1, <1>6, EndsIdle DEF Fail, UpgradeInv
<1>7. CASE ~Fail
  <2> DEFINE base == Release[cmd.from]
             in == Sides(base.files, work.files, theirs.files, base.manifest, theirs.manifest)
             divergent == DeclaredDivergent(theirs.manifest, Config, Trailers)
             plan == PlanCoreUpgrade(theirs.manifest, in, base.files, work.files, theirs.files, divergent)
             carry == PlanMigrationCarry(theirs.migs, work.migs, Declined)
             entries == carry.entries
             stage(nothing) == IF nothing \/ ~cmd.opt.apply THEN "report" ELSE "gate"
             faithful == FaithfulToTag(plan, theirs.files, Release[cmd.to].files)
  <2>0. PICK refused, orphans, nothing :
          /\ refused = (\/ carry.refused
                        \/ verified /\ ~faithful
                        \/ verified /\ ~MigrationsFaithful(entries)
                        \/ OrphansIncreased(orphans))
          /\ cmd' = IF refused THEN Idle
                    ELSE [cmd EXCEPT !.pc = stage(nothing), !.theirs = theirs, !.verified = verified,
                                     !.plan = plan, !.entries = entries, !.orphans = orphans]
    BY <1>5 DEF AfterPlanning
  <2>1. /\ ~carry.refused
        /\ verified => FaithfulToTag(plan, theirs.files, Release[cmd.to].files)
    <3> HIDE DEF carry, faithful, entries
    <3>1. ~refused
      BY <1>7, <2>0 DEF Fail
    <3>2. ~carry.refused /\ (verified => faithful)
      BY <2>0, <3>1
    <3> QED
      BY <3>2 DEF faithful
  <2>2. PICK pc \in {"report", "gate"} :
          \E count : cmd' = [cmd EXCEPT !.pc = pc, !.theirs = theirs, !.verified = verified,
                                        !.plan = plan, !.entries = entries, !.orphans = count]
    <3> HIDE DEF plan, entries, carry, faithful
    <3>1. ~refused
      BY <1>7, <2>0 DEF Fail
    <3> QED
      BY <2>0, <3>1
  <2>3. theirs \in TemplateTrees /\ (~cmd.viaCheckout => theirs = Release[cmd.to] /\ verified)
    <3>1. cmd.to \in DOMAIN Release
      BY <1>3, ReleasesAssumption DEF IsCommand
    <3>2. Release[cmd.to] \in Range(Release)
      BY <3>1 DEF Range
    <3> QED
      BY <1>5, <3>2 DEF TargetTrees, TemplateTrees
  <2>4. \A done : SoFar(done, entries) => SoundChain(ApplyMigrationCarry(work.migs, entries, done))
    <3>1. SoundChain(work.migs)
      BY <1>4 DEF GoodTree
    <3>2. /\ ~PlanMigrationCarry(theirs.migs, work.migs, Declined).refused
          /\ entries = PlanMigrationCarry(theirs.migs, work.migs, Declined).entries
      BY <2>1
    <3> HIDE DEF entries
    <3> QED
      BY <2>3, <3>1, <3>2, CarryKeepsSound
  <2>5. plan = PlanCoreUpgrade(theirs.manifest,
                 Sides(base.files, cmd.ours, theirs.files, base.manifest, theirs.manifest),
                 base.files, cmd.ours, theirs.files,
                 DeclaredDivergent(theirs.manifest, Config, Trailers))
    BY <1>3
  <2> HIDE DEF entries, plan, base
  <2>6. PICK count :
          cmd' = [pc |-> pc, opt |-> cmd.opt, from |-> cmd.from, to |-> cmd.to,
                  viaCheckout |-> cmd.viaCheckout, theirs |-> theirs, verified |-> verified, plan |-> plan,
                  entries |-> entries, orphans |-> count, ours |-> cmd.ours,
                  caller |-> cmd.caller, failed |-> cmd.failed]
    BY <1>3, <2>2 DEF IsCommand
  <2>7. /\ cmd'.pc = pc /\ cmd'.from = cmd.from /\ cmd'.to = cmd.to /\ cmd'.viaCheckout = cmd.viaCheckout
        /\ cmd'.theirs = theirs /\ cmd'.verified = verified /\ cmd'.plan = plan
        /\ cmd'.entries = entries
        /\ cmd'.ours = cmd.ours /\ cmd'.caller = cmd.caller
    BY <2>6
  <2>8. IsCommand(cmd')
    BY <1>3, <2>6, <2>7 DEF IsCommand, Stages, Before
  <2>9. Planned(cmd')
    BY <2>1, <2>3, <2>5, <2>7 DEF Planned, base
  <2>10. Carriable(cmd', work.migs)
    <3>1. DOMAIN entries \subseteq DOMAIN theirs.migs /\ DOMAIN theirs.migs \subseteq Nat
      <4>1. Len(theirs.migs) \in Nat /\ DOMAIN theirs.migs = 1..Len(theirs.migs)
        BY <2>3, DirectoryAssumption
      <4> DEFINE migs == theirs.migs
                 L == Len(migs)
      <4>2. ~PlanMigrationCarry(migs, work.migs, Declined).refused
            /\ entries = PlanMigrationCarry(migs, work.migs, Declined).entries
        BY <2>1 DEF entries
      <4>3. L \in Nat /\ DOMAIN migs = 1..L
        BY <4>1
      <4> HIDE DEF L, migs
      <4>4. DOMAIN entries \subseteq DOMAIN migs
        BY <4>2, <4>3, PlannedEntries
      <4> QED
        BY <4>1, <4>4 DEF migs
    <3> QED
      BY <2>4, <2>7, <3>1 DEF Carriable
  <2>11. CommandInv'
    BY <1>2, <1>3, <2>7, <2>8, <2>9, <2>10 DEF CommandInv, OnBranch
  <2> QED
    BY <1>1, <2>11 DEF UpgradeInv
<1> QED
  BY <1>6, <1>7

LEMMA CreateBranchKeeps == UpgradeInv /\ CreateBranch => UpgradeInv'
<1> SUFFICES ASSUME UpgradeInv, CreateBranch PROVE UpgradeInv'
  OBVIOUS
<1> DEFINE branch == UpgradeBranchName(cmd.from, cmd.to)
<1>1. /\ cmd.pc = "gate" /\ remote' = remote /\ prs' = prs /\ tracking' = tracking
      /\ upstream' = upstream /\ mine' = mine /\ settled' = settled
  BY DEF CreateBranch, githubVars, refVars, historyVars, Doing
<1>2. CASE Fail /\ UNCHANGED instanceVars
  <2>1. TreesInv' /\ ForgeInv' /\ Pushed' /\ MainKept'
    BY <1>2, OnlyTheCommandMoves DEF StandsStill, CreateBranch
  <2> QED
    BY <1>2, <2>1, EndsIdle DEF Fail, UpgradeInv
<1>3. CASE ~(Fail /\ UNCHANGED instanceVars)
  <2>1. /\ ~GateRefuses /\ branches[branch] = None
        /\ cmd' = [cmd EXCEPT !.pc = "apply", !.caller = head]
        /\ branches' = [branches EXCEPT ![branch] = branches[head]]
        /\ head' = branch /\ work' = work
    BY <1>3 DEF CreateBranch
  <2>2. /\ IsCommand(cmd) /\ cmd.ours = work.files
        /\ Planned(cmd) /\ Carriable(cmd, work.migs)
    BY <1>1 DEF UpgradeInv, CommandInv, Idle, Before
  <2>3. branch \in UpgradeBranches
    BY <2>2 DEF IsCommand, UpgradeBranches, UpgradeBranchName
  <2>4. branch \in Branches /\ branch # Main
    BY <2>3, MainIsNoUpgrade
  <2> HIDE DEF branch
  <2>5. /\ head \in Branches /\ branches[head] # None /\ GoodTree(work) /\ branches[Main] # None
        /\ Refs(branches) /\ \A b \in Branches : branches[b] # None => GoodTree(branches[b])
    BY DEF UpgradeInv, TreesInv
  <2>6. \A b \in Branches : branches'[b] = IF b = branch THEN branches[head] ELSE branches[b]
    BY <2>1, <2>5 DEF Refs
  <2>7. TreesInv'
    <3>1. Refs(branches')
      BY <2>1, <2>5 DEF Refs
    <3> QED
      BY <2>1, <2>4, <2>5, <2>6, <3>1, MainIsNoUpgrade DEF TreesInv
  <2>8. ForgeInv'
    BY <1>1 DEF UpgradeInv, ForgeInv
  <2>9. ~HasUpstream(branch)
    BY <2>1, <2>3 DEF UpgradeInv, Pushed
  <2>10. Pushed'
    BY <1>1, <2>6, <2>9, MainIsNoUpgrade DEF UpgradeInv, Pushed, HasUpstream
  <2>11. MainKept'
    BY <2>1, <2>4 DEF MainKept
  <2>12. CommandInv'
    <3>1. cmd' = [pc |-> "apply", opt |-> cmd.opt, from |-> cmd.from, to |-> cmd.to,
                  viaCheckout |-> cmd.viaCheckout, theirs |-> cmd.theirs, verified |-> cmd.verified, plan |-> cmd.plan,
                  entries |-> cmd.entries, orphans |-> cmd.orphans, ours |-> cmd.ours,
                  caller |-> head, failed |-> cmd.failed]
      BY <2>1, <2>2 DEF IsCommand
    <3>2. /\ cmd'.pc = "apply" /\ cmd'.opt = cmd.opt /\ cmd'.from = cmd.from /\ cmd'.to = cmd.to
          /\ cmd'.viaCheckout = cmd.viaCheckout /\ cmd'.theirs = cmd.theirs
          /\ cmd'.verified = cmd.verified /\ cmd'.plan = cmd.plan /\ cmd'.entries = cmd.entries /\ cmd'.ours = cmd.ours /\ cmd'.caller = head
      BY <3>1
    <3>3. IsCommand(cmd')
      BY <2>2, <2>5, <3>1, <3>2 DEF IsCommand, Stages, OnBranch
    <3>4. Planned(cmd') /\ Carriable(cmd', work.migs)
      BY <2>2, <3>2 DEF Planned, Carriable
    <3>5. branches'[cmd'.caller] # None
      BY <2>5, <2>6, <3>2
    <3>6. Conflicts(cmd'.plan) = {} \/ cmd'.opt.allowConflicts
      BY <2>1, <3>2 DEF GateRefuses
    <3>7. cmd'.ours = work'.files
      BY <2>1, <2>2, <3>2
    <3>8. head' \in UpgradeBranches /\ work' = work
      BY <2>1, <2>3
    <3> QED
      BY <3>2, <3>3, <3>4, <3>5, <3>6, <3>7, <3>8 DEF CommandInv
  <2> QED
    BY <2>7, <2>8, <2>10, <2>11, <2>12 DEF UpgradeInv
<1> QED
  BY <1>2, <1>3

\* Whatever was written is a tree, and its migrations are what was carried so far.
LEMMA WrittenIsATree ==
  ASSUME UpgradeInv, Doing("apply"), NEW stage \in 0..5, NEW done, NEW carried,
         SoFar(carried, cmd.entries), NEW t, t = Written(stage, done, carried)
  PROVE  /\ GoodTree(t)
         /\ stage > 0 => t.files = Applied(cmd)
         /\ stage > 2 => t.version = cmd.to
<1>1. GoodTree(work) /\ IsCommand(cmd) /\ cmd.ours = work.files /\ Carriable(cmd, work.migs)
  BY DEF UpgradeInv, TreesInv, CommandInv, Doing, Idle, OnBranch
<1>2. work.version \in Versions /\ cmd.to \in Versions
  BY <1>1 DEF GoodTree, IsTree, IsCommand
<1> DEFINE files == ApplyUpgradePlan(work.files, cmd.plan, IF stage > 0 THEN Paths ELSE done)
           all == IF stage > 0 THEN DOMAIN cmd.entries ELSE carried
           migs == ApplyMigrationCarry(work.migs, cmd.entries, all)
           version == IF stage > 2 THEN cmd.to ELSE work.version
<1>3. SoFar(all, cmd.entries)
  BY DEF SoFar, Earlier
<1>4. SoundChain(migs)
  <2> HIDE DEF all
  <2> QED
    BY <1>1, <1>3 DEF Carriable
<1>5. stage > 0 => files = Applied(cmd)
  BY <1>1 DEF Applied
<1>6. version \in Versions /\ (stage > 2 => version = cmd.to)
  BY <1>2
<1>7. PICK seed, baseline, fossil, locked :
        t = [files |-> files, migs |-> migs, seed |-> seed, version |-> version,
             baseline |-> baseline, fossil |-> fossil, locked |-> locked]
  BY DEF Written
<1> HIDE DEF files, all, migs, version
<1>8. t.files = files /\ t.migs = migs /\ t.version = version
  BY <1>7
<1>9. IsTree(t)
  BY <1>6, <1>7, <1>8 DEF IsTree
<1> QED
  BY <1>4, <1>5, <1>6, <1>8, <1>9 DEF GoodTree

\* On its own branch the command may leave any tree.
LEMMA OnlyTheTreeChanges ==
  /\ UpgradeInv /\ GoodTree(work') /\ head \in UpgradeBranches
  /\ UNCHANGED <<branches, head, githubVars, refVars, historyVars>>
  => TreesInv' /\ ForgeInv' /\ Pushed' /\ MainKept'
<1> SUFFICES ASSUME UpgradeInv, GoodTree(work'), head \in UpgradeBranches,
                    UNCHANGED <<branches, head, githubVars, refVars, historyVars>>
             PROVE  TreesInv' /\ ForgeInv' /\ Pushed' /\ MainKept'
  OBVIOUS
<1> USE DEF githubVars, refVars, historyVars, UpgradeInv
<1>1. TreesInv'
  BY DEF TreesInv
<1>2. ForgeInv'
  BY DEF ForgeInv
<1>3. Pushed'
  BY DEF Pushed, HasUpstream
<1>4. MainKept'
  BY MainIsNoUpgrade DEF MainKept
<1> QED
  BY <1>1, <1>2, <1>3, <1>4

LEMMA ApplyPlanKeeps == UpgradeInv /\ ApplyPlan => UpgradeInv'
<1> SUFFICES ASSUME UpgradeInv, ApplyPlan PROVE UpgradeInv'
  OBVIOUS
<1>1. /\ cmd.pc = "apply" /\ cmd' = [cmd EXCEPT !.pc = "commit"]
      /\ UNCHANGED <<branches, head, githubVars, refVars, historyVars>>
  BY DEF ApplyPlan, Doing, At
<1>2. /\ IsCommand(cmd) /\ branches[cmd.caller] # None /\ Planned(cmd)
      /\ head \in UpgradeBranches
      /\ Conflicts(cmd.plan) = {} \/ cmd.opt.allowConflicts
  BY <1>1 DEF UpgradeInv, CommandInv, Idle, OnBranch
<1> DEFINE written == Written(5, {}, {})
<1>3. GoodTree(written) /\ written.files = Applied(cmd) /\ written.version = cmd.to
  <2>1. SoFar({}, cmd.entries)
    BY DEF SoFar
  <2> QED
    BY <1>1, <2>1, WrittenIsATree DEF Doing
<1>4. PICK locked : work' = [written EXCEPT !.locked = locked]
  BY DEF ApplyPlan
<1> HIDE DEF written
<1>5. GoodTree(work') /\ work'.files = Applied(cmd) /\ work'.version = cmd.to
  BY <1>3, <1>4, ChangedTree DEF GoodTree
<1>6. TreesInv' /\ ForgeInv' /\ Pushed' /\ MainKept'
  BY <1>1, <1>2, <1>5, OnlyTheTreeChanges
<1>7. CommandInv'
  <2>1. IsCommand(cmd') /\ cmd'.pc = "commit" /\ SameWork(cmd, cmd')
    BY <1>1, <1>2, GoesOn DEF Stages, OnBranch
  <2>2. Planned(cmd') /\ Applied(cmd') = Applied(cmd)
    BY <1>2, <2>1, SameWorkSamePlan
  <2>3. branches' = branches /\ head' = head /\ upstream' = upstream
    BY <1>1 DEF refVars
  <2> QED
    BY <1>2, <1>5, <2>1, <2>2, <2>3 DEF CommandInv, Before, SameWork
<1> QED
  BY <1>6, <1>7 DEF UpgradeInv

\* A command that goes to its end has its caller's branch to return to.
LEMMA FailsAndRestores ==
  /\ UpgradeInv /\ cmd # Idle /\ FailAndRestore /\ UNCHANGED branches
  => CommandInv'
<1> SUFFICES ASSUME UpgradeInv, cmd # Idle, FailAndRestore, UNCHANGED branches
             PROVE  CommandInv'
  OBVIOUS
<1>1. IsCommand(cmd) /\ branches[cmd.caller] # None
  BY DEF UpgradeInv, CommandInv
<1>2. cmd' = [cmd EXCEPT !.pc = "restore", !.failed = TRUE]
  BY DEF FailAndRestore
<1>3. IsCommand(cmd') /\ cmd'.pc = "restore" /\ SameWork(cmd, cmd')
  BY <1>1, <1>2, Restores
<1> QED
  BY <1>1, <1>3 DEF CommandInv, Before, OnBranch, SameWork

LEMMA ApplyStopsKeeps == UpgradeInv /\ ApplyStops => UpgradeInv'
<1> SUFFICES ASSUME UpgradeInv, ApplyStops PROVE UpgradeInv'
  OBVIOUS
<1>1. /\ cmd.pc = "apply"
      /\ FailAndRestore \/ cmd' = Idle
      /\ UNCHANGED <<branches, head, githubVars, refVars, historyVars>>
  BY DEF ApplyStops, Doing
<1>2. cmd # Idle
  BY <1>1 DEF Idle
<1>3. head \in UpgradeBranches /\ DOMAIN cmd.entries \subseteq Nat
  <2>1. cmd.pc \in OnBranch
    BY <1>1 DEF OnBranch
  <2> QED
    BY <1>1, <1>2, <2>1 DEF UpgradeInv, CommandInv, Carriable
<1>4. ASSUME NEW stage \in 0..5, NEW done, NEW carried, SoFar(carried, cmd.entries),
             work' = Written(stage, done, carried)
      PROVE  GoodTree(work')
  <2> DEFINE t == Written(stage, done, carried)
  <2>1. t = Written(stage, done, carried)
    OBVIOUS
  <2> HIDE DEF t
  <2>2. GoodTree(t)
    BY <1>1, <1>4, <2>1, WrittenIsATree DEF Doing
  <2> QED
    BY <1>4, <2>1, <2>2
<1>5. SoFar({}, cmd.entries) /\ 0 \in 0..5 /\ 1..4 \subseteq 0..5
  BY DEF SoFar
<1>6. GoodTree(work')
  <2>1. \/ \E done \in SUBSET Paths : work' = Written(0, done, {})
        \/ \E n \in DOMAIN cmd.entries : work' = Written(0, Paths, {k \in DOMAIN cmd.entries : k < n})
        \/ \E stage \in 1..4 : work' = Written(stage, {}, {})
    BY DEF ApplyStops
  <2>2. CASE \E done \in SUBSET Paths : work' = Written(0, done, {})
    BY <1>4, <1>5, <2>2
  <2>3. ASSUME NEW n \in DOMAIN cmd.entries, work' = Written(0, Paths, {k \in DOMAIN cmd.entries : k < n})
        PROVE  GoodTree(work')
    <3>1. SoFar({k \in DOMAIN cmd.entries : k < n}, cmd.entries)
      BY <1>3 DEF SoFar, Earlier
    <3> QED
      BY <1>4, <1>5, <2>3, <3>1
  <2>4. CASE \E stage \in 1..4 : work' = Written(stage, {}, {})
    BY <1>4, <1>5, <2>4
  <2> QED
    BY <2>1, <2>2, <2>3, <2>4
<1>7. TreesInv' /\ ForgeInv' /\ Pushed' /\ MainKept'
  BY <1>1, <1>3, <1>6, OnlyTheTreeChanges
<1>8. CommandInv'
  BY <1>1, <1>2, FailsAndRestores, EndsIdle
<1> QED
  BY <1>7, <1>8 DEF UpgradeInv

LEMMA CommitKeeps == UpgradeInv /\ Commit => UpgradeInv'
<1> SUFFICES ASSUME UpgradeInv, Commit PROVE UpgradeInv'
  OBVIOUS
<1>1. /\ cmd.pc = "commit" /\ UNCHANGED <<head, work, githubVars, refVars, historyVars>>
  BY DEF Commit, Doing
<1>2. /\ cmd # Idle /\ IsCommand(cmd) /\ branches[cmd.caller] # None /\ Planned(cmd)
      /\ head \in UpgradeBranches
      /\ Conflicts(cmd.plan) = {} \/ cmd.opt.allowConflicts
      /\ work.files = Applied(cmd) /\ work.version = cmd.to
  BY <1>1 DEF UpgradeInv, CommandInv, Idle, OnBranch
<1>3. GoodTree(work) /\ work # None
  BY TreeIsThere DEF UpgradeInv, TreesInv, GoodTree
<1>4. CASE FailAndRestore /\ UNCHANGED branches
  <2>1. TreesInv' /\ ForgeInv' /\ Pushed' /\ MainKept'
    BY <1>1, <1>4, OnlyTheCommandMoves DEF StandsStill, instanceVars
  <2>2. CommandInv'
    BY <1>2, <1>4, FailsAndRestores
  <2> QED
    BY <2>1, <2>2 DEF UpgradeInv
<1>5. CASE branches' = [branches EXCEPT ![head] = work] /\ At("install")
  <2>1. Refs(branches') /\ \A b \in Branches : branches'[b] = IF b = head THEN work ELSE branches[b]
    BY <1>5 DEF UpgradeInv, TreesInv, Refs
  <2>2. TreesInv'
    BY <1>1, <1>3, <2>1, MainIsNoUpgrade DEF UpgradeInv, TreesInv
  <2>3. ForgeInv'
    BY <1>1 DEF UpgradeInv, ForgeInv, githubVars, refVars
  <2>4. Pushed'
    BY <1>1, <1>2, <1>3, <2>1, MainIsNoUpgrade DEF UpgradeInv, Pushed, HasUpstream, githubVars, refVars, historyVars
  <2>5. MainKept'
    BY <1>1, <1>2, MainIsNoUpgrade DEF MainKept
  <2>6. CommandInv'
    <3>0. cmd' = [cmd EXCEPT !.pc = "install"]
      BY <1>5 DEF At
    <3>1. IsCommand(cmd') /\ cmd'.pc = "install" /\ SameWork(cmd, cmd')
      <4>1. "install" \in Stages /\ IsCommand(cmd)
        BY <1>2, AStage
      <4> QED
        BY <3>0, <4>1, GoesOn, Zenon
    <3>2. Planned(cmd') /\ Applied(cmd') = Applied(cmd)
      BY <1>2, <3>1, SameWorkSamePlan
    <3>3. head' = head /\ upstream' = upstream /\ branches'[head] = work
      BY <1>1, <1>2, <2>1, MainIsNoUpgrade DEF refVars
    <3>4. branches'[cmd.caller] # None
      BY <1>2, <1>3, <2>1 DEF IsCommand
    <3> QED
      BY <1>2, <3>1, <3>2, <3>3, <3>4 DEF CommandInv, Before, SameWork
  <2> QED
    BY <2>2, <2>3, <2>4, <2>5, <2>6 DEF UpgradeInv
<1> QED
  BY <1>4, <1>5 DEF Commit

LEMMA InstallKeeps == UpgradeInv /\ InstallDependencies => UpgradeInv'
<1> SUFFICES ASSUME UpgradeInv, InstallDependencies PROVE UpgradeInv'
  OBVIOUS
<1>1. /\ cmd.pc = "install"
      /\ UNCHANGED <<branches, head, githubVars, refVars, historyVars>>
  BY DEF InstallDependencies, Doing
<1>2. PICK pc \in {"restore", "push"} : cmd' = [cmd EXCEPT !.pc = pc]
  BY DEF InstallDependencies, At
<1>3. PICK locked : work' = [work EXCEPT !.locked = locked]
  BY DEF InstallDependencies
<1>4. /\ IsCommand(cmd) /\ branches[cmd.caller] # None /\ Planned(cmd)
      /\ head \in UpgradeBranches
      /\ Conflicts(cmd.plan) = {} \/ cmd.opt.allowConflicts
  BY <1>1 DEF UpgradeInv, CommandInv, Idle, OnBranch
<1>5. GoodTree(work')
  BY <1>3, ChangedTree DEF UpgradeInv, TreesInv, GoodTree
<1>6. TreesInv' /\ ForgeInv' /\ Pushed' /\ MainKept'
  BY <1>1, <1>4, <1>5, OnlyTheTreeChanges
<1>7. CommandInv'
  <2>1. IsCommand(cmd') /\ cmd'.pc = pc /\ SameWork(cmd, cmd')
    BY <1>2, <1>4, GoesOn DEF Stages, OnBranch
  <2>2. Planned(cmd')
    BY <1>4, <2>1, SameWorkSamePlan
  <2>3. branches' = branches /\ head' = head /\ upstream' = upstream
    BY <1>1 DEF refVars
  <2> QED
    BY <1>4, <2>1, <2>2, <2>3 DEF CommandInv, Before, SameWork
<1> QED
  BY <1>6, <1>7 DEF UpgradeInv

LEMMA PushKeeps == UpgradeInv /\ Push => UpgradeInv'
<1> SUFFICES ASSUME UpgradeInv, Push PROVE UpgradeInv'
  OBVIOUS
<1>1. /\ cmd.pc = "push"
      /\ branches' = branches /\ head' = head /\ work' = work /\ prs' = prs
      /\ mine' = mine /\ settled' = settled
  BY DEF Push, Doing, instanceVars, historyVars
<1>2. /\ cmd # Idle /\ IsCommand(cmd) /\ branches[cmd.caller] # None
      /\ head \in UpgradeBranches
  BY <1>1 DEF UpgradeInv, CommandInv, Idle, OnBranch
<1>3. CASE FailAndRestore /\ UNCHANGED <<remote, refVars>>
  <2>1. TreesInv' /\ ForgeInv' /\ Pushed' /\ MainKept'
    BY <1>1, <1>3, OnlyTheCommandMoves DEF StandsStill, instanceVars, githubVars, historyVars
  <2>2. CommandInv'
    BY <1>1, <1>2, <1>3, FailsAndRestores
  <2> QED
    BY <2>1, <2>2 DEF UpgradeInv
<1>4. CASE /\ remote' = [remote EXCEPT ![head] = branches[head]]
           /\ tracking' = [tracking EXCEPT ![head] = branches[head]]
           /\ upstream' = [upstream EXCEPT ![head] = branches[head]]
           /\ At("pr")
  <2>1. branches[head] # None /\ GoodTree(branches[head]) /\ head \in Branches
    BY DEF UpgradeInv, TreesInv
  <2>2. /\ Refs(remote') /\ \A b \in Branches : remote'[b] = IF b = head THEN branches[head] ELSE remote[b]
        /\ Refs(tracking')
        /\ \A b \in Branches : tracking'[b] = IF b = head THEN branches[head] ELSE tracking[b]
        /\ Refs(upstream')
        /\ \A b \in Branches : upstream'[b] = IF b = head THEN branches[head] ELSE upstream[b]
    BY <1>4 DEF UpgradeInv, ForgeInv, Refs
  <2>3. TreesInv'
    BY <1>1 DEF UpgradeInv, TreesInv
  <2>4. ForgeInv'
    BY <1>1, <2>1, <2>2, MainIsNoUpgrade DEF UpgradeInv, ForgeInv
  <2>5. Pushed'
    BY <1>1, <1>4, <2>1, <2>2, MainIsNoUpgrade DEF UpgradeInv, Pushed, HasUpstream
  <2>6. MainKept'
    BY <1>1 DEF UpgradeInv, MainKept
  <2>7. CommandInv'
    <3>1. cmd' = [cmd EXCEPT !.pc = "pr"] /\ "pr" \in Stages /\ IsCommand(cmd)
      BY <1>2, <1>4, AStage DEF At
    <3>2. IsCommand(cmd') /\ cmd'.pc = "pr" /\ SameWork(cmd, cmd')
      BY <3>1, GoesOn
    <3> QED
      BY <1>1, <1>2, <3>2 DEF CommandInv, Before, OnBranch, SameWork
  <2> QED
    BY <2>3, <2>4, <2>5, <2>6, <2>7 DEF UpgradeInv
<1> QED
  BY <1>3, <1>4 DEF Push

LEMMA CreatePullRequestKeeps == UpgradeInv /\ CreatePullRequest => UpgradeInv'
<1> SUFFICES ASSUME UpgradeInv, CreatePullRequest PROVE UpgradeInv'
  OBVIOUS
<1>1. /\ cmd.pc = "pr"
      /\ branches' = branches /\ head' = head /\ work' = work /\ remote' = remote
      /\ tracking' = tracking /\ upstream' = upstream /\ mine' = mine /\ settled' = settled
  BY DEF CreatePullRequest, Doing, instanceVars, refVars, historyVars
<1>2. cmd # Idle /\ IsCommand(cmd) /\ branches[cmd.caller] # None /\ head \in UpgradeBranches
  BY <1>1 DEF UpgradeInv, CommandInv, Idle
<1>3. CASE FailAndRestore /\ UNCHANGED prs
  <2>1. TreesInv' /\ ForgeInv' /\ Pushed' /\ MainKept'
    BY <1>1, <1>3, OnlyTheCommandMoves DEF StandsStill, instanceVars, githubVars, refVars, historyVars
  <2>2. CommandInv'
    BY <1>1, <1>2, <1>3, FailsAndRestores
  <2> QED
    BY <2>1, <2>2 DEF UpgradeInv
<1>4. CASE /\ remote[head] # None /\ (\A pr \in prs : pr.branch # head)
           /\ prs' = prs \cup {[branch |-> head, cut |-> branches[cmd.caller]]}
           /\ At("restore")
  <2>1. TreesInv'
    BY <1>1 DEF UpgradeInv, TreesInv
  <2>2. ForgeInv'
    BY <1>1, <1>2, <1>4 DEF UpgradeInv, ForgeInv
  <2>3. Pushed' /\ MainKept'
    BY <1>1 DEF UpgradeInv, Pushed, HasUpstream, MainKept
  <2>4. CommandInv'
    <3>1. cmd' = [cmd EXCEPT !.pc = "restore"] /\ "restore" \in Stages /\ IsCommand(cmd)
      BY <1>2, <1>4, AStage DEF At
    <3>2. IsCommand(cmd') /\ cmd'.pc = "restore" /\ SameWork(cmd, cmd')
      BY <3>1, GoesOn
    <3> QED
      BY <1>1, <1>2, <3>2 DEF CommandInv, Before, OnBranch, SameWork
  <2> QED
    BY <2>1, <2>2, <2>3, <2>4 DEF UpgradeInv
<1> QED
  BY <1>3, <1>4 DEF CreatePullRequest

LEMMA RestoreKeeps == UpgradeInv /\ RestoreCallerBranch => UpgradeInv'
<1> SUFFICES ASSUME UpgradeInv, RestoreCallerBranch PROVE UpgradeInv'
  OBVIOUS
<1>1. /\ cmd.pc = "restore" /\ branches' = branches /\ remote' = remote /\ prs' = prs
      /\ tracking' = tracking /\ upstream' = upstream /\ mine' = mine /\ settled' = settled
  BY DEF RestoreCallerBranch, Doing, githubVars, refVars, historyVars
<1>2. \/ head' = cmd.caller /\ work' = branches[cmd.caller]
      \/ head' = head /\ work' = work
  BY DEF RestoreCallerBranch
<1>3. IsCommand(cmd) /\ branches[cmd.caller] # None /\ cmd.caller \in Branches
  BY <1>1 DEF UpgradeInv, CommandInv, Idle, IsCommand
<1>4. TreesInv'
  BY <1>1, <1>2, <1>3 DEF UpgradeInv, TreesInv
<1>5. ForgeInv' /\ Pushed'
  BY <1>1 DEF UpgradeInv, ForgeInv, Pushed, HasUpstream
<1>6. MainKept'
  BY <1>1, <1>2, <1>3 DEF UpgradeInv, MainKept
<1>7. CommandInv'
  <2>1. CASE cmd' = Idle
    BY <2>1, EndsIdle
  <2>2. CASE At("report")
    <3>1. cmd' = [cmd EXCEPT !.pc = "report"] /\ "report" \in Stages /\ IsCommand(cmd)
      BY <1>3, <2>2, AStage DEF At
    <3>2. IsCommand(cmd') /\ cmd'.pc = "report" /\ SameWork(cmd, cmd')
      BY <3>1, GoesOn
    <3> QED
      BY <1>1, <1>3, <3>2 DEF CommandInv, Before, OnBranch, SameWork
  <2> QED
    BY <2>1, <2>2 DEF RestoreCallerBranch
<1> QED
  BY <1>4, <1>5, <1>6, <1>7 DEF UpgradeInv

\* What was last pushed of every branch the report deletes is settled.
LEMMA ReportReaps ==
  UpgradeInv /\ ReportUpgradeBranches =>
    \E dead \in SUBSET UpgradeBranches :
      /\ branches' = [b \in Branches |-> IF b \in dead THEN None ELSE branches[b]]
      /\ upstream' = [b \in Branches |-> IF b \in dead THEN None ELSE upstream[b]]
      /\ head \notin dead
      /\ \A b \in dead : upstream[b] \in settled
<1> SUFFICES ASSUME UpgradeInv, ReportUpgradeBranches
             PROVE  \E dead \in SUBSET UpgradeBranches :
                      /\ branches' = [b \in Branches |-> IF b \in dead THEN None ELSE branches[b]]
                      /\ upstream' = [b \in Branches |-> IF b \in dead THEN None ELSE upstream[b]]
                      /\ head \notin dead
                      /\ \A b \in dead : upstream[b] \in settled
  OBVIOUS
<1> DEFINE dead == IF cmd.opt.reap THEN Reapable(tracking') ELSE {}
<1>1. /\ branches' = [b \in Branches |-> IF b \in dead THEN None ELSE branches[b]]
      /\ upstream' = [b \in Branches |-> IF b \in dead THEN None ELSE upstream[b]]
      /\ tracking' = remote \/ tracking' = tracking
  BY DEF ReportUpgradeBranches
<1>2. \A b \in dead : b \in UpgradeBranches /\ HasUpstream(b) /\ branches[b] # None /\ b # head
                      /\ tracking'[b] = None
  BY DEF Reapable
<1> HIDE DEF dead
<1>3. \A b \in dead : upstream[b] \in settled
  BY <1>1, <1>2 DEF UpgradeInv, Pushed, HasUpstream
<1> QED
  BY <1>1, <1>2, <1>3

LEMMA ReportKeeps == UpgradeInv /\ ReportUpgradeBranches => UpgradeInv'
<1> SUFFICES ASSUME UpgradeInv, ReportUpgradeBranches PROVE UpgradeInv'
  OBVIOUS
<1>1. PICK dead \in SUBSET UpgradeBranches :
        /\ branches' = [b \in Branches |-> IF b \in dead THEN None ELSE branches[b]]
        /\ upstream' = [b \in Branches |-> IF b \in dead THEN None ELSE upstream[b]]
        /\ head \notin dead
  BY ReportReaps
<1>2. /\ cmd' = Idle /\ head' = head /\ work' = work /\ remote' = remote /\ prs' = prs
      /\ mine' = mine /\ settled' = settled
      /\ tracking' = remote \/ tracking' = tracking
  BY DEF ReportUpgradeBranches, githubVars, historyVars
<1>3. Refs(branches') /\ \A b \in Branches : branches'[b] = IF b \in dead THEN None ELSE branches[b]
  BY <1>1 DEF Refs
<1>4. TreesInv'
  BY <1>1, <1>2, <1>3, MainIsNoUpgrade DEF UpgradeInv, TreesInv
<1>5. ForgeInv'
  BY <1>1, <1>2 DEF UpgradeInv, ForgeInv, Refs
<1>6. CommandInv'
  BY <1>2, EndsIdle
<1>7. Pushed'
  BY <1>1, <1>2, <1>3, MainIsNoUpgrade DEF UpgradeInv, Pushed, HasUpstream
<1>8. MainKept'
  BY <1>1, <1>2, <1>3, MainIsNoUpgrade DEF UpgradeInv, MainKept
<1> QED
  BY <1>4, <1>5, <1>6, <1>7, <1>8 DEF UpgradeInv

LEMMA CrashKeeps == UpgradeInv /\ Crash => UpgradeInv'
<1> SUFFICES ASSUME UpgradeInv, Crash PROVE UpgradeInv'
  OBVIOUS
<1>1. TreesInv' /\ ForgeInv' /\ Pushed' /\ MainKept'
  BY OnlyTheCommandMoves DEF StandsStill, Crash
<1> QED
  BY <1>1, EndsIdle DEF Crash, UpgradeInv

-----------------------------------------------------------------------------
(* The steps around it *)

\* While no command runs the developer may leave any tree.
LEMMA SheWorks == UpgradeInv /\ Developer => cmd' = Idle /\ CommandInv' /\ settled' = settled
<1> SUFFICES ASSUME UpgradeInv, Developer PROVE cmd' = Idle /\ CommandInv' /\ settled' = settled
  OBVIOUS
<1>1. cmd.pc = "idle" /\ cmd' = cmd /\ settled' = settled
  BY DEF Developer, Doing
<1>2. cmd = Idle
  BY <1>1 DEF UpgradeInv, CommandInv, IsCommand, Stages, Before, OnBranch
<1> QED
  BY <1>1, <1>2, EndsIdle

LEMMA SheLeavesATree ==
  /\ UpgradeInv /\ Developer /\ GoodTree(work') /\ mine' = work'
  /\ UNCHANGED <<branches, head, githubVars, refVars>>
  => UpgradeInv'
<1> SUFFICES ASSUME UpgradeInv, Developer, GoodTree(work'), mine' = work',
                    UNCHANGED <<branches, head, githubVars, refVars>>
             PROVE  UpgradeInv'
  OBVIOUS
<1>1. CommandInv' /\ settled' = settled
  BY SheWorks
<1>2. TreesInv'
  BY DEF UpgradeInv, TreesInv
<1>3. ForgeInv'
  BY DEF UpgradeInv, ForgeInv, githubVars, refVars
<1>4. Pushed'
  BY <1>1 DEF UpgradeInv, Pushed, HasUpstream, githubVars, refVars
<1>5. MainKept'
  BY DEF MainKept
<1> QED
  BY <1>1, <1>2, <1>3, <1>4, <1>5 DEF UpgradeInv

LEMMA EditKeeps == UpgradeInv /\ (EditFile \/ DeleteFile) => UpgradeInv'
<1> SUFFICES ASSUME UpgradeInv, EditFile \/ DeleteFile PROVE UpgradeInv'
  OBVIOUS
<1>1. GoodTree(work)
  BY DEF UpgradeInv, TreesInv
<1>2. PICK files : work' = [work EXCEPT !.files = files]
  <2>1. CASE EditFile
    <3>1. PICK p \in Paths : work' = [work EXCEPT !.files[p] =
             IF @ = Absent THEN <<"mine", "mine">> ELSE <<@[1], "mine">>]
      BY <2>1 DEF EditFile
    <3> QED
      BY <3>1
  <2>2. CASE DeleteFile
    <3>1. PICK p \in Paths : work' = [work EXCEPT !.files[p] = Absent]
      BY <2>2 DEF DeleteFile
    <3> QED
      BY <3>1
  <2> QED
    BY <2>1, <2>2
<1>3. GoodTree(work')
  BY <1>1, <1>2, ChangedTree DEF GoodTree
<1>4. /\ Developer /\ mine' = work'
      /\ UNCHANGED <<branches, head, githubVars, refVars>>
  BY DEF EditFile, DeleteFile
<1> QED
  BY <1>3, <1>4, SheLeavesATree

LEMMA AddMigrationKeeps == UpgradeInv /\ AddMigration => UpgradeInv'
<1> SUFFICES ASSUME UpgradeInv, AddMigration PROVE UpgradeInv'
  OBVIOUS
<1> DEFINE x == [file |-> Own.file, rev |-> Own.rev, down |-> HeadOf(work.migs),
                 body |-> Own.body, from |-> Unmarked]
           migs == work.migs \cup {x}
<1>1. /\ Developer /\ Own.rev \notin Revisions(work.migs) /\ mine' = work'
      /\ UNCHANGED <<branches, head, githubVars, refVars>>
      /\ work' = [work EXCEPT !.migs = migs]
  BY DEF AddMigration
<1>2. GoodTree(work) /\ SoundChain(work.migs)
  BY DEF UpgradeInv, TreesInv, GoodTree
<1>3. x.rev = Own.rev /\ x.file = Own.file /\ x.down = HeadOf(work.migs) /\ x.from = Unmarked
      /\ IsMigration(x)
  BY DEF IsMigration
<1> HIDE DEF x
<1>4. IsFiniteSet(migs)
  BY <1>2, FS_AddElement DEF SoundChain
<1>5. ValidChain(migs)
  <2>1. Own.rev # Root
    BY DEF Own, Root
  <2>2. Chained(work.migs)
    BY <1>2, ValidIsChained DEF SoundChain
  <2>3. Chained(migs)
    BY <1>1, <1>3, <2>1, <2>2, OnTheHead
  <2> QED
    BY <1>4, <2>3, ValidIsChained
<1>6. IsInstances(x)
  BY <1>3 DEF IsInstances
<1>7. \A m \in work.migs : Slug(m.file) # Slug(x.file)
  BY <1>1, <1>2, <1>3 DEF SoundChain, IsInstances, Revisions
<1>8. SoundChain(migs)
  BY <1>2, <1>4, <1>5, <1>6, <1>7 DEF SoundChain
<1> HIDE DEF migs
<1>9. GoodTree(work')
  BY <1>1, <1>2, <1>8, ChangedTree DEF GoodTree
<1> QED
  BY <1>1, <1>9, SheLeavesATree

LEMMA ReviseMigrationKeeps == UpgradeInv /\ ReviseMigration => UpgradeInv'
<1> SUFFICES ASSUME UpgradeInv, ReviseMigration PROVE UpgradeInv'
  OBVIOUS
<1>1. PICK m \in work.migs, renamed \in BOOLEAN, edited \in BOOLEAN :
        work' = [work EXCEPT !.migs = (@ \ {m}) \cup
          {[m EXCEPT !.file = IF renamed THEN <<"9", Slug(m.file)>> ELSE @,
                     !.body = IF edited THEN <<Slug(m.file), "edited">> ELSE @]}]
  BY DEF ReviseMigration
<1>2. GoodTree(work) /\ SoundChain(work.migs) /\ IsInstances(m)
  BY DEF UpgradeInv, TreesInv, GoodTree, SoundChain
<1> DEFINE x == [m EXCEPT !.file = IF renamed THEN <<"9", Slug(m.file)>> ELSE @,
                          !.body = IF edited THEN <<Slug(m.file), "edited">> ELSE @]
           migs == (work.migs \ {m}) \cup {x}
<1>3. work' = [work EXCEPT !.migs = migs]
  BY <1>1
<1>4. /\ x = [file |-> x.file, rev |-> m.rev, down |-> m.down, body |-> x.body, from |-> m.from]
      /\ Slug(x.file) = Slug(m.file)
  <2>1. m = [file |-> m.file, rev |-> m.rev, down |-> m.down, body |-> m.body, from |-> m.from]
    BY <1>2 DEF IsInstances, IsMigration
  <2> DEFINE file == IF renamed THEN <<"9", Slug(m.file)>> ELSE m.file
             body == IF edited THEN <<Slug(m.file), "edited">> ELSE m.body
  <2>2. x = [m EXCEPT !.file = file, !.body = body]
    BY <2>1
  <2>3. Slug(file) = Slug(m.file)
    BY DEF Slug
  <2> HIDE DEF file, body, x
  <2>4. x = [file |-> file, rev |-> m.rev, down |-> m.down, body |-> body, from |-> m.from]
    BY <2>1, <2>2
  <2> QED
    BY <2>3, <2>4
<1> HIDE DEF x
<1>5. x.rev = m.rev /\ x.down = m.down /\ x.from = m.from
  BY <1>4
<1>6. IsInstances(x)
  BY <1>2, <1>4, <1>5 DEF IsInstances, IsMigration
<1>7. IsFiniteSet(migs)
  BY <1>2, FS_AddElement, FS_RemoveElement DEF SoundChain
<1>8. ValidChain(migs)
  <2>1. Chained(work.migs)
    BY <1>2, ValidIsChained DEF SoundChain
  <2>2. Chained(migs)
    BY <1>5, <2>1, RevisedInPlace
  <2> QED
    BY <1>7, <2>2, ValidIsChained
<1>9. SoundChain(migs)
  BY <1>2, <1>4, <1>6, <1>7, <1>8 DEF SoundChain
<1> HIDE DEF migs
<1>10. GoodTree(work')
  BY <1>2, <1>3, <1>9, ChangedTree DEF GoodTree
<1>11. /\ Developer /\ mine' = work'
       /\ UNCHANGED <<branches, head, githubVars, refVars>>
  BY DEF ReviseMigration
<1> QED
  BY <1>10, <1>11, SheLeavesATree

LEMMA CommitEditsKeeps == UpgradeInv /\ CommitEdits => UpgradeInv'
<1> SUFFICES ASSUME UpgradeInv, CommitEdits PROVE UpgradeInv'
  OBVIOUS
<1>1. CommandInv' /\ settled' = settled
  BY SheWorks DEF CommitEdits
<1>2. /\ branches' = [branches EXCEPT ![head] = work] /\ head' = head /\ work' = work
      /\ remote' = remote /\ prs' = prs /\ tracking' = tracking /\ upstream' = upstream
      /\ mine' = work
  BY DEF CommitEdits, githubVars, refVars
<1>3. GoodTree(work) /\ work # None /\ head \in Branches
  BY TreeIsThere DEF UpgradeInv, TreesInv, GoodTree
<1>4. Refs(branches') /\ \A b \in Branches : branches'[b] = IF b = head THEN work ELSE branches[b]
  BY <1>2 DEF UpgradeInv, TreesInv, Refs
<1>5. TreesInv'
  BY <1>2, <1>3, <1>4, MainIsNoUpgrade DEF UpgradeInv, TreesInv
<1>6. ForgeInv'
  BY <1>2 DEF UpgradeInv, ForgeInv
<1>7. Pushed'
  BY <1>1, <1>2, <1>3, <1>4, MainIsNoUpgrade DEF UpgradeInv, Pushed, HasUpstream
<1>8. MainKept'
  BY <1>2 DEF MainKept
<1> QED
  BY <1>1, <1>5, <1>6, <1>7, <1>8 DEF UpgradeInv

LEMMA PushBranchKeeps == UpgradeInv /\ PushBranch => UpgradeInv'
<1> SUFFICES ASSUME UpgradeInv, PushBranch PROVE UpgradeInv'
  OBVIOUS
<1>1. CommandInv' /\ settled' = settled
  BY SheWorks DEF PushBranch
<1>2. /\ branches' = branches /\ head' = head /\ work' = work /\ prs' = prs /\ mine' = mine
      /\ remote' = [remote EXCEPT ![head] = branches[head]]
      /\ tracking' = [tracking EXCEPT ![head] = branches[head]]
      /\ upstream' = [upstream EXCEPT ![head] = branches[head]]
  BY DEF PushBranch, instanceVars
<1>3. branches[head] # None /\ GoodTree(branches[head]) /\ head \in Branches
  BY DEF UpgradeInv, TreesInv
<1>4. /\ Refs(remote') /\ Refs(tracking') /\ Refs(upstream')
      /\ \A b \in Branches :
           /\ remote'[b] = IF b = head THEN branches[head] ELSE remote[b]
           /\ tracking'[b] = IF b = head THEN branches[head] ELSE tracking[b]
           /\ upstream'[b] = IF b = head THEN branches[head] ELSE upstream[b]
  BY <1>2 DEF UpgradeInv, ForgeInv, Refs
<1>5. TreesInv'
  BY <1>2 DEF UpgradeInv, TreesInv
<1>6. ForgeInv'
  BY <1>2, <1>3, <1>4, MainIsNoUpgrade DEF UpgradeInv, ForgeInv
<1>7. Pushed'
  BY <1>1, <1>2, <1>3, <1>4, MainIsNoUpgrade DEF UpgradeInv, Pushed, HasUpstream
<1>8. MainKept'
  BY <1>2 DEF UpgradeInv, MainKept
<1> QED
  BY <1>1, <1>5, <1>6, <1>7, <1>8 DEF UpgradeInv

LEMMA DiscardKeeps == UpgradeInv /\ Discard => UpgradeInv'
<1> SUFFICES ASSUME UpgradeInv, Discard PROVE UpgradeInv'
  OBVIOUS
<1>1. /\ Developer /\ work' = branches[head] /\ mine' = work'
      /\ UNCHANGED <<branches, head, githubVars, refVars>>
  BY DEF Discard
<1>2. GoodTree(work')
  BY <1>1 DEF UpgradeInv, TreesInv
<1> QED
  BY <1>1, <1>2, SheLeavesATree

LEMMA SwitchOrPullKeeps == UpgradeInv /\ SwitchOrPull => UpgradeInv'
<1> SUFFICES ASSUME UpgradeInv, SwitchOrPull PROVE UpgradeInv'
  OBVIOUS
<1>1. CommandInv' /\ settled' = settled
  BY SheWorks DEF SwitchOrPull
<1>2. /\ remote' = remote /\ prs' = prs /\ mine' = work'
  BY DEF SwitchOrPull, githubVars
<1>3. MainKept'
  BY <1>2 DEF MainKept
<1>4. CASE /\ head' \in {b \in Branches \ {head} : branches[b] # None}
           /\ work' = branches[head'] /\ UNCHANGED <<branches, refVars>>
  <2>1. TreesInv'
    BY <1>4 DEF UpgradeInv, TreesInv
  <2>2. ForgeInv' /\ Pushed'
    BY <1>1, <1>2, <1>4 DEF UpgradeInv, ForgeInv, Pushed, HasUpstream, refVars
  <2> QED
    BY <1>1, <1>3, <2>1, <2>2 DEF UpgradeInv
<1>5. CASE /\ head = Main /\ head' = head /\ work' = remote[Main]
           /\ branches' = [branches EXCEPT ![Main] = remote[Main]]
           /\ tracking' = [tracking EXCEPT ![Main] = remote[Main]]
           /\ upstream' = [upstream EXCEPT ![Main] = remote[Main]]
  <2>1. remote[Main] # None /\ GoodTree(remote[Main])
    BY MainIsNoUpgrade DEF UpgradeInv, ForgeInv
  <2>2. /\ Refs(branches') /\ Refs(tracking') /\ Refs(upstream')
        /\ \A b \in Branches : /\ branches'[b] = IF b = Main THEN remote[Main] ELSE branches[b]
                               /\ tracking'[b] = IF b = Main THEN remote[Main] ELSE tracking[b]
                               /\ upstream'[b] = IF b = Main THEN remote[Main] ELSE upstream[b]
    BY <1>5 DEF UpgradeInv, TreesInv, ForgeInv, Refs
  <2>3. TreesInv'
    BY <1>5, <2>1, <2>2, MainIsNoUpgrade DEF UpgradeInv, TreesInv
  <2>4. ForgeInv'
    BY <1>2, <2>2 DEF UpgradeInv, ForgeInv
  <2>5. Pushed'
    BY <1>1, <1>2, <2>2, MainIsNoUpgrade DEF UpgradeInv, Pushed, HasUpstream
  <2> QED
    BY <1>1, <1>3, <2>3, <2>4, <2>5 DEF UpgradeInv
<1> QED
  BY <1>4, <1>5 DEF SwitchOrPull

LEMMA DeleteBranchKeeps == UpgradeInv /\ DeleteBranch => UpgradeInv'
<1> SUFFICES ASSUME UpgradeInv, DeleteBranch PROVE UpgradeInv'
  OBVIOUS
<1>1. CommandInv' /\ settled' = settled
  BY SheWorks DEF DeleteBranch
<1>2. PICK gone \in UpgradeBranches \ {head} :
        /\ branches' = [branches EXCEPT ![gone] = None]
        /\ upstream' = [upstream EXCEPT ![gone] = None]
  BY DEF DeleteBranch
<1>3. /\ head' = head /\ work' = work /\ remote' = remote /\ prs' = prs /\ tracking' = tracking
      /\ mine' = mine
  BY DEF DeleteBranch, githubVars
<1>4. /\ Refs(branches') /\ Refs(upstream')
      /\ \A b \in Branches : /\ branches'[b] = IF b = gone THEN None ELSE branches[b]
                             /\ upstream'[b] = IF b = gone THEN None ELSE upstream[b]
  BY <1>2 DEF UpgradeInv, TreesInv, ForgeInv, Refs
<1>5. TreesInv'
  BY <1>2, <1>3, <1>4, MainIsNoUpgrade DEF UpgradeInv, TreesInv
<1>6. ForgeInv'
  BY <1>3, <1>4 DEF UpgradeInv, ForgeInv
<1>7. Pushed'
  BY <1>1, <1>2, <1>3, <1>4, MainIsNoUpgrade DEF UpgradeInv, Pushed, HasUpstream
<1>8. MainKept'
  BY <1>2, <1>3, <1>4, MainIsNoUpgrade DEF UpgradeInv, MainKept
<1> QED
  BY <1>1, <1>5, <1>6, <1>7, <1>8 DEF UpgradeInv

LEMMA MergeKeeps == UpgradeInv /\ MergePullRequest => UpgradeInv'
<1> SUFFICES ASSUME UpgradeInv, MergePullRequest PROVE UpgradeInv'
  OBVIOUS
<1>1. PICK pr \in prs :
        /\ remote' = [remote EXCEPT ![Main] = remote[pr.branch], ![pr.branch] = None]
        /\ prs' = prs \ {pr}
        /\ settled' = settled \cup {remote[pr.branch]}
  BY DEF MergePullRequest
<1>2. /\ branches' = branches /\ head' = head /\ work' = work /\ cmd' = cmd /\ mine' = mine
      /\ tracking' = tracking /\ upstream' = upstream
  BY DEF MergePullRequest, instanceVars, refVars
<1>3. pr.branch \in UpgradeBranches /\ remote[pr.branch] # None
  BY DEF UpgradeInv, ForgeInv
<1>4. /\ Refs(remote')
      /\ \A b \in Branches : remote'[b] = IF b = pr.branch THEN None
                                          ELSE IF b = Main THEN remote[pr.branch] ELSE remote[b]
  BY <1>1, <1>3, MainIsNoUpgrade DEF UpgradeInv, ForgeInv, Refs
<1>5. TreesInv'
  BY <1>2 DEF UpgradeInv, TreesInv
<1>6. ForgeInv'
  BY <1>1, <1>2, <1>3, <1>4, MainIsNoUpgrade DEF UpgradeInv, ForgeInv
<1>7. CommandInv'
  BY <1>2 DEF UpgradeInv, CommandInv
<1>8. Pushed'
  BY <1>1, <1>2, <1>3, <1>4, MainIsNoUpgrade DEF UpgradeInv, Pushed, HasUpstream
<1>9. MainKept'
  BY <1>2 DEF UpgradeInv, MainKept
<1> QED
  BY <1>5, <1>6, <1>7, <1>8, <1>9 DEF UpgradeInv

LEMMA DeleteOnGitHubKeeps == UpgradeInv /\ DeleteOnGitHub => UpgradeInv'
<1> SUFFICES ASSUME UpgradeInv, DeleteOnGitHub PROVE UpgradeInv'
  OBVIOUS
<1>1. PICK gone \in UpgradeBranches :
        /\ remote[gone] # None
        /\ remote' = [remote EXCEPT ![gone] = None]
        /\ prs' = {pr \in prs : pr.branch # gone}
        /\ settled' = settled \cup {remote[gone]}
  BY DEF DeleteOnGitHub
<1>2. /\ branches' = branches /\ head' = head /\ work' = work /\ cmd' = cmd /\ mine' = mine
      /\ tracking' = tracking /\ upstream' = upstream
  BY DEF DeleteOnGitHub, instanceVars, refVars
<1>3. Refs(remote') /\ \A b \in Branches : remote'[b] = IF b = gone THEN None ELSE remote[b]
  BY <1>1 DEF UpgradeInv, ForgeInv, Refs
<1>4. TreesInv'
  BY <1>2 DEF UpgradeInv, TreesInv
<1>5. ForgeInv'
  BY <1>1, <1>2, <1>3, MainIsNoUpgrade DEF UpgradeInv, ForgeInv
<1>6. CommandInv'
  BY <1>2 DEF UpgradeInv, CommandInv
<1>7. Pushed'
  BY <1>1, <1>2, <1>3, MainIsNoUpgrade DEF UpgradeInv, Pushed, HasUpstream
<1>8. MainKept'
  BY <1>2 DEF UpgradeInv, MainKept
<1> QED
  BY <1>4, <1>5, <1>6, <1>7, <1>8 DEF UpgradeInv

LEMMA UpgradeKeeps == UpgradeInv /\ [UpgradeNext]_upgradeVars => UpgradeInv'
<1> SUFFICES ASSUME UpgradeInv, [UpgradeNext]_upgradeVars PROVE UpgradeInv'
  OBVIOUS
<1>1. CASE CommandStep
  BY <1>1, RunKeeps, CurrencyKeeps, ResolveKeeps, PlanKeeps, CreateBranchKeeps, ApplyPlanKeeps,
     ApplyStopsKeeps, CommitKeeps, InstallKeeps, PushKeeps, CreatePullRequestKeeps, RestoreKeeps,
     ReportKeeps, CrashKeeps DEF CommandStep
<1>2. CASE \/ EditFile \/ DeleteFile \/ AddMigration \/ ReviseMigration
           \/ CommitEdits \/ PushBranch \/ Discard \/ SwitchOrPull \/ DeleteBranch
           \/ MergePullRequest \/ DeleteOnGitHub
  BY <1>2, EditKeeps, AddMigrationKeeps, ReviseMigrationKeeps, CommitEditsKeeps, PushBranchKeeps,
     DiscardKeeps, SwitchOrPullKeeps, DeleteBranchKeeps, MergeKeeps, DeleteOnGitHubKeeps
<1>3. CASE UNCHANGED upgradeVars
  <2>1. TreesInv' /\ ForgeInv' /\ Pushed' /\ MainKept'
    BY <1>3, OnlyTheCommandMoves DEF StandsStill, upgradeVars
  <2>2. branches' = branches /\ head' = head /\ work' = work /\ upstream' = upstream /\ cmd' = cmd
    BY <1>3 DEF upgradeVars, instanceVars, refVars
  <2>3. CommandInv'
    BY <2>2 DEF UpgradeInv, CommandInv
  <2> QED
    BY <2>1, <2>3 DEF UpgradeInv
<1> QED
  BY <1>1, <1>2, <1>3 DEF UpgradeNext

\* Each of the parts of UpgradeInv, at every step of every command and of what happens between them.
THEOREM UpgradeInvariant == UpgradeSpec => []UpgradeInv
<1>1. UpgradeInit => UpgradeInv
  BY UpgradeInitially
<1>2. UpgradeInv /\ [UpgradeNext]_upgradeVars => UpgradeInv'
  BY UpgradeKeeps
<1> QED
  BY <1>1, <1>2, PTL DEF UpgradeSpec

-----------------------------------------------------------------------------
(* What follows *)

\* What the planner was shown of a file it planned for.
LEMMA PlannedFiles ==
  ASSUME NEW c, Planned(c),
         NEW in, in = Sides(Release[c.from].files, c.ours, c.theirs.files,
                            Release[c.from].manifest, c.theirs.manifest),
         NEW divergent, divergent = DeclaredDivergent(c.theirs.manifest, Config, Trailers)
  PROVE  /\ DOMAIN c.plan = Owned(c.theirs.manifest) /\ DOMAIN c.plan \subseteq Paths
         /\ \A p \in DOMAIN c.plan :
              /\ c.plan[p] = Classify(p, in, Release[c.from].files, c.ours, c.theirs.files, divergent)
              /\ Compared(p, in, Release[c.from].files, c.ours, c.theirs.files)
              /\ p \in Owned(Release[c.from].manifest) =>
                   (Release[c.from].files[p] # Absent => p \in in.base)
<1> DEFINE base == Release[c.from].files
           manifest == c.theirs.manifest
           theirs == c.theirs.files
<1>1. c.plan = PlanCoreUpgrade(manifest, in, base, c.ours, theirs, divergent)
  BY DEF Planned
<1>2. in.base = TemplateOwnedFiles(base, manifest) \cap Owned(Release[c.from].manifest)
      /\ in.ours = TemplateOwnedFiles(c.ours, manifest) /\ in.theirs = TemplateOwnedFiles(theirs, manifest)
  BY DEF Sides
<1> HIDE DEF base, manifest, theirs
<1>3. DOMAIN c.plan = Owned(manifest) /\ Owned(manifest) \subseteq Paths
  BY <1>1 DEF PlanCoreUpgrade, Owned
<1>4. \A p \in DOMAIN c.plan : c.plan[p] = Classify(p, in, base, c.ours, theirs, divergent)
  BY <1>1, <1>3 DEF PlanCoreUpgrade
<1>5. \A p \in DOMAIN c.plan : Compared(p, in, base, c.ours, theirs)
  BY <1>2, <1>3 DEF Compared, TemplateOwnedFiles
<1>6. \A p \in DOMAIN c.plan : p \in Owned(Release[c.from].manifest) => (base[p] # Absent => p \in in.base)
  BY <1>2, <1>3 DEF TemplateOwnedFiles
<1> QED
  BY <1>3, <1>4, <1>5, <1>6 DEF base, manifest, theirs

\* What the applied plan leaves of a file.
LEMMA AppliedFile ==
  ASSUME NEW c, NEW p \in Paths
  PROVE  /\ p \notin DOMAIN c.plan => Applied(c)[p] = c.ours[p]
         /\ p \in DOMAIN c.plan /\ c.plan[p].status # "removed" =>
              Applied(c)[p] = IF c.plan[p].content # Absent THEN c.plan[p].content ELSE c.ours[p]
BY DEF Applied, ApplyUpgradePlan

LEMMA Installing ==
  ASSUME UpgradeInv, Doing("install")
  PROVE  /\ Planned(cmd) /\ (Conflicts(cmd.plan) = {} \/ cmd.opt.allowConflicts)
         /\ branches[head].files = Applied(cmd) /\ branches[head].version = cmd.to
BY DEF UpgradeInv, CommandInv, Doing, Idle, OnBranch

LEMMA EditsSurvive == UpgradeInv => InstanceEditsSurvive
<1> SUFFICES ASSUME UpgradeInv, Doing("install"), ~cmd.opt.allowConflicts,
                    NEW p \in Paths, NEW h \in 1..2, cmd.ours[p] # Absent,
                    \/ Release[cmd.from].files[p] = Absent
                    \/ cmd.ours[p][h] # Release[cmd.from].files[p][h]
             PROVE  branches[head].files[p] # Absent /\ branches[head].files[p][h] = cmd.ours[p][h]
  BY DEF InstanceEditsSurvive
<1> DEFINE base == Release[cmd.from].files
           in == Sides(base, cmd.ours, cmd.theirs.files, Release[cmd.from].manifest, cmd.theirs.manifest)
           divergent == DeclaredDivergent(cmd.theirs.manifest, Config, Trailers)
           entry == Classify(p, in, base, cmd.ours, cmd.theirs.files, divergent)
<1>1. Planned(cmd) /\ Conflicts(cmd.plan) = {} /\ branches[head].files = Applied(cmd)
  BY Installing
<1>2. p \in DOMAIN cmd.plan => cmd.plan[p] = entry /\ Compared(p, in, base, cmd.ours, cmd.theirs.files)
  BY <1>1, PlannedFiles
<1>3. CASE p \notin DOMAIN cmd.plan
  BY <1>1, <1>3, AppliedFile
<1>4. CASE p \in DOMAIN cmd.plan
  <2>1. ~entry.conflicted
    BY <1>1, <1>2, <1>4 DEF Conflicts
  <2>2. entry.status # "removed" /\ (entry.content # Absent => entry.content[h] = cmd.ours[p][h])
    <3> HIDE DEF in, divergent
    <3> QED
      BY <1>2, <1>4, <2>1, EditsAreKept
  <2> HIDE DEF entry
  <2>3. Applied(cmd)[p] = IF entry.content # Absent THEN entry.content ELSE cmd.ours[p]
    BY <1>2, <1>4, <2>2, AppliedFile
  <2> QED
    BY <1>1, <2>2, <2>3
<1> QED
  BY <1>3, <1>4

LEMMA TagArrives == UpgradeInv => ReleaseArrives
<1> SUFFICES ASSUME UpgradeInv, Doing("install") PROVE ReleaseArrives
  BY DEF ReleaseArrives
<1> DEFINE base == Release[cmd.from].files
           new == Release[cmd.to]
           in == Sides(base, cmd.ours, cmd.theirs.files, Release[cmd.from].manifest, cmd.theirs.manifest)
           divergent == DeclaredDivergent(cmd.theirs.manifest, Config, Trailers)
           entry(p) == Classify(p, in, base, cmd.ours, cmd.theirs.files, divergent)
<1>1. Planned(cmd) /\ branches[head].files = Applied(cmd) /\ branches[head].version = cmd.to
  BY Installing
<1>2. /\ DOMAIN cmd.plan = Owned(cmd.theirs.manifest) /\ DOMAIN cmd.plan \subseteq Paths
      /\ \A p \in DOMAIN cmd.plan :
           /\ cmd.plan[p] = entry(p)
           /\ Compared(p, in, base, cmd.ours, cmd.theirs.files)
           /\ p \in Owned(Release[cmd.from].manifest) => (base[p] # Absent => p \in in.base)
  BY <1>1, PlannedFiles
<1> HIDE DEF in, divergent
<1>3. ASSUME cmd.verified \/ ~cmd.viaCheckout,
             NEW p \in DOMAIN cmd.plan, cmd.plan[p].status \in Verbatim
      PROVE  branches[head].files[p] = new.files[p]
  <2>1. cmd.plan[p].content = new.files[p]
    BY <1>1, <1>3 DEF Planned, FaithfulToTag
  <2>2. cmd.plan[p].content # Absent
    BY <1>2, <1>3, VerbatimIsTheirs
  <2>3. cmd.plan[p].status # "removed" /\ p \in Paths
    BY <1>2, <1>3 DEF Verbatim
  <2>4. Applied(cmd)[p] = cmd.plan[p].content
    BY <2>2, <2>3, AppliedFile
  <2> QED
    BY <1>1, <2>1, <2>4
<1>4. ASSUME ~cmd.viaCheckout,
             NEW p \in Owned(Release[cmd.from].manifest) \cap Owned(new.manifest), NEW h \in 1..2,
             new.files[p] # Absent, base[p] = Absent <=> cmd.ours[p] = Absent,
             base[p] # Absent => cmd.ours[p][h] = base[p][h]
      PROVE  branches[head].files[p] # Absent /\ branches[head].files[p][h] = new.files[p][h]
  <2>1. cmd.theirs = new
    BY <1>1, <1>4 DEF Planned
  <2>2. p \in DOMAIN cmd.plan /\ p \in Paths
    BY <1>2, <2>1
  <2>3. LET e == entry(p)
        IN  /\ e.status # "removed"
            /\ e.content # Absent => e.content[h] = new.files[p][h]
            /\ e.content = Absent => cmd.ours[p] # Absent /\ cmd.ours[p][h] = new.files[p][h]
    <3>1. /\ Compared(p, in, base, cmd.ours, cmd.theirs.files) /\ (base[p] # Absent => p \in in.base)
          /\ cmd.theirs.files[p] # Absent /\ cmd.theirs.files = new.files
      BY <1>2, <1>4, <2>1, <2>2
    <3> HIDE DEF base, new
    <3> QED
      BY <1>4, <3>1, ChangesArrive DEF entry
  <2>4. cmd.plan[p] = entry(p)
    BY <1>2, <2>2
  <2> HIDE DEF entry
  <2>5. Applied(cmd)[p] = IF entry(p).content # Absent THEN entry(p).content ELSE cmd.ours[p]
    BY <2>2, <2>3, <2>4, AppliedFile
  <2> QED
    BY <1>1, <2>3, <2>5
<1> QED
  BY <1>1, <1>3, <1>4 DEF ReleaseArrives

\* An upgrade commit made without --allow-conflicts keeps every hunk in which the
\* instance differed from the release it was on, whatever the release, the manifests, the
\* declarations and the flags are, and whatever failed before.
THEOREM InstanceEditsSurviveAlways == UpgradeSpec => []InstanceEditsSurvive
<1>1. UpgradeInv => InstanceEditsSurvive
  BY EditsSurvive
<1> QED
  BY <1>1, UpgradeInvariant, PTL

\* An upgrade commit that records a version brings what its tag ships, also when the
\* template checkout was moved under the command, unless git could not verify the
\* checkout against the tag.
THEOREM ReleaseArrivesAlways == UpgradeSpec => []ReleaseArrives
<1>1. UpgradeInv => ReleaseArrives
  BY TagArrives
<1> QED
  BY <1>1, UpgradeInvariant, PTL

\* Every branch holds a chain Alembic accepts, in which no migration of the template is
\* twice, whatever the developer did to her copies and wherever a carry stopped.
THEOREM MigrationsRunOnceAlways == UpgradeSpec => []MigrationsRunOnce
<1>1. UpgradeInv => MigrationsRunOnce
  BY DEF UpgradeInv, TreesInv, GoodTree, SoundChain, MigrationsRunOnce
<1> QED
  BY <1>1, UpgradeInvariant, PTL

\* The main branch never holds uncommitted work of the command, wherever it failed or died.
THEOREM NothingCarriedOverAlways == UpgradeSpec => []NothingCarriedOver
<1>1. UpgradeInv => NothingCarriedOver
  BY DEF UpgradeInv, MainKept, NothingCarriedOver
<1> QED
  BY <1>1, UpgradeInvariant, PTL

\* --reap deletes only branches whose content, as it was last pushed, has been merged or
\* was deleted on GitHub by a person. Commits made on them since go with them.
THEOREM ReapsOnlySettled == UpgradeSpec => ReapedIsSettled
<1> DEFINE Reaps == \A b \in Branches :
                      cmd # Idle /\ branches[b] # None /\ branches'[b] = None => upstream[b] \in settled
<1>1. UpgradeInv /\ [UpgradeNext]_upgradeVars => [Reaps]_upgradeVars
  <2> SUFFICES ASSUME UpgradeInv, UpgradeNext, NEW b \in Branches,
                      cmd # Idle, branches[b] # None, branches'[b] = None
               PROVE  upstream[b] \in settled
    OBVIOUS
  <2>1. CASE RunCoreUpgrade \/ CheckInstanceCurrency \/ ResolveTrees \/ PlanUpgrade \/ ApplyPlan
             \/ ApplyStops \/ InstallDependencies \/ Push \/ CreatePullRequest
             \/ RestoreCallerBranch \/ Crash \/ MergePullRequest \/ DeleteOnGitHub
    BY <2>1 DEF RunCoreUpgrade, CheckInstanceCurrency, ResolveTrees, PlanUpgrade, ApplyPlan,
       ApplyStops, InstallDependencies, Push, CreatePullRequest, RestoreCallerBranch, Crash,
       MergePullRequest, DeleteOnGitHub, instanceVars
  <2>2. CASE CreateBranch
    <3>1. \/ branches' = branches
          \/ branches' = [branches EXCEPT ![UpgradeBranchName(cmd.from, cmd.to)] = branches[head]]
      BY <2>2 DEF CreateBranch, instanceVars
    <3>2. branches[head] # None /\ Refs(branches)
      BY DEF UpgradeInv, TreesInv
    <3>3. branches'[b] = branches[b] \/ branches'[b] = branches[head]
      BY <3>1, <3>2 DEF Refs
    <3> QED
      BY <3>2, <3>3
  <2>3. CASE Commit
    <3>1. branches' = branches \/ branches' = [branches EXCEPT ![head] = work]
      BY <2>3 DEF Commit
    <3>2. work # None /\ Refs(branches)
      BY TreeIsThere DEF UpgradeInv, TreesInv, GoodTree
    <3>3. branches'[b] = branches[b] \/ branches'[b] = work
      BY <3>1, <3>2 DEF Refs
    <3> QED
      BY <3>2, <3>3
  <2>4. CASE ReportUpgradeBranches
    BY <2>4, ReportReaps
  <2>5. CASE \/ EditFile \/ DeleteFile \/ AddMigration \/ ReviseMigration
             \/ CommitEdits \/ PushBranch \/ Discard \/ SwitchOrPull \/ DeleteBranch
    <3>1. Developer
      BY <2>5 DEF EditFile, DeleteFile, AddMigration, ReviseMigration, CommitEdits,
         PushBranch, Discard, SwitchOrPull, DeleteBranch
    <3>2. cmd = Idle
      BY <3>1, SheWorks DEF Developer
    <3> QED
      BY <3>2
  <2> QED
    BY <2>1, <2>2, <2>3, <2>4, <2>5 DEF UpgradeNext, CommandStep
<1>2. UpgradeSpec => [][Reaps]_upgradeVars
  BY <1>1, UpgradeInvariant, PTL DEF UpgradeSpec
<1> QED
  BY <1>2 DEF ReapedIsSettled

-----------------------------------------------------------------------------
(***************************************************************************)
(* What init and teardown promise, for any environments, branches and      *)
(* number of commands, each stopping anywhere.                             *)
(*                                                                         *)
(* The invariant: every call still to come is safe, given the calls that   *)
(* come before it.  A call is safe if what it relies on is there or will   *)
(* be brought about by one of those calls.                                 *)
(***************************************************************************)
(* The types *)

\* The step that completes the core's branches.
Gate == "github_instance_files"
CoreNames == {"verify_credentials", "create_repo", "oidc_trust", "terraform_backend",
              "github_branches", Gate, "github_settings", "app_sibling",
              "github_protection_sealed"}
SiblingNames == {"verify_credentials", "resolve_core_identity", "create_repo", "push_skeleton",
                 "oidc_trust", "terraform_backend", "github_config", "register_with_core",
                 "trigger_first_deploy"}
Removes == {"deleteRepo", "deleteRole", "deleteBucket"}

Names == CoreNames \cup SiblingNames
Verbs == {"step", "mark", "nested", "finish", "forget"} \cup CoreNames \cup SiblingNames \cup Removes
         \cup {"createLine", "instanceFiles", "fastForward", "protect", "seal", "applyGlobal", "apply",
               "wire", "wireSibling", "destroy", "destroyGlobal"}
\* Commands, their calls and what they work on.
Calls == Verbs \X Projects \X (Names \cup {"", Global} \cup Lines \cup Envs)
Guards == {"off", "open to admins", "sealed"}
Repos == {r \in [exists : BOOLEAN, lines : [Lines -> 0..2], guard : [Lines -> Guards]] :
            \A l \in Lines : r.lines[l] <= r.lines["dev"] /\ (r.exists \/ r.lines[l] = 0)}
Targets(p) == Envs \cup (IF p = CoreRepo THEN {Global} ELSE {})
Worlds == {w \in [repo : [Projects -> Repos], role : SUBSET Projects, bucket : [Projects -> 0..2],
                  infra : [Projects -> SUBSET (Envs \cup {Global})],
                  wired : SUBSET (Projects \X Envs), request : {"none", "open", "merged"}] :
             \A p \in Projects : w.infra[p] \subseteq Targets(p)}
Sessions == [exists : BOOLEAN, steps : SUBSET Names, app : SUBSET Names]
Disks == [init : Sessions, sibling : [Siblings -> Sessions], saved : 0..2]
Jobs == [cmd : {"init", "sibling", "deploy", "destroy", "teardown"}, todo : Seq(Calls),
         init : Sessions, sibling : Sessions, resumed : BOOLEAN, skip : BOOLEAN,
         overlooked : SUBSET (Envs \cup {Global})]

\* What an init session says of the core's repository, and of the sibling's steps in it.
Good(w, session) ==
  /\ Gate \in session.steps =>
       /\ "create_repo" \in session.steps
       /\ w.repo[CoreRepo].exists => \A l \in Lines : w.repo[CoreRepo].lines[l] = 2
  /\ session.app # {} => "app_sibling" \in session.steps

-----------------------------------------------------------------------------
(* When a call is safe for a job j, the calls of B coming before it *)

\* A step of the core is recorded, or will be.
Comes(j, B, name) ==
  name \in j.init.steps \/ <<"step", CoreRepo, name>> \in B \/ <<"mark", CoreRepo, name>> \in B
\* Only calls for the core, the application not being one of them.
Quiet(j, B) == j.sibling.steps = {} /\ \A b \in B : b[2] = CoreRepo /\ b # <<"step", CoreRepo, "app_sibling">>

\* Which command makes a call, and of what.
Placed(j, c) ==
  /\ c[1] \in {"createLine", "protect", "seal", "fastForward"} => c[3] \in Lines
  /\ c[1] \in {"instanceFiles", "fastForward", "apply", "applyGlobal"} => c[2] = CoreRepo
  /\ c[1] \in {"apply", "applyGlobal", "destroyGlobal"} => c[3] \in Targets(c[2])
  /\ c[1] = "wireSibling" => c[3] \in Envs
  /\ c[1] = "wire" => c[3] \in Envs /\ j.cmd = "deploy"
  /\ c[1] \in Removes \cup {"forget"} => j.cmd = "teardown"
  /\ j.cmd = "teardown" => c[1] \in Removes \cup {"destroy", "destroyGlobal", "forget"}
  /\ c[1] \in {"step", "mark"} =>
       /\ j.cmd = IF c[2] = "shop" THEN "sibling" ELSE "init"
       /\ c[3] \in IF c[2] = CoreRepo THEN CoreNames ELSE SiblingNames
  /\ c[1] = "nested" => c[2] = "app"
  /\ c[1] = "finish" => c[2] = CoreRepo \/ c[2] \in Siblings

\* What begins something is due at once, and has not been done.
Begins(j, B, c) ==
  /\ c[1] = "create_repo" /\ c[2] = CoreRepo => B = {} /\ j.cmd = "init" /\ "create_repo" \notin j.init.steps
  /\ c[1] = "nested" => B = {} /\ j.cmd = "init" /\ "app_sibling" \notin j.init.steps

\* The core's files are there before its branches are closed.
FilesFirst(w, j, B, c) ==
  /\ c[1] = "fastForward" =>
       w.repo[CoreRepo].lines["dev"] = 2 \/ <<"instanceFiles", CoreRepo, "dev">> \in B
  /\ c = <<"mark", CoreRepo, Gate>> =>
       \A l \in Lines : \/ w.repo[CoreRepo].lines[l] = 2
                        \/ <<"fastForward", CoreRepo, l>> \in B
                        \/ l = "dev" /\ <<"instanceFiles", CoreRepo, "dev">> \in B
  /\ c[1] \in {"step", "mark"} /\ c[2] = CoreRepo /\ c[3] = Gate => Comes(j, B, "create_repo")
  /\ c[1] \in {"step", "mark"} /\ c[2] = CoreRepo /\ c[3] = "github_protection_sealed" => Comes(j, B, Gate)
  /\ c[1] = "seal" /\ c[2] = CoreRepo => Comes(j, B, Gate)
  /\ c[1] = "seal" /\ c[2] # CoreRepo =>
       \/ w.repo[c[2]].lines[c[3]] > 0
       \/ <<"createLine", c[2], c[3]>> \in B
       \/ c[3] = "dev"

\* The application's session: what a step brings about.
Reaches(w, B, name) ==
  LET called == <<name, "app", "">> \in B IN
  CASE name = "create_repo" -> w.repo["app"].exists \/ called
    [] name = "push_skeleton" -> w.repo["app"].lines["dev"] > 0 \/ called
    [] name = "oidc_trust" -> "app" \in w.role \/ called
    [] name = "terraform_backend" -> w.bucket["app"] # 0 \/ called
    [] name = "github_config" ->
         \A l \in Lines : \/ w.repo["app"].lines[l] > 0
                          \/ <<"createLine", "app", l>> \in B
                          \/ l = "dev" /\ <<"protect", "app", "dev">> \in B
    [] OTHER -> TRUE
\* A step is recorded after its effect, in a session that knows what its file says.
SessionFirst(w, d, j, B, c) ==
  /\ c[1] = "mark" /\ c[2] = "app" => Reaches(w, B, c[3])
  /\ c[1] \in {"step", "mark"} /\ c[2] = "app" =>
       d.sibling["app"].steps \subseteq j.sibling.steps \/ <<"nested", "app", "">> \in B
  /\ c[1] \in {"step", "mark"} /\ c[2] = CoreRepo /\ c[3] # "app_sibling" =>
       Comes(j, B, "app_sibling") \/ Quiet(j, B)

\* In a teardown, what a project is made of goes after its infrastructure.
Allowed(j, p) == IF p = CoreRepo THEN j.overlooked \cup {Global} ELSE {}
DestroyedFirst(w, j, B, c) ==
  c[1] \in Removes /\ ~j.skip =>
    \A e \in w.infra[c[2]] \ Allowed(j, c[2]) : <<"destroy", c[2], e>> \in B

Safe(w, d, j, B, c) ==
  /\ Placed(j, c) /\ Begins(j, B, c) /\ FilesFirst(w, j, B, c) /\ SessionFirst(w, d, j, B, c)
  /\ DestroyedFirst(w, j, B, c)

\* The calls of a list before its i-th; the list works if each of its calls is safe.
Ahead(s, i) == {s[k] : k \in 1..(i - 1)}
Works(w, d, j, s, B) == \A i \in DOMAIN s : Safe(w, d, j, B \cup Ahead(s, i), s[i])

\* What the application's session says.
Truth(w, j) ==
  \A name \in j.sibling.steps :
    CASE name = "create_repo" -> w.repo["app"].exists
      [] name = "push_skeleton" -> w.repo["app"].lines["dev"] > 0
      [] name = "oidc_trust" -> "app" \in w.role
      [] name = "terraform_backend" -> w.bucket["app"] # 0
      [] name = "github_config" -> \A l \in Lines : w.repo["app"].lines[l] > 0
      [] OTHER -> TRUE

JobInv(w, d, j) ==
  j # NoJob =>
    /\ j \in Jobs /\ Good(w, j.init)
    /\ j.cmd = "init" => d.init.steps \subseteq j.init.steps /\ Truth(w, j)
    /\ Works(w, d, j, j.todo, {})

LifeInv ==
  /\ world \in Worlds /\ SealedIsComplete
  /\ disk \in Disks /\ Good(world, disk.init)
  /\ JobInv(world, disk, job)

-----------------------------------------------------------------------------
(* Lists of calls *)

\* One list after another.
LEMMA WorksBoth ==
  ASSUME NEW w, NEW d, NEW j, NEW B, NEW S, NEW s \in Seq(S), NEW t \in Seq(S),
         Works(w, d, j, s, B), Works(w, d, j, t, B \cup Range(s))
  PROVE  Works(w, d, j, s \o t, B)
<1> DEFINE st == s \o t
<1>1. Len(s) \in Nat /\ Len(t) \in Nat /\ DOMAIN s = 1..Len(s) /\ DOMAIN t = 1..Len(t)
  BY LenProperties
<1>2. /\ DOMAIN st = 1..(Len(s) + Len(t))
      /\ \A i \in DOMAIN st : st[i] = IF i <= Len(s) THEN s[i] ELSE t[i - Len(s)]
  BY <1>1, ConcatProperties, LenProperties
<1> HIDE DEF st
<1>3. ASSUME NEW i \in DOMAIN st PROVE Safe(w, d, j, B \cup Ahead(st, i), st[i])
  <2>1. CASE i <= Len(s)
    <3>1. i \in DOMAIN s /\ st[i] = s[i]
      BY <1>1, <1>2, <2>1
    <3>2. Ahead(st, i) = Ahead(s, i)
      BY <1>1, <1>2, <2>1 DEF Ahead
    <3> QED
      BY <3>1, <3>2 DEF Works
  <2>2. CASE i > Len(s)
    <3> DEFINE k == i - Len(s)
    <3>1. k \in DOMAIN t /\ st[i] = t[k]
      BY <1>1, <1>2, <2>2
    <3>2. Ahead(st, i) = Range(s) \cup Ahead(t, k)
      <4>1. ASSUME NEW x \in Ahead(st, i) PROVE x \in Range(s) \cup Ahead(t, k)
        <5>1. PICK n \in 1..(i - 1) : x = st[n]
          BY DEF Ahead
        <5>2. CASE n <= Len(s)
          BY <1>1, <1>2, <5>1, <5>2 DEF Range
        <5>3. CASE n > Len(s)
          <6>1. n - Len(s) \in 1..(k - 1) /\ x = t[n - Len(s)]
            BY <1>1, <1>2, <5>1, <5>3
          <6> QED
            BY <6>1 DEF Ahead
        <5> QED
          BY <1>1, <1>2, <5>2, <5>3
      <4>2. ASSUME NEW x \in Range(s) PROVE x \in Ahead(st, i)
        <5>1. PICK n \in DOMAIN s : x = s[n]
          BY DEF Range
        <5>2. n \in 1..(i - 1) /\ x = st[n]
          BY <1>1, <1>2, <2>2, <5>1
        <5> QED
          BY <5>2 DEF Ahead
      <4>3. ASSUME NEW x \in Ahead(t, k) PROVE x \in Ahead(st, i)
        <5>1. PICK n \in 1..(k - 1) : x = t[n]
          BY DEF Ahead
        <5>2. n + Len(s) \in 1..(i - 1) /\ x = st[n + Len(s)]
          BY <1>1, <1>2, <2>2, <5>1
        <5> QED
          BY <5>2 DEF Ahead
      <4> QED
        BY <4>1, <4>2, <4>3
    <3> HIDE DEF k
    <3>3. Safe(w, d, j, (B \cup Range(s)) \cup Ahead(t, k), t[k])
      BY <3>1 DEF Works
    <3>4. B \cup Ahead(st, i) = (B \cup Range(s)) \cup Ahead(t, k)
      BY <3>2
    <3> QED
      BY <3>1, <3>3, <3>4
  <2> QED
    BY <1>1, <1>2, <2>1, <2>2
<1> QED
  BY <1>3 DEF Works, st

\* The first call, and those after it.
LEMMA WorksNext ==
  ASSUME NEW w, NEW d, NEW j, NEW S, NEW s \in Seq(S), s # <<>>, Works(w, d, j, s, {})
  PROVE  Safe(w, d, j, {}, Head(s)) /\ Works(w, d, j, Tail(s), {Head(s)})
<1> DEFINE t == Tail(s)
<1>1. /\ Len(s) \in Nat /\ Len(s) # 0 /\ DOMAIN s = 1..Len(s)
      /\ t \in Seq(S) /\ Len(t) = Len(s) - 1 /\ \A i \in 1..Len(t) : t[i] = s[i + 1]
  BY LenProperties, EmptySeq, HeadTailProperties
<1>2. DOMAIN t = 1..Len(t)
  BY <1>1, LenProperties
<1>3. Head(s) = s[1]
  BY <1>1
<1> HIDE DEF t
<1>4. Safe(w, d, j, {}, Head(s))
  <2>1. {} \cup Ahead(s, 1) = {}
    BY DEF Ahead
  <2>2. Safe(w, d, j, {} \cup Ahead(s, 1), s[1])
    BY <1>1 DEF Works
  <2> QED
    BY <1>3, <2>1, <2>2
<1>5. ASSUME NEW i \in DOMAIN t PROVE Safe(w, d, j, {Head(s)} \cup Ahead(t, i), t[i])
  <2>1. i + 1 \in DOMAIN s /\ t[i] = s[i + 1] /\ i \in Nat
    BY <1>1, <1>2
  <2>2. {} \cup Ahead(s, i + 1) = {Head(s)} \cup Ahead(t, i)
    <3>1. ASSUME NEW x \in Ahead(s, i + 1) PROVE x \in {Head(s)} \cup Ahead(t, i)
      <4>1. PICK n \in 1..i : x = s[n]
        BY <2>1 DEF Ahead
      <4>2. CASE n # 1
        <5>1. n - 1 \in 1..(i - 1) /\ x = t[n - 1]
          BY <1>1, <1>2, <2>1, <4>1, <4>2
        <5> QED
          BY <5>1 DEF Ahead
      <4> QED
        BY <1>3, <4>1, <4>2
    <3>2. Head(s) \in Ahead(s, i + 1)
      <4>1. 1 \in 1..((i + 1) - 1)
        BY <1>2
      <4> QED
        BY <1>3, <4>1 DEF Ahead
    <3>3. ASSUME NEW x \in Ahead(t, i) PROVE x \in Ahead(s, i + 1)
      <4>1. PICK n \in 1..(i - 1) : x = t[n]
        BY DEF Ahead
      <4>2. n + 1 \in 1..((i + 1) - 1) /\ x = s[n + 1]
        BY <1>1, <1>2, <4>1
      <4> QED
        BY <4>2 DEF Ahead
    <3> QED
      BY <3>1, <3>2, <3>3
  <2>3. Safe(w, d, j, {} \cup Ahead(s, i + 1), s[i + 1])
    BY <2>1 DEF Works
  <2> QED
    BY <2>1, <2>2, <2>3
<1> QED
  BY <1>4, <1>5 DEF Works, t

\* A list that works goes on working, if safe calls stay safe.
LEMMA WorksOn ==
  ASSUME NEW w, NEW d, NEW j, NEW v, NEW f, NEW k, NEW X, NEW Y, NEW s \in Seq(Calls),
         Works(w, d, j, s, X),
         \A B, c : c \in Calls /\ Safe(w, d, j, X \cup B, c) => Safe(v, f, k, Y \cup B, c)
  PROVE  Works(v, f, k, s, Y)
<1>1. \A i \in DOMAIN s : s[i] \in Calls
  BY LenProperties
<1> QED
  BY <1>1 DEF Works

\* Calls that are safe in whatever order.
LEMMA WorksAnyhow ==
  ASSUME NEW w, NEW d, NEW j, NEW B, NEW S, NEW s \in Seq(S),
         \A c \in Range(s) : \A A \in SUBSET Range(s) : Safe(w, d, j, B \cup A, c)
  PROVE  Works(w, d, j, s, B)
<1>1. Len(s) \in Nat /\ DOMAIN s = 1..Len(s)
  BY LenProperties
<1>2. \A i \in DOMAIN s : Ahead(s, i) \in SUBSET Range(s) /\ s[i] \in Range(s)
  BY <1>1 DEF Ahead, Range
<1> QED
  BY <1>2 DEF Works

\* Only the list of calls of a job changes.
LEMMA SameJob ==
  ASSUME NEW w, NEW d, NEW j, NEW k, NEW B, NEW c, Safe(w, d, j, B, c),
         k.cmd = j.cmd, k.init = j.init, k.sibling = j.sibling, k.skip = j.skip,
         k.overlooked = j.overlooked
  PROVE  Safe(w, d, k, B, c)
<1>1. Placed(k, c) /\ Begins(k, B, c)
  BY DEF Safe, Placed, Begins
<1>2. \A name : Comes(j, B, name) => Comes(k, B, name)
  BY DEF Comes
<1>3. FilesFirst(w, k, B, c)
  BY <1>2 DEF Safe, FilesFirst
<1>4. Quiet(j, B) => Quiet(k, B)
  BY DEF Quiet
<1>5. SessionFirst(w, d, k, B, c)
  BY <1>2, <1>4 DEF Safe, SessionFirst
<1>6. DestroyedFirst(w, k, B, c)
  BY DEF Safe, DestroyedFirst, Allowed
<1> QED
  BY <1>1, <1>3, <1>5, <1>6 DEF Safe

-----------------------------------------------------------------------------
(* What a call does to the world *)

\* SealedIsComplete, of a world.
Whole(w) ==
  \A p \in Projects, l \in Lines :
    w.repo[p].guard[l] = "sealed" => w.repo[p].lines[l] >= (IF p = CoreRepo THEN 2 ELSE 1)
\* Nothing is taken away.
Keeps(w, v) ==
  /\ \A p \in Projects : w.repo[p].exists => v.repo[p].exists
  /\ \A p \in Projects, l \in Lines : /\ w.repo[p].lines[l] > 0 => v.repo[p].lines[l] > 0
                                      /\ w.repo[p].lines[l] = 2 => v.repo[p].lines[l] = 2
  /\ w.role \subseteq v.role
  /\ \A p \in Projects : w.bucket[p] # 0 => v.bucket[p] # 0
\* The state a call relies on.
Ready(w, d, j, c) ==
  /\ w \in Worlds /\ Whole(w) /\ d \in Disks /\ j \in Jobs
  /\ c \in Calls /\ Safe(w, d, j, {}, c) /\ Good(w, j.init)
  /\ j.cmd = "init" => d.init.steps \subseteq j.init.steps

LEMMA DevIsALine == "dev" \in Lines /\ Lines # {}
BY LineOrderAssumption DEF Lines

LEMMA CallIs ==
  ASSUME NEW c \in Calls
  PROVE  c[2] \in Projects /\ c = <<c[1], c[2], c[3]>>
<1> DEFINE arguments == Names \cup {"", Global} \cup Lines \cup Envs
<1>1. c \in Verbs \X Projects \X arguments
  BY DEF Calls
<1> HIDE DEF arguments
<1> QED
  BY <1>1

\* A repository is changed.
Put(w, p, r) == [w EXCEPT !.repo = [w.repo EXCEPT ![p] = r]]

LEMMA WorldIs ==
  ASSUME NEW w
  PROVE  w \in Worlds <=>
           /\ w = [repo |-> w.repo, role |-> w.role, bucket |-> w.bucket, infra |-> w.infra,
                   wired |-> w.wired, request |-> w.request]
           /\ w.repo \in [Projects -> Repos] /\ w.role \in SUBSET Projects
           /\ w.bucket \in [Projects -> 0..2] /\ w.infra \in [Projects -> SUBSET (Envs \cup {Global})]
           /\ w.wired \in SUBSET (Projects \X Envs) /\ w.request \in {"none", "open", "merged"}
           /\ \A p \in Projects : w.infra[p] \subseteq Targets(p)
BY DEF Worlds

LEMMA RepoPut ==
  ASSUME NEW w \in Worlds, NEW p \in Projects, NEW r \in Repos
  PROVE  /\ Put(w, p, r) \in Worlds /\ Put(w, p, r).repo[p] = r
         /\ \A q \in Projects \ {p} : Put(w, p, r).repo[q] = w.repo[q]
         /\ Put(w, p, r).role = w.role /\ Put(w, p, r).bucket = w.bucket /\ Put(w, p, r).infra = w.infra
<1> DEFINE repo == [w.repo EXCEPT ![p] = r]  v == Put(w, p, r)
<1>1. repo \in [Projects -> Repos] /\ repo[p] = r /\ \A q \in Projects \ {p} : repo[q] = w.repo[q]
  BY WorldIs
<1>2. v = [w EXCEPT !.repo = repo]
  BY DEF Put
<1> HIDE DEF repo, v
<1>3. v = [repo |-> repo, role |-> w.role, bucket |-> w.bucket, infra |-> w.infra,
           wired |-> w.wired, request |-> w.request]
  BY <1>2, WorldIs
<1>4. v \in Worlds
  BY <1>1, <1>3, WorldIs
<1> QED
  BY <1>1, <1>3, <1>4 DEF v

LEMMA NewRepos ==
  ASSUME NEW e \in BOOLEAN, NEW n \in 0..2, e \/ n = 0
  PROVE  /\ RepoWith(e, n) \in Repos /\ RepoWith(e, n).exists = e
         /\ \A l \in Lines : RepoWith(e, n).guard[l] = "off"
         /\ \A l \in Lines : RepoWith(e, n).lines[l] = IF l = "dev" THEN n ELSE 0
BY DevIsALine DEF RepoWith, Repos, Guards

LEMMA ReposAre ==
  ASSUME NEW w \in Worlds, NEW p \in Projects
  PROVE  /\ w.repo[p] \in Repos
         /\ w.repo[p] = [exists |-> w.repo[p].exists, lines |-> w.repo[p].lines, guard |-> w.repo[p].guard]
         /\ w.repo[p].exists \in BOOLEAN /\ w.repo[p].lines \in [Lines -> 0..2]
         /\ w.repo[p].guard \in [Lines -> Guards]
         /\ \A l \in Lines : /\ w.repo[p].lines[l] <= w.repo[p].lines["dev"]
                             /\ w.repo[p].exists \/ w.repo[p].lines[l] = 0
BY DEF Worlds, Repos

\* A repository whose content grows.
Grows(r, s) ==
  /\ s \in Repos
  /\ r.exists => s.exists
  /\ \A l \in Lines : (r.lines[l] > 0 => s.lines[l] > 0) /\ (r.lines[l] = 2 => s.lines[l] = 2)
Closed(p, r) == \A l \in Lines : r.guard[l] = "sealed" => r.lines[l] >= (IF p = CoreRepo THEN 2 ELSE 1)

LEMMA RepoGrows ==
  ASSUME NEW w \in Worlds, Whole(w), NEW p \in Projects, NEW r, Grows(w.repo[p], r), Closed(p, r)
  PROVE  /\ Put(w, p, r) \in Worlds /\ Keeps(w, Put(w, p, r)) /\ Whole(Put(w, p, r))
         /\ Put(w, p, r).repo[p] = r /\ \A q \in Projects \ {p} : Put(w, p, r).repo[q] = w.repo[q]
         /\ Put(w, p, r).role = w.role /\ Put(w, p, r).bucket = w.bucket /\ Put(w, p, r).infra = w.infra
<1>1. r \in Repos
  BY DEF Grows
<1> DEFINE v == Put(w, p, r)
<1>2. /\ v \in Worlds /\ v.repo[p] = r /\ \A q \in Projects \ {p} : v.repo[q] = w.repo[q]
      /\ v.role = w.role /\ v.bucket = w.bucket /\ v.infra = w.infra
  BY <1>1, RepoPut
<1> HIDE DEF v
<1>3. Keeps(w, v)
  BY <1>2 DEF Keeps, Grows
<1>4. Whole(v)
  BY <1>2 DEF Whole, Closed
<1> QED
  BY <1>2, <1>3, <1>4 DEF v

\* A branch moved, a protection changed.
WithLine(r, l, n) == [exists |-> r.exists, lines |-> [r.lines EXCEPT ![l] = n], guard |-> r.guard]
WithGuard(r, l, g) == [exists |-> r.exists, lines |-> r.lines, guard |-> [r.guard EXCEPT ![l] = g]]

RepoIs(w, p, x) == [w EXCEPT !.repo[p] = x]
LineIs(w, p, l, x) == [w EXCEPT !.repo[p].lines[l] = x]
GuardIs(w, p, l, x) == [w EXCEPT !.repo[p].guard[l] = x]

LEMMA Puts ==
  ASSUME NEW w \in Worlds, NEW p \in Projects, NEW l, NEW x
  PROVE  /\ RepoIs(w, p, x) = Put(w, p, x)
         /\ LineIs(w, p, l, x) = Put(w, p, WithLine(w.repo[p], l, x))
         /\ GuardIs(w, p, l, x) = Put(w, p, WithGuard(w.repo[p], l, x))
<1>1. w.repo[p] = [exists |-> w.repo[p].exists, lines |-> w.repo[p].lines, guard |-> w.repo[p].guard]
  BY ReposAre
<1>2. ASSUME NEW r, r = [exists |-> r.exists, lines |-> r.lines, guard |-> r.guard]
      PROVE  /\ [r EXCEPT !.lines[l] = x] = WithLine(r, l, x)
             /\ [r EXCEPT !.guard[l] = x] = WithGuard(r, l, x)
  BY <1>2 DEF WithLine, WithGuard
<1> QED
  BY <1>1, <1>2 DEF Put, RepoIs, LineIs, GuardIs

\* A line that moves forward, where that is allowed; a guard.
LEMMA LineGrows ==
  ASSUME NEW p \in Projects, NEW r \in Repos, r.exists, Closed(p, r), NEW l \in Lines, NEW n \in 0..2,
         n >= r.lines[l], l = "dev" \/ n <= r.lines["dev"]
  PROVE  Grows(r, WithLine(r, l, n)) /\ Closed(p, WithLine(r, l, n)) /\ WithLine(r, l, n).lines[l] = n
<1> DEFINE lines == [r.lines EXCEPT ![l] = n]  s == WithLine(r, l, n)
<1>1. /\ r.exists \in BOOLEAN /\ r.lines \in [Lines -> 0..2] /\ r.guard \in [Lines -> Guards]
      /\ \A k \in Lines : /\ r.lines[k] <= r.lines["dev"] /\ r.lines[k] \in 0..2
                          /\ r.exists \/ r.lines[k] = 0
  BY DEF Repos
<1>2. /\ lines \in [Lines -> 0..2] /\ lines[l] = n
      /\ \A k \in Lines : (k # l => lines[k] = r.lines[k]) /\ lines[k] >= r.lines[k] /\ lines[k] <= lines["dev"]
  BY <1>1, DevIsALine
<1>3. s = [exists |-> r.exists, lines |-> lines, guard |-> r.guard]
  BY DEF WithLine
<1> HIDE DEF lines, s
<1>4. s \in Repos /\ s.exists = r.exists /\ s.lines = lines /\ s.guard = r.guard
  BY <1>1, <1>2, <1>3 DEF Repos
<1>5. \A k \in Lines : lines[k] \in 0..2
  BY <1>2
<1>6. Grows(r, s)
  BY <1>1, <1>2, <1>4, <1>5 DEF Grows
<1>7. Closed(p, s)
  BY <1>1, <1>2, <1>4, <1>5 DEF Closed
<1> QED
  BY <1>2, <1>4, <1>6, <1>7 DEF s

LEMMA GuardGrows ==
  ASSUME NEW p \in Projects, NEW r \in Repos, Closed(p, r), NEW l \in Lines, NEW g \in Guards,
         g = "sealed" => r.lines[l] >= (IF p = CoreRepo THEN 2 ELSE 1)
  PROVE  Grows(r, WithGuard(r, l, g)) /\ Closed(p, WithGuard(r, l, g)) /\ WithGuard(r, l, g).lines = r.lines
<1> DEFINE guard == [r.guard EXCEPT ![l] = g]  s == WithGuard(r, l, g)
<1>1. /\ r.exists \in BOOLEAN /\ r.lines \in [Lines -> 0..2] /\ r.guard \in [Lines -> Guards]
      /\ \A k \in Lines : /\ r.lines[k] <= r.lines["dev"] /\ r.lines[k] \in 0..2
                          /\ r.exists \/ r.lines[k] = 0
  BY DEF Repos
<1>2. /\ guard \in [Lines -> Guards] /\ guard[l] = g
      /\ \A k \in Lines : k # l => guard[k] = r.guard[k]
  BY <1>1
<1>3. s = [exists |-> r.exists, lines |-> r.lines, guard |-> guard]
  BY DEF WithGuard
<1> HIDE DEF guard, s
<1>4. s \in Repos /\ s.exists = r.exists /\ s.lines = r.lines /\ s.guard = guard
  BY <1>1, <1>2, <1>3 DEF Repos
<1>6. Grows(r, s)
  BY <1>1, <1>4 DEF Grows
<1>7. Closed(p, s)
  BY <1>1, <1>2, <1>4 DEF Closed
<1> QED
  BY <1>4, <1>6, <1>7 DEF s

\* What else is there stays.
RestStays(w, v) ==
  /\ v.role = w.role /\ v.bucket = w.bucket /\ v.infra = w.infra
  /\ \A p \in Projects : v.repo[p].exists = w.repo[p].exists

LEMMA LineMoves ==
  ASSUME NEW w \in Worlds, Whole(w), NEW p \in Projects, w.repo[p].exists, NEW l \in Lines, NEW n \in 0..2,
         n >= w.repo[p].lines[l], l = "dev" \/ n <= w.repo[p].lines["dev"], NEW v,
         v = LineIs(w, p, l, n)
  PROVE  v \in Worlds /\ Keeps(w, v) /\ Whole(v) /\ RestStays(w, v) /\ v.repo[p].lines[l] = n
<1> DEFINE r == WithLine(w.repo[p], l, n)
<1>1. w.repo[p] \in Repos /\ Closed(p, w.repo[p])
  BY ReposAre DEF Whole, Closed
<1>2. Grows(w.repo[p], r) /\ Closed(p, r) /\ r.lines[l] = n
  BY <1>1, LineGrows
<1>3. r.exists = w.repo[p].exists /\ r \in Repos
  BY <1>2 DEF WithLine, Grows
<1> HIDE DEF r
<1>4. v = Put(w, p, r)
  BY Puts DEF r
<1>5. /\ Put(w, p, r) \in Worlds /\ Keeps(w, Put(w, p, r)) /\ Whole(Put(w, p, r))
      /\ Put(w, p, r).repo[p] = r /\ \A q \in Projects \ {p} : Put(w, p, r).repo[q] = w.repo[q]
      /\ Put(w, p, r).role = w.role /\ Put(w, p, r).bucket = w.bucket /\ Put(w, p, r).infra = w.infra
  BY <1>2, RepoGrows
<1> QED
  BY <1>2, <1>3, <1>4, <1>5 DEF RestStays

LEMMA GuardMoves ==
  ASSUME NEW w \in Worlds, Whole(w), NEW p \in Projects, NEW l \in Lines, NEW g \in Guards,
         g = "sealed" => w.repo[p].lines[l] >= (IF p = CoreRepo THEN 2 ELSE 1), NEW v,
         v = GuardIs(w, p, l, g)
  PROVE  v \in Worlds /\ Keeps(w, v) /\ Whole(v) /\ RestStays(w, v) /\ v.repo[p].lines = w.repo[p].lines
<1> DEFINE r == WithGuard(w.repo[p], l, g)
<1>1. w.repo[p] \in Repos /\ Closed(p, w.repo[p])
  BY ReposAre DEF Whole, Closed
<1>2. Grows(w.repo[p], r) /\ Closed(p, r) /\ r.lines = w.repo[p].lines
  BY <1>1, GuardGrows
<1>3. r.exists = w.repo[p].exists /\ r \in Repos
  BY <1>2 DEF WithGuard, Grows
<1> HIDE DEF r
<1>4. v = Put(w, p, r)
  BY Puts DEF r
<1>5. /\ Put(w, p, r) \in Worlds /\ Keeps(w, Put(w, p, r)) /\ Whole(Put(w, p, r))
      /\ Put(w, p, r).repo[p] = r /\ \A q \in Projects \ {p} : Put(w, p, r).repo[q] = w.repo[q]
      /\ Put(w, p, r).role = w.role /\ Put(w, p, r).bucket = w.bucket /\ Put(w, p, r).infra = w.infra
  BY <1>2, RepoGrows
<1> QED
  BY <1>2, <1>3, <1>4, <1>5 DEF RestStays

\* A repository that was not there.
NewRepo(n) == RepoWith(TRUE, n)

LEMMA RepoAppears ==
  ASSUME NEW w \in Worlds, Whole(w), NEW p \in Projects, ~w.repo[p].exists, NEW n \in 0..2, NEW v,
         v = RepoIs(w, p, NewRepo(n))
  PROVE  /\ v \in Worlds /\ Keeps(w, v) /\ Whole(v) /\ v.repo[p].exists
         /\ v.role = w.role /\ v.bucket = w.bucket /\ v.infra = w.infra
         /\ \A q \in Projects \ {p} : v.repo[q] = w.repo[q]
<1> DEFINE r == NewRepo(n)
<1>1. TRUE \in BOOLEAN
  OBVIOUS
<1>2. r \in Repos /\ r.exists /\ \A l \in Lines : r.guard[l] = "off"
  BY <1>1, NewRepos DEF NewRepo
<1> HIDE DEF r
<1>3. Grows(w.repo[p], r) /\ Closed(p, r)
  <2>1. \A l \in Lines : w.repo[p].lines[l] = 0
    BY ReposAre
  <2>2. Grows(w.repo[p], r)
    BY <1>2, <2>1 DEF Grows
  <2>3. Closed(p, r)
    BY <1>2 DEF Closed
  <2> QED
    BY <2>2, <2>3
<1>4. v = Put(w, p, r)
  BY Puts DEF r
<1>5. /\ Put(w, p, r) \in Worlds /\ Keeps(w, Put(w, p, r)) /\ Whole(Put(w, p, r))
      /\ Put(w, p, r).repo[p] = r /\ \A q \in Projects \ {p} : Put(w, p, r).repo[q] = w.repo[q]
      /\ Put(w, p, r).role = w.role /\ Put(w, p, r).bucket = w.bucket /\ Put(w, p, r).infra = w.infra
  BY <1>3, RepoGrows
<1> QED
  BY <1>2, <1>4, <1>5

\* What a call has brought about, and what it has left alone.
Achieved(v, c) ==
  /\ c[1] = "fastForward" => v.repo[CoreRepo].lines[c[3]] = 2
  /\ c[1] = "instanceFiles" => v.repo[CoreRepo].lines["dev"] = 2
  /\ c[1] = "createLine" => v.repo[c[2]].lines[c[3]] > 0
  /\ c[1] \in {"protect", "push_skeleton"} => v.repo[c[2]].lines["dev"] > 0
  /\ c[1] = "create_repo" => v.repo[c[2]].exists
  /\ c[1] = "oidc_trust" => c[2] \in v.role
  /\ c[1] = "terraform_backend" => v.bucket[c[2]] # 0
  /\ c[1] = "destroy" => c[3] \notin v.infra[c[2]]
Effective(w, v, c) ==
  /\ v \in Worlds /\ Whole(v) /\ Achieved(v, c)
  /\ c[1] \notin Removes => Keeps(w, v)
  /\ c[1] \notin {"apply", "applyGlobal"} => \A p \in Projects : v.infra[p] \subseteq w.infra[p]
  /\ v.repo[CoreRepo].exists => w.repo[CoreRepo].exists \/ (c[1] = "create_repo" /\ c[2] = CoreRepo)
  /\ c[1] \in Removes =>
       /\ ~v.repo[CoreRepo].exists \/ v.repo[CoreRepo] = w.repo[CoreRepo]
       /\ \A p \in Projects \ {c[2]} : /\ v.repo[p] = w.repo[p] /\ v.bucket[p] = w.bucket[p]
                                       /\ p \in w.role => p \in v.role

LEMMA KeepsItself == ASSUME NEW w PROVE Keeps(w, w)
BY DEF Keeps

LEMMA IdleCalls ==
  ASSUME NEW w \in Worlds, Whole(w), NEW c, Achieved(w, c)
  PROVE  Effective(w, w, c)
BY KeepsItself DEF Effective

\* The commit that makes the core's repository what it is to be, and the branches after it.
LEMMA LineCalls ==
  ASSUME Ready(world, disk, job, Call), Busy, Possible, NEW v \in Effects,
         Verb \in {"push_skeleton", "createLine", "instanceFiles", "fastForward"}
  PROVE  Effective(world, v, Call)
<1> DEFINE p == Call[2]  l == Call[3]
<1>1. /\ world \in Worlds /\ Whole(world) /\ p \in Projects /\ Placed(job, Call)
      /\ FilesFirst(world, job, {}, Call) /\ Repo(p) \in Repos /\ Repo(p).exists
      /\ CoreRepo \in Projects
  BY CallIs, ReposAre DEF Ready, Safe, Possible, Verb, Repo, Projects
<1>2. \A k \in Lines : /\ Repo(p).lines[k] \in 0..2 /\ Repo(p).lines[k] <= Repo(p).lines["dev"]
                       /\ Repo(p).lines["dev"] \in 0..2
  BY <1>1, DevIsALine DEF Repos
<1>3. ASSUME v = world, Achieved(world, Call) PROVE Effective(world, v, Call)
  BY <1>1, <1>3, IdleCalls
<1>4. ASSUME NEW k \in Lines, NEW n \in 0..2, n >= Repo(p).lines[k], k = "dev" \/ n <= Repo(p).lines["dev"],
             v = LineIs(world, p, k, n), v.repo[p].lines[k] = n => Achieved(v, Call)
      PROVE  Effective(world, v, Call)
  <2>1. /\ v \in Worlds /\ Keeps(world, v) /\ Whole(v) /\ RestStays(world, v) /\ v.repo[p].lines[k] = n
    BY <1>1, <1>4, LineMoves DEF Repo
  <2> QED
    BY <1>1, <1>4, <2>1 DEF Effective, RestStays, Verb, Removes
<1>5. CASE Verb = "push_skeleton"
  <2>1. v = PushSkeleton(p)
    BY <1>5 DEF Effects
  <2>2. CASE HasCommits(p)
    BY <1>2, <1>3, <1>5, <2>1, <2>2, DevIsALine DEF PushSkeleton, HasCommits, Repo, Achieved, Verb
  <2>3. CASE ~HasCommits(p)
    <3>1. v = LineIs(world, p, "dev", 1) /\ Repo(p).lines["dev"] = 0
      BY <1>2, <2>1, <2>3, DevIsALine DEF PushSkeleton, HasCommits, LineIs
    <3>2. v.repo[p].lines["dev"] = 1 => Achieved(v, Call)
      BY <1>5 DEF Achieved, Verb
    <3> QED
      BY <1>4, <3>1, <3>2, DevIsALine
  <2> QED
    BY <2>2, <2>3
<1>6. CASE Verb = "createLine"
  <2>1. v = CreateLine(p, l) /\ l \in Lines /\ HasCommits(p)
    BY <1>1, <1>6 DEF Effects, Placed, Verb, Possible
  <2>2. CASE Repo(p).lines[l] > 0
    BY <1>3, <1>6, <2>1, <2>2 DEF CreateLine, Repo, Achieved, Verb
  <2>3. CASE ~(Repo(p).lines[l] > 0)
    <3> DEFINE n == Repo(p).lines["dev"]
    <3>1. v = LineIs(world, p, l, n) /\ n \in 0..2 /\ n > 0 /\ n >= Repo(p).lines[l]
      BY <1>2, <2>1, <2>3, DevIsALine DEF CreateLine, HasCommits, LineIs
    <3>2. v.repo[p].lines[l] = n => Achieved(v, Call)
      BY <1>6, <3>1 DEF Achieved, Verb
    <3> QED
      BY <1>4, <2>1, <3>1, <3>2
  <2> QED
    BY <2>2, <2>3
<1>7. CASE Verb = "instanceFiles"
  <2>1. v = LineIs(world, p, "dev", 2) /\ p = CoreRepo
    BY <1>1, <1>7 DEF Effects, Placed, Verb, CommitInstanceFiles, LineIs
  <2>2. v.repo[p].lines["dev"] = 2 => Achieved(v, Call)
    BY <1>7, <2>1 DEF Achieved, Verb
  <2> QED
    BY <1>2, <1>4, <2>1, <2>2, DevIsALine
<1>8. CASE Verb = "fastForward"
  <2> DEFINE n == Repo(p).lines["dev"]
  <2>1. v = LineIs(world, p, l, n) /\ p = CoreRepo /\ l \in Lines /\ n = 2
    BY <1>1, <1>8 DEF Effects, Placed, Verb, FastForward, LineIs, FilesFirst, Repo
  <2>2. v.repo[p].lines[l] = n => Achieved(v, Call)
    BY <1>8, <2>1 DEF Achieved, Verb
  <2>3. n \in 0..2 /\ n >= Repo(p).lines[l]
    BY <1>2, <2>1, DevIsALine
  <2> QED
    BY <1>4, <2>1, <2>2, <2>3
<1> QED
  BY <1>5, <1>6, <1>7, <1>8

\* Protection of a branch.
LEMMA GuardCalls ==
  ASSUME Ready(world, disk, job, Call), Busy, Possible, NEW v \in Effects, Verb \in {"protect", "seal"}
  PROVE  Effective(world, v, Call)
<1> DEFINE p == Call[2]  l == Call[3]
<1>1. /\ world \in Worlds /\ Whole(world) /\ p \in Projects /\ Placed(job, Call) /\ l \in Lines
      /\ FilesFirst(world, job, {}, Call) /\ Repo(p) \in Repos /\ Repo(p).exists /\ HasCommits(p)
      /\ Good(world, job.init) /\ CoreRepo \in Projects
  BY CallIs, ReposAre DEF Ready, Safe, Possible, Verb, Repo, Projects, Placed
<1>2. \A k \in Lines : Repo(p).lines[k] \in 0..2 /\ Repo(p).guard[k] \in Guards
  BY <1>1 DEF Repos
<1>3. ASSUME NEW g \in Guards, g = "sealed" => Repo(p).lines[l] >= (IF p = CoreRepo THEN 2 ELSE 1),
             v = GuardIs(world, p, l, g)
      PROVE  Effective(world, v, Call)
  <2>1. /\ v \in Worlds /\ Keeps(world, v) /\ Whole(v) /\ RestStays(world, v) /\ v.repo[p].lines = Repo(p).lines
    BY <1>1, <1>3, GuardMoves DEF Repo
  <2>2. Achieved(v, Call)
    BY <1>1, <2>1 DEF Achieved, HasCommits, Verb
  <2> QED
    BY <1>1, <2>1, <2>2 DEF Effective, RestStays, Verb, Removes
<1>4. CASE Verb = "protect"
  <2>1. v = GuardIs(world, p, l, "open to admins") /\ "open to admins" \in Guards
    BY <1>4 DEF Effects, Protect, GuardIs, Guards
  <2> QED
    BY <1>3, <2>1
<1>5. CASE Verb = "seal"
  <2> DEFINE g == IF Repo(p).guard[l] = "off" THEN Repo(p).guard[l] ELSE "sealed"
  <2>1. v = GuardIs(world, p, l, g)
    BY <1>5 DEF Effects, Seal, GuardIs, Repo
  <2>2. g \in Guards
    BY <1>1, <1>2 DEF Guards
  <2>3. Repo(p).lines[l] >= (IF p = CoreRepo THEN 2 ELSE 1)
    <3>1. CASE p = CoreRepo
      <4>1. Gate \in job.init.steps
        BY <1>1, <1>5, <3>1 DEF FilesFirst, Comes, Verb
      <4> QED
        BY <1>1, <3>1, <4>1 DEF Good, Repo
    <3>2. CASE p # CoreRepo
      BY <1>1, <1>2, <1>5, <3>2, DevIsALine DEF FilesFirst, HasCommits, Repo, Verb
    <3> QED
      BY <3>1, <3>2
  <2> HIDE DEF g
  <2> QED
    BY <1>3, <2>1, <2>2, <2>3
<1> QED
  BY <1>4, <1>5

\* Repositories.
LEMMA RepoCalls ==
  ASSUME Ready(world, disk, job, Call), Busy, Possible, NEW v \in Effects, Verb = "create_repo"
  PROVE  Effective(world, v, Call)
<1> DEFINE p == Call[2]
<1>1. world \in Worlds /\ Whole(world) /\ p \in Projects /\ CoreRepo \in Projects
  BY CallIs DEF Ready, Projects
<1>2. \/ v = world /\ Repo(p).exists
      \/ ~Repo(p).exists /\ \E n \in 0..2 : v = RepoIs(world, p, NewRepo(n))
  <2>1. CASE p = CoreRepo
    <3>1. v = CreateRepoFromTemplate
      BY <2>1 DEF Effects
    <3>2. v = IF Repo(p).exists THEN world ELSE RepoIs(world, p, NewRepo(1))
      BY <2>1, <3>1 DEF CreateRepoFromTemplate, RepoIs, NewRepo
    <3>3. 1 \in 0..2
      OBVIOUS
    <3> QED
      BY <3>2, <3>3
  <2>2. CASE p # CoreRepo
    <3>1. v = CreateEmptyRepo(p)
      BY <2>2 DEF Effects
    <3>2. v = IF Repo(p).exists THEN world ELSE RepoIs(world, p, NewRepo(0))
      BY <3>1 DEF CreateEmptyRepo, RepoIs, NewRepo
    <3>3. 0 \in 0..2
      OBVIOUS
    <3> QED
      BY <3>2, <3>3
  <2> QED
    BY <2>1, <2>2
<1>3. CASE v = world /\ Repo(p).exists
  BY <1>1, <1>3, IdleCalls DEF Achieved, Repo, Verb
<1>4. CASE ~Repo(p).exists /\ \E n \in 0..2 : v = RepoIs(world, p, NewRepo(n))
  <2>1. PICK n \in 0..2 : v = RepoIs(world, p, NewRepo(n))
    BY <1>4
  <2>2. /\ v \in Worlds /\ Keeps(world, v) /\ Whole(v) /\ v.repo[p].exists
        /\ v.role = world.role /\ v.bucket = world.bucket /\ v.infra = world.infra
        /\ \A q \in Projects \ {p} : v.repo[q] = world.repo[q]
    <3>1. ~world.repo[p].exists
      BY <1>4 DEF Repo
    <3> QED
      BY <1>1, <3>1, <2>1, RepoAppears
  <2>3. Achieved(v, Call)
    BY <2>2 DEF Achieved, Verb
  <2> QED
    BY <1>1, <2>2, <2>3 DEF Effective, Verb, Removes
<1> QED
  BY <1>2, <1>3, <1>4

\* Everything but the repositories.
LEMMA CloudMoves ==
  ASSUME NEW w \in Worlds, Whole(w), NEW role \in SUBSET Projects, NEW bucket \in [Projects -> 0..2],
         NEW infra \in [Projects -> SUBSET (Envs \cup {Global})], \A p \in Projects : infra[p] \subseteq Targets(p),
         NEW wired \in SUBSET (Projects \X Envs), NEW request \in {"none", "open", "merged"}, NEW v,
         v = [repo |-> w.repo, role |-> role, bucket |-> bucket, infra |-> infra, wired |-> wired,
              request |-> request]
  PROVE  /\ v \in Worlds /\ Whole(v) /\ v.repo = w.repo
         /\ v.role = role /\ v.bucket = bucket /\ v.infra = infra
<1>1. v \in Worlds
  BY WorldIs
<1> QED
  BY <1>1 DEF Whole

\* AWS, and the registration.
LEMMA CloudCalls ==
  ASSUME Ready(world, disk, job, Call), Busy, Possible, NEW v \in Effects,
         Verb \in {"oidc_trust", "terraform_backend", "register_with_core", "apply", "applyGlobal",
                  "destroy", "destroyGlobal", "wireSibling"}
  PROVE  Effective(world, v, Call)
<1> DEFINE p == Call[2]  x == Call[3]
<1>1. /\ world \in Worlds /\ Whole(world) /\ p \in Projects /\ Placed(job, Call) /\ CoreRepo \in Projects
  BY CallIs DEF Ready, Safe, Projects
<1>2. /\ world = [repo |-> world.repo, role |-> world.role, bucket |-> world.bucket, infra |-> world.infra,
                  wired |-> world.wired, request |-> world.request]
      /\ world.repo \in [Projects -> Repos] /\ world.role \in SUBSET Projects
      /\ world.bucket \in [Projects -> 0..2] /\ world.infra \in [Projects -> SUBSET (Envs \cup {Global})]
      /\ world.wired \in SUBSET (Projects \X Envs) /\ world.request \in {"none", "open", "merged"}
      /\ \A q \in Projects : world.infra[q] \subseteq Targets(q)
  BY <1>1, WorldIs
<1>3. ASSUME NEW role \in SUBSET Projects, NEW bucket \in [Projects -> 0..2],
             NEW infra \in [Projects -> SUBSET (Envs \cup {Global})], \A q \in Projects : infra[q] \subseteq Targets(q),
             NEW wired \in SUBSET (Projects \X Envs), NEW request \in {"none", "open", "merged"},
             v = [repo |-> world.repo, role |-> role, bucket |-> bucket, infra |-> infra, wired |-> wired,
                  request |-> request],
             world.role \subseteq role, \A q \in Projects : world.bucket[q] # 0 => bucket[q] # 0,
             Verb \notin {"apply", "applyGlobal"} => \A q \in Projects : infra[q] \subseteq world.infra[q],
             Verb = "oidc_trust" => p \in role, Verb = "terraform_backend" => bucket[p] # 0,
             Verb = "destroy" => x \notin infra[p]
      PROVE  Effective(world, v, Call)
  <2>1. /\ v \in Worlds /\ Whole(v) /\ v.repo = world.repo
        /\ v.role = role /\ v.bucket = bucket /\ v.infra = infra
    BY <1>1, <1>3, CloudMoves
  <2>2. Keeps(world, v)
    BY <1>3, <2>1 DEF Keeps
  <2>3. Achieved(v, Call)
    BY <1>3, <2>1 DEF Achieved, Verb
  <2> QED
    BY <1>1, <1>3, <2>1, <2>2, <2>3 DEF Effective, Verb, Removes
<1>4. CASE Verb = "oidc_trust"
  <2> DEFINE role == world.role \cup {p}
  <2>1. v = [world EXCEPT !.role = role]
    BY <1>4 DEF Effects, SetupOidcTrust
  <2>2. role \in SUBSET Projects /\ p \in role /\ world.role \subseteq role
    BY <1>1, <1>2
  <2> HIDE DEF role
  <2>3. v = [repo |-> world.repo, role |-> role, bucket |-> world.bucket, infra |-> world.infra,
             wired |-> world.wired, request |-> world.request]
    BY <1>2, <2>1
  <2> QED
    BY <1>2, <1>3, <1>4, <2>2, <2>3
<1>5. CASE Verb = "terraform_backend"
  <2>1. PICK n \in 1..2 : v = BootstrapTerraformBackend(p, n)
    BY <1>5 DEF Effects
  <2> DEFINE bucket == [world.bucket EXCEPT ![p] = n]
  <2>2. CASE world.bucket[p] # 0
    BY <1>1, <1>5, <2>1, <2>2, IdleCalls DEF BootstrapTerraformBackend, Achieved, Verb
  <2>3. CASE world.bucket[p] = 0
    <3>1. v = [world EXCEPT !.bucket = bucket]
      BY <2>1, <2>3 DEF BootstrapTerraformBackend
    <3>2. bucket \in [Projects -> 0..2] /\ bucket[p] # 0 /\ \A q \in Projects : world.bucket[q] # 0 => bucket[q] # 0
      BY <1>1, <1>2, <2>3
    <3> HIDE DEF bucket
    <3>3. v = [repo |-> world.repo, role |-> world.role, bucket |-> bucket, infra |-> world.infra,
               wired |-> world.wired, request |-> world.request]
      BY <1>2, <3>1
    <3> QED
      BY <1>2, <1>3, <1>5, <3>2, <3>3
  <2> QED
    BY <2>2, <2>3
<1>6. CASE Verb = "register_with_core"
  <2> DEFINE request == IF world.request = "merged" THEN world.request ELSE "open"
  <2>1. v = [world EXCEPT !.request = request]
    BY <1>6 DEF Effects, Register
  <2>2. request \in {"none", "open", "merged"}
    BY <1>2
  <2> HIDE DEF request
  <2>3. v = [repo |-> world.repo, role |-> world.role, bucket |-> world.bucket, infra |-> world.infra,
             wired |-> world.wired, request |-> request]
    BY <1>2, <2>1
  <2> QED
    BY <1>2, <1>3, <1>6, <2>2, <2>3
<1>7. CASE Verb \in {"apply", "applyGlobal"}
  <2> DEFINE infra == [world.infra EXCEPT ![p] = world.infra[p] \cup {x}]
  <2>1. v = [world EXCEPT !.infra = infra]
    BY <1>7 DEF Effects, Apply
  <2>2. x \in Targets(p) /\ Targets(p) \subseteq Envs \cup {Global}
    BY <1>1, <1>7 DEF Placed, Verb, Targets
  <2>3. infra \in [Projects -> SUBSET (Envs \cup {Global})] /\ \A q \in Projects : infra[q] \subseteq Targets(q)
    BY <1>1, <1>2, <2>2
  <2> HIDE DEF infra
  <2>4. v = [repo |-> world.repo, role |-> world.role, bucket |-> world.bucket, infra |-> infra,
             wired |-> world.wired, request |-> world.request]
    BY <1>2, <2>1
  <2> QED
    BY <1>2, <1>3, <1>7, <2>3, <2>4
<1>8. CASE Verb \in {"destroy", "destroyGlobal"}
  <2> DEFINE infra == [world.infra EXCEPT ![p] = world.infra[p] \ {x}]
  <2>1. v = [world EXCEPT !.infra = infra]
    BY <1>8 DEF Effects, DestroyInfra
  <2>2. /\ infra \in [Projects -> SUBSET (Envs \cup {Global})] /\ x \notin infra[p]
        /\ \A q \in Projects : infra[q] \subseteq world.infra[q] /\ infra[q] \subseteq Targets(q)
    BY <1>1, <1>2
  <2> HIDE DEF infra
  <2>3. v = [repo |-> world.repo, role |-> world.role, bucket |-> world.bucket, infra |-> infra,
             wired |-> world.wired, request |-> world.request]
    BY <1>2, <2>1
  <2> QED
    BY <1>2, <1>3, <1>8, <2>2, <2>3
<1>9. CASE Verb = "wireSibling"
  <2> DEFINE wired == world.wired \cup {<<p, x>>}
  <2>1. v = [world EXCEPT !.wired = wired]
    BY <1>9 DEF Effects, WireSibling
  <2>2. wired \in SUBSET (Projects \X Envs)
    BY <1>1, <1>2, <1>9 DEF Placed, Verb
  <2> HIDE DEF wired
  <2>3. v = [repo |-> world.repo, role |-> world.role, bucket |-> world.bucket, infra |-> world.infra,
             wired |-> wired, request |-> world.request]
    BY <1>2, <2>1
  <2> QED
    BY <1>2, <1>3, <1>9, <2>2, <2>3
<1> QED
  BY <1>4, <1>5, <1>6, <1>7, <1>8, <1>9

\* What is deleted.
LEMMA NoRepoIs ==
  NoRepo \in Repos /\ ~NoRepo.exists /\ \A l \in Lines : NoRepo.guard[l] = "off"
<1>1. FALSE \in BOOLEAN /\ 0 \in 0..2
  OBVIOUS
<1> QED
  BY <1>1, NewRepos DEF NoRepo

LEMMA RepoIsDeleted ==
  ASSUME world \in Worlds, Whole(world), NEW p \in Projects, NEW v, v = DeleteRepo(p)
  PROVE  /\ v \in Worlds /\ Whole(v) /\ v.repo[p] = NoRepo
         /\ \A q \in Projects \ {p} : v.repo[q] = world.repo[q]
         /\ v.role = world.role /\ v.bucket = world.bucket /\ v.infra = world.infra
<1> DEFINE repo == [world.repo EXCEPT ![p] = NoRepo]  wired == {w \in world.wired : w[1] # p}
           request == IF p = CoreRepo THEN "none" ELSE world.request
<1>1. /\ world = [repo |-> world.repo, role |-> world.role, bucket |-> world.bucket, infra |-> world.infra,
                  wired |-> world.wired, request |-> world.request]
      /\ world.repo \in [Projects -> Repos] /\ world.role \in SUBSET Projects
      /\ world.bucket \in [Projects -> 0..2] /\ world.infra \in [Projects -> SUBSET (Envs \cup {Global})]
      /\ world.wired \in SUBSET (Projects \X Envs) /\ world.request \in {"none", "open", "merged"}
      /\ \A q \in Projects : world.infra[q] \subseteq Targets(q)
  BY WorldIs
<1>2. v = [world EXCEPT !.repo = repo, !.wired = wired, !.request = request]
  BY DEF DeleteRepo
<1>3. /\ repo \in [Projects -> Repos] /\ repo[p] = NoRepo
      /\ \A q \in Projects \ {p} : repo[q] = world.repo[q]
  BY <1>1, NoRepoIs
<1>4. wired \in SUBSET (Projects \X Envs) /\ request \in {"none", "open", "merged"}
  BY <1>1
<1> HIDE DEF repo, wired, request
<1>5. v = [repo |-> repo, role |-> world.role, bucket |-> world.bucket, infra |-> world.infra,
           wired |-> wired, request |-> request]
  BY <1>1, <1>2
<1>6. v \in Worlds
  BY <1>1, <1>3, <1>4, <1>5, WorldIs
<1>7. Whole(v)
  BY <1>3, <1>5, NoRepoIs DEF Whole
<1> QED
  BY <1>3, <1>5, <1>6, <1>7

LEMMA RemovalCalls ==
  ASSUME Ready(world, disk, job, Call), Busy, Possible, NEW v \in Effects, Verb \in Removes
  PROVE  Effective(world, v, Call)
<1> DEFINE p == Call[2]
<1>1. world \in Worlds /\ Whole(world) /\ p \in Projects /\ CoreRepo \in Projects
  BY CallIs DEF Ready, Projects
<1>2. /\ world = [repo |-> world.repo, role |-> world.role, bucket |-> world.bucket, infra |-> world.infra,
                  wired |-> world.wired, request |-> world.request]
      /\ world.repo \in [Projects -> Repos] /\ world.role \in SUBSET Projects
      /\ world.bucket \in [Projects -> 0..2] /\ world.infra \in [Projects -> SUBSET (Envs \cup {Global})]
      /\ world.wired \in SUBSET (Projects \X Envs) /\ world.request \in {"none", "open", "merged"}
      /\ \A q \in Projects : world.infra[q] \subseteq Targets(q)
  BY <1>1, WorldIs
<1>3. ASSUME v \in Worlds, Whole(v), v.infra = world.infra,
             v.repo[p] = world.repo[p] \/ v.repo[p] = NoRepo,
             \A q \in Projects \ {p} : v.repo[q] = world.repo[q],
             \A q \in Projects \ {p} : v.bucket[q] = world.bucket[q],
             \A q \in Projects \ {p} : q \in world.role => q \in v.role
      PROVE  Effective(world, v, Call)
  <2>1. Achieved(v, Call)
    BY DEF Achieved, Verb, Removes
  <2>2. ~v.repo[CoreRepo].exists \/ v.repo[CoreRepo] = world.repo[CoreRepo]
    BY <1>1, <1>3, NoRepoIs
  <2> QED
    BY <1>1, <1>3, <2>1, <2>2 DEF Effective, Verb, Removes
<1>4. CASE Verb = "deleteRepo"
  <2>1. v = DeleteRepo(p)
    BY <1>4 DEF Effects
  <2> QED
    BY <1>1, <1>3, <2>1, RepoIsDeleted
<1>5. CASE Verb = "deleteRole"
  <2> DEFINE role == world.role \ {p}
  <2>1. v = [world EXCEPT !.role = role]
    BY <1>5 DEF Effects, TeardownOidcRole
  <2>2. role \in SUBSET Projects
    BY <1>2
  <2>3. \A q \in Projects \ {p} : q \in world.role => q \in role
    OBVIOUS
  <2> HIDE DEF role
  <2>4. v = [repo |-> world.repo, role |-> role, bucket |-> world.bucket, infra |-> world.infra,
             wired |-> world.wired, request |-> world.request]
    BY <1>2, <2>1
  <2>5. /\ v \in Worlds /\ Whole(v) /\ v.repo = world.repo
        /\ v.role = role /\ v.bucket = world.bucket /\ v.infra = world.infra
    BY <1>1, <1>2, <2>2, <2>4, CloudMoves
  <2> QED
    BY <1>3, <2>3, <2>5
<1>6. CASE Verb = "deleteBucket"
  <2> DEFINE bucket == [world.bucket EXCEPT ![p] = 0]
  <2>1. v = [world EXCEPT !.bucket = bucket]
    BY <1>6 DEF Effects, TeardownTerraformBackend
  <2>2. bucket \in [Projects -> 0..2] /\ \A q \in Projects \ {p} : bucket[q] = world.bucket[q]
    BY <1>1, <1>2
  <2> HIDE DEF bucket
  <2>3. v = [repo |-> world.repo, role |-> world.role, bucket |-> bucket, infra |-> world.infra,
             wired |-> world.wired, request |-> world.request]
    BY <1>2, <2>1
  <2>4. /\ v.repo = world.repo /\ v.role = world.role /\ v.bucket = bucket /\ v.infra = world.infra
        /\ v \in Worlds
    BY <1>2, <2>2, <2>3, WorldIs
  <2>5. Whole(v)
    BY <1>1, <2>4 DEF Whole
  <2> QED
    BY <1>3, <2>2, <2>4, <2>5
<1> QED
  BY <1>4, <1>5, <1>6 DEF Removes

\* Every call.
LEMMA CallsAreEffective ==
  ASSUME Ready(world, disk, job, Call), Busy, Possible, NEW v \in Effects
  PROVE  Effective(world, v, Call)
<1>1. CASE Verb \in {"push_skeleton", "createLine", "instanceFiles", "fastForward"}
  BY <1>1, LineCalls
<1>2. CASE Verb \in {"protect", "seal"}
  BY <1>2, GuardCalls
<1>3. CASE Verb = "create_repo"
  BY <1>3, RepoCalls
<1>4. CASE Verb \in {"oidc_trust", "terraform_backend", "register_with_core", "apply", "applyGlobal",
                    "destroy", "destroyGlobal", "wireSibling"}
  BY <1>4, CloudCalls
<1>5. CASE Verb \in Removes
  BY <1>5, RemovalCalls
<1>6. CASE Verb \notin {"push_skeleton", "createLine", "instanceFiles", "fastForward", "protect", "seal",
                      "create_repo", "oidc_trust", "terraform_backend", "register_with_core", "apply",
                      "applyGlobal", "destroy", "destroyGlobal", "wireSibling"} \cup Removes
  <2>1. v = world
    BY <1>6 DEF Effects, Removes
  <2>2. Achieved(world, Call)
    BY <1>6 DEF Achieved, Verb
  <2> QED
    BY <2>1, <2>2, IdleCalls DEF Ready
<1> QED
  BY <1>1, <1>2, <1>3, <1>4, <1>5, <1>6

-----------------------------------------------------------------------------
(* What is still to be called, once a call has been made *)

Teardown == Removes \cup {"destroy", "destroyGlobal", "forget"}

\* In a teardown nothing is asked of a call but what is destroyed before.
LEMMA SafeInTeardown ==
  ASSUME NEW w, NEW d, NEW j, NEW B, NEW c, Placed(j, c), c[1] \in Teardown, DestroyedFirst(w, j, B, c)
  PROVE  Safe(w, d, j, B, c)
<1>1. Begins(j, B, c)
  BY DEF Begins, Teardown, Removes
<1>2. FilesFirst(w, j, B, c)
  BY DEF FilesFirst, Teardown, Removes
<1>3. SessionFirst(w, d, j, B, c)
  BY DEF SessionFirst, Teardown, Removes
<1> QED
  BY <1>1, <1>2, <1>3 DEF Safe

\* A call that records nothing is not what records a step.
LEMMA ComesLater ==
  ASSUME NEW j, NEW h, NEW B, NEW name, Comes(j, {h} \cup B, name), h[1] \notin {"step", "mark"}
  PROVE  Comes(j, B, name)
BY DEF Comes

\* What was to come before a call has been done, or still comes before it.
LEMMA FilesStillFirst ==
  ASSUME NEW w, NEW v, NEW j, NEW h, NEW B, NEW c \in Calls, FilesFirst(w, j, {h} \cup B, c),
         Keeps(w, v), Achieved(v, h), h[1] \notin {"step", "mark"}, Placed(j, c)
  PROVE  FilesFirst(v, j, B, c)
<1>1. /\ CoreRepo \in Projects /\ c[2] \in Projects /\ "dev" \in Lines
      /\ c[1] \in {"createLine", "protect", "seal", "fastForward"} => c[3] \in Lines
  BY CallIs, DevIsALine DEF Projects, Placed
<1>2. \A name : Comes(j, {h} \cup B, name) => Comes(j, B, name)
  BY ComesLater
<1>3. \A p \in Projects, l \in Lines : /\ w.repo[p].lines[l] > 0 => v.repo[p].lines[l] > 0
                                       /\ w.repo[p].lines[l] = 2 => v.repo[p].lines[l] = 2
  BY DEF Keeps
<1>4. ASSUME c[1] = "fastForward"
      PROVE  v.repo[CoreRepo].lines["dev"] = 2 \/ <<"instanceFiles", CoreRepo, "dev">> \in B
  <2>1. w.repo[CoreRepo].lines["dev"] = 2 \/ <<"instanceFiles", CoreRepo, "dev">> \in {h} \cup B
    BY <1>4 DEF FilesFirst
  <2>2. <<"instanceFiles", CoreRepo, "dev">> \in {h} \cup B =>
          <<"instanceFiles", CoreRepo, "dev">> \in B \/ h[1] = "instanceFiles"
    OBVIOUS
  <2>3. h[1] = "instanceFiles" => v.repo[CoreRepo].lines["dev"] = 2
    BY DEF Achieved
  <2>4. w.repo[CoreRepo].lines["dev"] = 2 => v.repo[CoreRepo].lines["dev"] = 2
    BY <1>1, <1>3
  <2> QED
    BY <2>1, <2>2, <2>3, <2>4
<1>5. ASSUME c = <<"mark", CoreRepo, Gate>>, NEW l \in Lines
      PROVE  \/ v.repo[CoreRepo].lines[l] = 2
             \/ <<"fastForward", CoreRepo, l>> \in B
             \/ l = "dev" /\ <<"instanceFiles", CoreRepo, "dev">> \in B
  <2>1. \/ w.repo[CoreRepo].lines[l] = 2
        \/ <<"fastForward", CoreRepo, l>> \in {h} \cup B
        \/ l = "dev" /\ <<"instanceFiles", CoreRepo, "dev">> \in {h} \cup B
    BY <1>5 DEF FilesFirst
  <2>2. <<"instanceFiles", CoreRepo, "dev">> \in {h} \cup B =>
          <<"instanceFiles", CoreRepo, "dev">> \in B \/ h[1] = "instanceFiles"
    OBVIOUS
  <2>3. <<"fastForward", CoreRepo, l>> \in {h} \cup B =>
          <<"fastForward", CoreRepo, l>> \in B \/ (h[1] = "fastForward" /\ h[3] = l)
    OBVIOUS
  <2>4. /\ h[1] = "instanceFiles" => v.repo[CoreRepo].lines["dev"] = 2
        /\ h[1] = "fastForward" => v.repo[CoreRepo].lines[h[3]] = 2
    BY DEF Achieved
  <2>5. w.repo[CoreRepo].lines[l] = 2 => v.repo[CoreRepo].lines[l] = 2
    BY <1>1, <1>3
  <2> QED
    BY <2>1, <2>2, <2>3, <2>4, <2>5
<1>6. ASSUME c[1] = "seal", c[2] # CoreRepo
      PROVE  v.repo[c[2]].lines[c[3]] > 0 \/ <<"createLine", c[2], c[3]>> \in B \/ c[3] = "dev"
  <2>1. w.repo[c[2]].lines[c[3]] > 0 \/ <<"createLine", c[2], c[3]>> \in {h} \cup B \/ c[3] = "dev"
    BY <1>6 DEF FilesFirst
  <2>2. <<"createLine", c[2], c[3]>> \in {h} \cup B =>
          \/ <<"createLine", c[2], c[3]>> \in B
          \/ h[1] = "createLine" /\ h[2] = c[2] /\ h[3] = c[3]
    OBVIOUS
  <2>3. h[1] = "createLine" => v.repo[h[2]].lines[h[3]] > 0
    BY DEF Achieved
  <2>4. w.repo[c[2]].lines[c[3]] > 0 => v.repo[c[2]].lines[c[3]] > 0
    BY <1>1, <1>3, <1>6
  <2> QED
    BY <2>1, <2>2, <2>3, <2>4
<1> QED
  BY <1>2, <1>4, <1>5, <1>6 DEF FilesFirst

LEMMA SessionStillFirst ==
  ASSUME NEW w, NEW v, NEW d, NEW j, NEW h, NEW B, NEW c, SessionFirst(w, d, j, {h} \cup B, c),
         Keeps(w, v), Achieved(v, h), h[1] \notin {"step", "mark", "nested"}
  PROVE  SessionFirst(v, d, j, B, c)
<1>1. "app" \in Projects /\ "dev" \in Lines
  BY DevIsALine DEF Projects, Siblings
<1>2. ASSUME c[1] = "mark", c[2] = "app" PROVE Reaches(v, B, c[3])
  <2>1. Reaches(w, {h} \cup B, c[3])
    BY <1>2 DEF SessionFirst
  <2>2. /\ w.repo["app"].exists => v.repo["app"].exists
        /\ \A l \in Lines : w.repo["app"].lines[l] > 0 => v.repo["app"].lines[l] > 0
        /\ "app" \in w.role => "app" \in v.role
        /\ w.bucket["app"] # 0 => v.bucket["app"] # 0
    BY <1>1 DEF Keeps
  <2>3. ASSUME NEW name, <<name, "app", "">> \in {h} \cup B,
               name \in {"create_repo", "push_skeleton", "oidc_trust", "terraform_backend"}
        PROVE  \/ <<name, "app", "">> \in B
               \/ /\ name = "create_repo" => v.repo["app"].exists
                  /\ name = "push_skeleton" => v.repo["app"].lines["dev"] > 0
                  /\ name = "oidc_trust" => "app" \in v.role
                  /\ name = "terraform_backend" => v.bucket["app"] # 0
    <3>1. <<name, "app", "">> \in B \/ (h[1] = name /\ h[2] = "app")
      <4>1. CASE <<name, "app", "">> = h
        BY <4>1
      <4> QED
        BY <2>3, <4>1
    <3> QED
      BY <3>1 DEF Achieved
  <2>4. CASE c[3] = "github_config"
    <3> SUFFICES ASSUME NEW l \in Lines
                 PROVE  \/ v.repo["app"].lines[l] > 0
                        \/ <<"createLine", "app", l>> \in B
                        \/ l = "dev" /\ <<"protect", "app", "dev">> \in B
      BY <2>4 DEF Reaches
    <3>1. \/ w.repo["app"].lines[l] > 0
          \/ <<"createLine", "app", l>> \in {h} \cup B
          \/ l = "dev" /\ <<"protect", "app", "dev">> \in {h} \cup B
      BY <2>1, <2>4 DEF Reaches
    <3> QED
      BY <2>2, <3>1 DEF Achieved
  <2>5. CASE c[3] = "create_repo"
    BY <2>1, <2>2, <2>3, <2>5 DEF Reaches
  <2>6. CASE c[3] = "push_skeleton"
    BY <1>1, <2>1, <2>2, <2>3, <2>6 DEF Reaches
  <2>7. CASE c[3] = "oidc_trust"
    BY <2>1, <2>2, <2>3, <2>7 DEF Reaches
  <2>8. CASE c[3] = "terraform_backend"
    BY <2>1, <2>2, <2>3, <2>8 DEF Reaches
  <2>9. CASE c[3] \notin {"create_repo", "push_skeleton", "oidc_trust", "terraform_backend", "github_config"}
    BY <2>9 DEF Reaches
  <2> QED
    BY <2>4, <2>5, <2>6, <2>7, <2>8, <2>9
<1>3. ASSUME c[1] \in {"step", "mark"}, c[2] = "app"
      PROVE  d.sibling["app"].steps \subseteq j.sibling.steps \/ <<"nested", "app", "">> \in B
  <2>1. d.sibling["app"].steps \subseteq j.sibling.steps \/ <<"nested", "app", "">> \in {h} \cup B
    BY <1>3 DEF SessionFirst
  <2>2. <<"nested", "app", "">> \in {h} \cup B => <<"nested", "app", "">> \in B \/ h[1] = "nested"
    <3>1. CASE <<"nested", "app", "">> = h
      BY <3>1
    <3> QED
      BY <3>1
  <2> QED
    BY <2>1, <2>2
<1>4. ASSUME c[1] \in {"step", "mark"}, c[2] = CoreRepo, c[3] # "app_sibling"
      PROVE  Comes(j, B, "app_sibling") \/ Quiet(j, B)
  <2>1. CASE Comes(j, {h} \cup B, "app_sibling")
    BY <2>1, ComesLater
  <2>2. CASE Quiet(j, {h} \cup B)
    BY <2>2 DEF Quiet
  <2> QED
    BY <1>4, <2>1, <2>2 DEF SessionFirst
<1> QED
  BY <1>2, <1>3, <1>4 DEF SessionFirst

\* What begins something has nothing before it.
LEMMA BeginsAtOnce ==
  ASSUME NEW j, NEW h, NEW A, NEW B, NEW c, Begins(j, {h} \cup A, c)
  PROVE  /\ Begins(j, B, c)
         /\ ~(c[1] = "create_repo" /\ c[2] = CoreRepo) /\ c[1] # "nested"
BY DEF Begins

\* A call that has been made.
LEMMA PassOn ==
  ASSUME NEW w, NEW v, NEW d, NEW j, NEW h, NEW B, NEW c \in Calls, Ready(w, d, j, h), Effective(w, v, h),
         Safe(w, d, j, {h} \cup B, c), h[1] \notin Bookkeeping
  PROVE  Safe(v, d, j, B, c)
<1>1. /\ Placed(j, c) /\ Begins(j, {h} \cup B, c) /\ FilesFirst(w, j, {h} \cup B, c)
      /\ SessionFirst(w, d, j, {h} \cup B, c) /\ DestroyedFirst(w, j, {h} \cup B, c) /\ Placed(j, h)
      /\ c[2] \in Projects /\ c = <<c[1], c[2], c[3]>>
  BY CallIs DEF Safe, Ready
<1>2. DestroyedFirst(v, j, B, c)
  <2> SUFFICES ASSUME c[1] \in Removes, ~j.skip, NEW e \in v.infra[c[2]] \ Allowed(j, c[2])
               PROVE  <<"destroy", c[2], e>> \in B
    BY DEF DestroyedFirst
  <2>1. j.cmd = "teardown" /\ h[1] \notin {"apply", "applyGlobal"}
    BY <1>1 DEF Placed, Removes
  <2>2. e \in w.infra[c[2]]
    BY <1>1, <2>1 DEF Effective
  <2>3. <<"destroy", c[2], e>> \in {h} \cup B
    BY <1>1, <2>2 DEF DestroyedFirst
  <2> QED
    BY <2>3 DEF Effective, Achieved
<1>3. CASE h[1] \in Removes
  <2>1. c[1] \in Teardown
    BY <1>1, <1>3 DEF Placed, Teardown
  <2> QED
    BY <1>1, <1>2, <2>1, SafeInTeardown
<1>4. CASE h[1] \notin Removes
  <2>1. Keeps(w, v) /\ Achieved(v, h)
    BY <1>4 DEF Effective
  <2>2. FilesFirst(v, j, B, c)
    BY <1>1, <2>1, FilesStillFirst DEF Bookkeeping
  <2>3. SessionFirst(v, d, j, B, c)
    BY <1>1, <2>1, SessionStillFirst DEF Bookkeeping
  <2>4. Begins(j, B, c)
    BY <1>1, BeginsAtOnce
  <2> QED
    BY <1>1, <1>2, <2>2, <2>3, <2>4 DEF Safe
<1> QED
  BY <1>3, <1>4

\* With more calls ahead, a step's calls in the place of the step, or a checkpoint less.
LEMMA SafeOn ==
  ASSUME NEW w, NEW d, NEW j, NEW A, NEW f, NEW k, NEW B, NEW c, Safe(w, d, j, A, c), Begins(k, B, c),
         k.cmd = j.cmd, k.skip = j.skip, k.overlooked = j.overlooked,
         \A x \in A : x[1] \notin Bookkeeping => x \in B,
         \A name : Comes(j, A, name) => Comes(k, B, name),
         j.cmd = "init" /\ Quiet(j, A) => Quiet(k, B) \/ Comes(k, B, "app_sibling"),
         j.cmd = "init" /\ (d.sibling["app"].steps \subseteq j.sibling.steps \/ <<"nested", "app", "">> \in A) =>
           f.sibling["app"].steps \subseteq k.sibling.steps \/ <<"nested", "app", "">> \in B
  PROVE  Safe(w, f, k, B, c)
<1>0. \A x, y, z : <<x, y, z>> \in A /\ x \notin Bookkeeping => <<x, y, z>> \in B
  OBVIOUS
<1>1. FilesFirst(w, k, B, c)
  BY <1>0 DEF Safe, FilesFirst, Bookkeeping
<1>2. SessionFirst(w, f, k, B, c)
  <2>1. ASSUME c[1] = "mark", c[2] = "app" PROVE Reaches(w, B, c[3])
    <3>1. Reaches(w, A, c[3])
      BY <2>1 DEF Safe, SessionFirst
    <3> QED
      BY <1>0, <3>1 DEF Reaches, Bookkeeping
  <2>2. c[1] \in {"step", "mark"} /\ c[2] \in {CoreRepo, "app"} => j.cmd = "init"
    BY DEF Safe, Placed, CoreRepo
  <2> QED
    BY <2>1, <2>2 DEF Safe, SessionFirst
<1>3. DestroyedFirst(w, k, B, c)
  <2>1. \A p : Allowed(k, p) = Allowed(j, p)
    BY DEF Allowed
  <2> QED
    BY <1>0, <2>1 DEF Safe, DestroyedFirst, Bookkeeping
<1>4. Placed(k, c)
  BY DEF Safe, Placed
<1> QED
  BY <1>1, <1>2, <1>3, <1>4 DEF Safe

\* The calls of a job may be exchanged, its other parts staying what they are.
LEMMA TodoIs ==
  ASSUME NEW j \in Jobs, NEW s \in Seq(Calls), NEW k, k = [j EXCEPT !.todo = s]
  PROVE  /\ k \in Jobs /\ k.todo = s /\ k.cmd = j.cmd /\ k.init = j.init /\ k.sibling = j.sibling
         /\ k.skip = j.skip /\ k.overlooked = j.overlooked
BY DEF Jobs

\* A job with fewer calls.
LEMMA JobGoesOn ==
  ASSUME NEW w, NEW d, NEW j \in Jobs, Good(w, j.init),
         j.cmd = "init" => d.init.steps \subseteq j.init.steps /\ Truth(w, j),
         NEW s \in Seq(Calls), Works(w, d, j, s, {}), NEW k, k = [j EXCEPT !.todo = s]
  PROVE  JobInv(w, d, k)
<1>1. /\ k \in Jobs /\ k.todo = s /\ k.cmd = j.cmd /\ k.init = j.init /\ k.sibling = j.sibling
      /\ k.skip = j.skip /\ k.overlooked = j.overlooked
  BY TodoIs
<1>2. Truth(w, j) => Truth(w, k)
  BY <1>1 DEF Truth
<1>3. Works(w, d, k, s, {})
  <2>1. \A B, c : c \in Calls /\ Safe(w, d, j, {} \cup B, c) => Safe(w, d, k, {} \cup B, c)
    BY <1>1, SameJob
  <2> QED
    BY <2>1, WorksOn
<1> QED
  BY <1>1, <1>2, <1>3 DEF JobInv

\* What is known when a call is made.
LEMMA Working ==
  ASSUME LifeInv, Busy
  PROVE  /\ Ready(world, disk, job, Call)
         /\ Tail(job.todo) \in Seq(Calls) /\ Works(world, disk, job, Tail(job.todo), {Call})
         /\ job.cmd = "init" => Truth(world, job)
         /\ Good(world, disk.init)
<1>1. /\ job \in Jobs /\ job.todo \in Seq(Calls) /\ job.todo # <<>> /\ Good(world, job.init)
      /\ job.cmd = "init" => disk.init.steps \subseteq job.init.steps /\ Truth(world, job)
      /\ Works(world, disk, job, job.todo, {})
  BY DEF LifeInv, JobInv, Busy, Jobs
<1>2. Safe(world, disk, job, {}, Call) /\ Works(world, disk, job, Tail(job.todo), {Call})
  BY <1>1, WorksNext DEF Call
<1>3. Call \in Calls /\ Tail(job.todo) \in Seq(Calls)
  BY <1>1, HeadTailProperties DEF Call
<1>4. world \in Worlds /\ Whole(world) /\ disk \in Disks /\ Good(world, disk.init)
  BY DEF LifeInv, SealedIsComplete, Whole, Repo
<1>5. Ready(world, disk, job, Call)
  BY <1>1, <1>2, <1>3, <1>4 DEF Ready
<1> QED
  BY <1>1, <1>2, <1>3, <1>4, <1>5

-----------------------------------------------------------------------------
(* Checkpoints, and what ends a command *)

\* The calls after a checkpoint, or after the end of a session.
LEMMA MovesOn ==
  ASSUME LifeInv, Busy, Verb \in Bookkeeping, NEW f, NEW k \in Jobs, k.todo = Tail(job.todo),
         k.cmd = job.cmd, k.skip = job.skip, k.overlooked = job.overlooked,
         job.init.steps \subseteq k.init.steps,
         Verb \in {"step", "mark"} /\ Call[2] = CoreRepo => Call[3] \in k.init.steps,
         job.cmd = "init" /\ job.sibling.steps = {} /\ Call[2] = CoreRepo => k.sibling.steps = {},
         job.cmd = "init" =>
           \/ Verb # "nested" /\ f.sibling["app"].steps \subseteq disk.sibling["app"].steps
                /\ job.sibling.steps \subseteq k.sibling.steps
           \/ f.sibling["app"].steps \subseteq k.sibling.steps
  PROVE  Works(world, f, k, k.todo, {})
<1> DEFINE h == Call
<1>1. h \in Calls /\ Tail(job.todo) \in Seq(Calls) /\ Works(world, disk, job, Tail(job.todo), {h})
  BY Working DEF Ready
<1>2. h = <<h[1], h[2], h[3]>> /\ h[1] = Verb
  BY <1>1, CallIs DEF Verb
<1> HIDE DEF h
<1>3. ASSUME NEW B, NEW c, Safe(world, disk, job, {h} \cup B, c) PROVE Safe(world, f, k, B, c)
  <2>1. Begins(k, B, c)
    BY <1>3, BeginsAtOnce DEF Safe, Begins
  <2>2. \A x \in {h} \cup B : x[1] \notin Bookkeeping => x \in B
    BY <1>2
  <2>3. ASSUME NEW name, Comes(job, {h} \cup B, name) PROVE Comes(k, B, name)
    <3>1. CASE <<"step", CoreRepo, name>> = h \/ <<"mark", CoreRepo, name>> = h
      <4>1. name \in k.init.steps
        BY <1>2, <3>1 DEF h
      <4> QED
        BY <4>1 DEF Comes
    <3> QED
      BY <2>3, <3>1 DEF Comes
  <2>4. job.cmd = "init" /\ Quiet(job, {h} \cup B) => Quiet(k, B)
    BY DEF Quiet, h
  <2>5. ASSUME job.cmd = "init",
               disk.sibling["app"].steps \subseteq job.sibling.steps \/ <<"nested", "app", "">> \in {h} \cup B
        PROVE  f.sibling["app"].steps \subseteq k.sibling.steps \/ <<"nested", "app", "">> \in B
    <3>1. CASE <<"nested", "app", "">> = h
      BY <1>2, <2>5, <3>1
    <3> QED
      BY <2>5, <3>1
  <2> DEFINE A == {h} \cup B
  <2>6. /\ Safe(world, disk, job, A, c)
        /\ \A x \in A : x[1] \notin Bookkeeping => x \in B
        /\ \A name : Comes(job, A, name) => Comes(k, B, name)
        /\ job.cmd = "init" /\ Quiet(job, A) => Quiet(k, B) \/ Comes(k, B, "app_sibling")
        /\ job.cmd = "init" /\ (disk.sibling["app"].steps \subseteq job.sibling.steps \/ <<"nested", "app", "">> \in A) =>
             f.sibling["app"].steps \subseteq k.sibling.steps \/ <<"nested", "app", "">> \in B
    BY <1>3, <2>2, <2>3, <2>4, <2>5
  <2> HIDE DEF A
  <2> QED
    BY <2>1, <2>6, SafeOn
<1>4. \A B, c : c \in Calls /\ Safe(world, disk, job, {h} \cup B, c) => Safe(world, f, k, {} \cup B, c)
  <2>1. \A B : {} \cup B = B
    OBVIOUS
  <2> QED
    BY <1>3, <2>1
<1> QED
  BY <1>1, <1>4, WorksOn

\* The parts of the invariant, after a step.
LEMMA HoldsNext ==
  ASSUME world' \in Worlds, Whole(world'), disk' \in Disks, Good(world', disk'.init), JobInv(world', disk', job')
  PROVE  LifeInv'
BY DEF LifeInv, SealedIsComplete, Whole, Repo

\* The job in another session, with fewer calls.
Resumed(j, s, init, sibling) == [j EXCEPT !.todo = s, !.init = init, !.sibling = sibling]

LEMMA ResumedIs ==
  ASSUME NEW j \in Jobs, NEW s \in Seq(Calls), NEW init \in Sessions, NEW sibling \in Sessions, NEW k,
         k = Resumed(j, s, init, sibling)
  PROVE  /\ k \in Jobs /\ k.todo = s /\ k.init = init /\ k.sibling = sibling
         /\ k.cmd = j.cmd /\ k.skip = j.skip /\ k.overlooked = j.overlooked
BY DEF Resumed, Jobs

\* The fields of a job, of the disk and of a session.
LEMMA JobIs ==
  ASSUME NEW j \in Jobs, NEW s, NEW x
  PROVE  /\ j.init \in Sessions /\ j.sibling \in Sessions
         /\ [j EXCEPT !.todo = s] = Resumed(j, s, j.init, j.sibling)
         /\ [j EXCEPT !.todo = s, !.init = x] = Resumed(j, s, x, j.sibling)
         /\ [j EXCEPT !.todo = s, !.sibling = x] = Resumed(j, s, j.init, x)
BY DEF Resumed, Jobs

DiskWith(init, sibling, saved) == [init |-> init, sibling |-> sibling, saved |-> saved]

LEMMA DiskIs ==
  ASSUME NEW d \in Disks, NEW x, NEW p
  PROVE  /\ d.init \in Sessions /\ d.sibling \in [Siblings -> Sessions] /\ d.saved \in 0..2
         /\ [d EXCEPT !.init = x] = DiskWith(x, d.sibling, d.saved)
         /\ [d EXCEPT !.sibling[p] = x] = DiskWith(d.init, [d.sibling EXCEPT ![p] = x], d.saved)
BY DEF Disks, DiskWith

LEMMA NewDisks ==
  ASSUME NEW init \in Sessions, NEW sibling \in [Siblings -> Sessions], NEW saved \in 0..2
  PROVE  /\ DiskWith(init, sibling, saved) \in Disks /\ DiskWith(init, sibling, saved).init = init
         /\ DiskWith(init, sibling, saved).sibling = sibling
BY DEF Disks, DiskWith

LEMMA MergedIs ==
  ASSUME NEW before \in Sessions, NEW file \in Sessions, NEW step \in Names, NEW after,
         after = Marked(before, file, step)
  PROVE  /\ after \in Sessions
         /\ \A n : n \in after.steps <=> n \in before.steps \/ n = step \/ n \in file.steps
         /\ \A n : n \in after.app <=> n \in before.app \/ n \in file.app
<1> DEFINE steps == before.steps \cup {step}
<1>1. [before EXCEPT !.steps = steps] = [exists |-> before.exists, steps |-> steps, app |-> before.app]
  BY DEF Sessions
<1>2. steps \in SUBSET Names
  BY DEF Sessions
<1>3. after = Merged([before EXCEPT !.steps = steps], file)
  BY DEF Marked
<1> HIDE DEF steps
<1>4. after = [exists |-> TRUE, steps |-> steps \cup file.steps, app |-> before.app \cup file.app]
  BY <1>1, <1>3 DEF Merged
<1> QED
  BY <1>2, <1>4 DEF Sessions, steps

LEMMA NoSessionIs == NoSession \in Sessions /\ NoSession.steps = {} /\ NoSession.app = {}
                     /\ NewSession \in Sessions /\ NewSession.steps = {} /\ NewSession.app = {}
BY DEF NoSession, NewSession, Sessions

\* A step of the core is recorded: its session now says so, and the application's is in it.
LEMMA MarkCoreHolds ==
  ASSUME LifeInv, Mark, Call[2] = CoreRepo
  PROVE  LifeInv'
<1> DEFINE j == job  name == Call[3]  kept == [j.init EXCEPT !.app = j.sibling.steps]
           session == Marked(kept, disk.init, name)
<1>1. /\ Ready(world, disk, j, Call) /\ Tail(j.todo) \in Seq(Calls)
      /\ j.cmd = "init" => Truth(world, j)
      /\ Good(world, disk.init) /\ Busy
  BY Working DEF Mark
<1>2. /\ j \in Jobs /\ disk \in Disks /\ world \in Worlds /\ Whole(world) /\ Good(world, j.init)
      /\ Placed(j, Call) /\ FilesFirst(world, j, {}, Call) /\ SessionFirst(world, disk, j, {}, Call)
      /\ Call \in Calls /\ Call[1] = "mark"
      /\ j.cmd = "init" => disk.init.steps \subseteq j.init.steps
  BY <1>1 DEF Ready, Safe, Mark, Verb
<1>3. j.cmd = "init" /\ name \in CoreNames /\ name \in Names
  <2>1. j.cmd = (IF Call[2] = "shop" THEN "sibling" ELSE "init") /\ name \in CoreNames
    BY <1>2 DEF Placed
  <2>2. Call[2] # "shop"
    BY DEF CoreRepo
  <2>3. \A x \in CoreNames : x \in Names
    BY DEF Names
  <2> HIDE DEF name, j
  <2> QED
    BY <2>1, <2>2, <2>3
<1>4. /\ j.init \in Sessions /\ j.sibling \in Sessions /\ disk.init \in Sessions
      /\ disk.sibling \in [Siblings -> Sessions] /\ disk.saved \in 0..2
  BY <1>2, JobIs, DiskIs
<1>5. kept = [exists |-> j.init.exists, steps |-> j.init.steps, app |-> j.sibling.steps] /\ kept \in Sessions
  BY <1>4 DEF Sessions
<1>6. kept.steps = j.init.steps /\ kept.app = j.sibling.steps
  BY <1>5
<1>7. /\ job' = [j EXCEPT !.todo = Tail(j.todo), !.init = session] /\ disk' = [disk EXCEPT !.init = session]
      /\ world' = world
  BY DEF Mark
<1> HIDE DEF kept, name, j
<1> HIDE DEF session
<1>8. /\ session \in Sessions /\ session.steps = j.init.steps \cup {name} \cup disk.init.steps
      /\ session.app = j.sibling.steps \cup disk.init.app
  <2> DEFINE file == disk.init
  <2>1. kept \in Sessions /\ file \in Sessions /\ name \in Names /\ session = Marked(kept, file, name)
    BY <1>3, <1>4, <1>5 DEF session
  <2> HIDE DEF file
  <2>2. /\ session \in Sessions
        /\ \A n : n \in session.steps <=> n \in kept.steps \/ n = name \/ n \in file.steps
        /\ \A n : n \in session.app <=> n \in kept.app \/ n \in file.app
    BY <2>1, MergedIs
  <2> QED
    BY <1>6, <2>2 DEF file
<1>9. job' = Resumed(j, Tail(j.todo), session, j.sibling) /\ disk' = DiskWith(session, disk.sibling, disk.saved)
  BY <1>2, <1>7, JobIs, DiskIs
<1>10. /\ job' \in Jobs /\ job'.todo = Tail(j.todo) /\ job'.init = session /\ job'.sibling = j.sibling
       /\ job'.cmd = j.cmd /\ job'.skip = j.skip /\ job'.overlooked = j.overlooked
  <2> DEFINE k == job'  t == Tail(j.todo)
  <2>1. j \in Jobs /\ t \in Seq(Calls) /\ session \in Sessions /\ j.sibling \in Sessions
    BY <1>1, <1>2, <1>4, <1>8
  <2>2. k = Resumed(j, t, session, j.sibling)
    BY <1>9
  <2> HIDE DEF k, t
  <2>3. /\ k \in Jobs /\ k.todo = t /\ k.init = session /\ k.sibling = j.sibling
        /\ k.cmd = j.cmd /\ k.skip = j.skip /\ k.overlooked = j.overlooked
    BY <2>1, <2>2, ResumedIs
  <2> QED
    BY <2>3 DEF k, t
<1>11. disk' \in Disks /\ disk'.init = session /\ disk'.sibling = disk.sibling
  BY <1>4, <1>8, <1>9, NewDisks
<1>12. Good(world, session)
  <2>1. Comes(j, {}, "app_sibling") => "app_sibling" \in session.steps
    BY <1>8 DEF Comes
  <2>2. session.app # {} => "app_sibling" \in session.steps
    <3>1. CASE disk.init.app # {}
      BY <1>1, <1>8, <3>1 DEF Good
    <3>2. CASE name = "app_sibling"
      BY <1>8, <3>2
    <3>3. CASE j.sibling.steps # {} /\ name # "app_sibling"
      BY <1>2, <2>1, <3>3 DEF SessionFirst, Quiet, name
    <3> QED
      BY <1>8, <3>1, <3>2, <3>3
  <2>3. CASE name # Gate
    BY <1>1, <1>2, <1>8, <2>2, <2>3 DEF Good
  <2>4. CASE name = Gate
    <3>1. Call = <<"mark", CoreRepo, Gate>>
      BY <1>2, <2>4, CallIs DEF name
    <3>2. \A l \in Lines : world.repo[CoreRepo].lines[l] = 2
      BY <1>2, <3>1 DEF FilesFirst
    <3>3. Comes(j, {}, "create_repo")
      BY <1>2, <2>4 DEF FilesFirst, name
    <3>4. "create_repo" \in session.steps
      BY <1>8, <3>3 DEF Comes
    <3> QED
      BY <2>2, <3>2, <3>4 DEF Good
  <2> QED
    BY <2>3, <2>4
<1>13. Truth(world, job')
  BY <1>1, <1>3, <1>10 DEF Truth
<1>14. Works(world, disk', job', job'.todo, {})
  <2> DEFINE f == disk'  k == job'
  <2>1. /\ k \in Jobs /\ k.todo = Tail(job.todo) /\ k.cmd = job.cmd /\ k.skip = job.skip
        /\ k.overlooked = job.overlooked /\ job.init.steps \subseteq k.init.steps
        /\ Call[3] \in k.init.steps /\ k.sibling.steps = job.sibling.steps
        /\ Verb # "nested" /\ Verb \in Bookkeeping
        /\ f.sibling["app"].steps \subseteq disk.sibling["app"].steps
    BY <1>2, <1>8, <1>10, <1>11 DEF j, name, Verb, Bookkeeping
  <2> HIDE DEF f, k
  <2>2. Works(world, f, k, k.todo, {})
    BY <1>1, <2>1, MovesOn
  <2> QED
    BY <2>2 DEF f, k
<1>15. JobInv(world, disk', job')
  BY <1>3, <1>8, <1>10, <1>11, <1>12, <1>13, <1>14 DEF JobInv
<1> QED
  BY <1>2, <1>7, <1>11, <1>12, <1>15, HoldsNext

\* A step of a sibling is recorded, its effect being there.
LEMMA MarkSiblingHolds ==
  ASSUME LifeInv, Mark, Call[2] # CoreRepo
  PROVE  LifeInv'
<1> DEFINE j == job  p == Call[2]  name == Call[3]  file == disk.sibling[p]  before == j.sibling
           session == Marked(before, file, name)
<1>1. /\ Ready(world, disk, j, Call) /\ Tail(j.todo) \in Seq(Calls)
      /\ j.cmd = "init" => Truth(world, j)
      /\ Good(world, disk.init) /\ Busy
  BY Working DEF Mark
<1>2. /\ j \in Jobs /\ disk \in Disks /\ world \in Worlds /\ Whole(world) /\ Good(world, j.init)
      /\ Placed(j, Call) /\ SessionFirst(world, disk, j, {}, Call)
      /\ Call \in Calls /\ Call[1] = "mark"
      /\ j.cmd = "init" => disk.init.steps \subseteq j.init.steps
  BY <1>1 DEF Ready, Safe, Mark, Verb
<1>3. p \in Siblings /\ p # CoreRepo /\ name \in Names /\ j.cmd = IF p = "shop" THEN "sibling" ELSE "init"
  <2>1. p \in Projects /\ Call[1] \in {"step", "mark"}
    BY <1>2, CallIs
  <2>2. p \in Siblings
    BY <2>1 DEF Projects
  <2>3. name \in SiblingNames /\ j.cmd = IF p = "shop" THEN "sibling" ELSE "init"
    BY <1>2, <2>1 DEF Placed
  <2> QED
    BY <2>2, <2>3 DEF Names
<1>4. /\ j.init \in Sessions /\ before \in Sessions /\ disk.init \in Sessions
      /\ disk.sibling \in [Siblings -> Sessions] /\ disk.saved \in 0..2
  BY <1>2, JobIs, DiskIs
<1>5. file \in Sessions
  BY <1>3, <1>4
<1>6. /\ job' = [j EXCEPT !.todo = Tail(j.todo), !.sibling = session]
      /\ disk' = [disk EXCEPT !.sibling[p] = session]
      /\ world' = world
  BY DEF Mark
<1> HIDE DEF session, before, file, name, p, j
<1>7. session = Marked(before, file, name)
  BY DEF session
<1>8. /\ session \in Sessions
      /\ \A n : n \in session.steps <=> n \in before.steps \/ n = name \/ n \in file.steps
  <2>1. before \in Sessions /\ file \in Sessions /\ name \in Names /\ session = Marked(before, file, name)
    BY <1>3, <1>4, <1>5, <1>7
  <2> QED
    BY <2>1, MergedIs
<1> DEFINE siblings == [disk.sibling EXCEPT ![p] = session]  f == disk'  k == job'  t == Tail(j.todo)
<1>9. k = Resumed(j, t, j.init, session) /\ f = DiskWith(disk.init, siblings, disk.saved)
  <2>1. job' = Resumed(j, Tail(j.todo), j.init, session)
    BY <1>2, <1>6 DEF Resumed, Jobs
  <2>2. disk' = DiskWith(disk.init, [disk.sibling EXCEPT ![p] = session], disk.saved)
    BY <1>2, <1>6, DiskIs
  <2> QED
    BY <2>1, <2>2
<1>10. siblings \in [Siblings -> Sessions] /\ siblings[p] = session
  BY <1>3, <1>4, <1>8
<1>11. t \in Seq(Calls)
  BY <1>1
<1> HIDE DEF siblings, f, k, t
<1>12. /\ k \in Jobs /\ k.todo = t /\ k.init = j.init /\ k.sibling = session
       /\ k.cmd = j.cmd /\ k.skip = j.skip /\ k.overlooked = j.overlooked
  <2>1. /\ j \in Jobs /\ t \in Seq(Calls) /\ j.init \in Sessions /\ session \in Sessions
        /\ k = Resumed(j, t, j.init, session)
    BY <1>2, <1>4, <1>8, <1>9, <1>11
  <2> QED
    BY <2>1, ResumedIs
<1>13. f \in Disks /\ f.init = disk.init /\ f.sibling = siblings
  BY <1>4, <1>9, <1>10, NewDisks
<1>14. p = "shop" \/ (p = "app" /\ j.cmd = "init")
  BY <1>3 DEF Siblings
<1>15. k.cmd = "init" => Truth(world, k)
  <2> SUFFICES ASSUME k.cmd = "init" PROVE Truth(world, k)
    OBVIOUS
  <2>1. p = "app" /\ j.cmd = "init"
    BY <1>3, <1>12, <1>14
  <2>2. disk.sibling["app"].steps \subseteq j.sibling.steps /\ Reaches(world, {}, name)
    BY <1>2, <2>1 DEF SessionFirst, p, name
  <2>3. \A n : n \in session.steps <=> n \in before.steps \/ n = name
    BY <1>8, <2>1, <2>2 DEF file, before
  <2>4. Truth(world, j)
    BY <1>1, <2>1
  <2>5. \A n \in k.sibling.steps : n \in j.sibling.steps \/ n = name
    BY <1>12, <2>3 DEF before
  <2> QED
    BY <2>2, <2>4, <2>5 DEF Truth, Reaches
<1>16. Works(world, f, k, k.todo, {})
  <2>1. /\ k \in Jobs /\ k.todo = Tail(job.todo) /\ k.cmd = job.cmd /\ k.skip = job.skip
        /\ k.overlooked = job.overlooked /\ job.init.steps \subseteq k.init.steps
        /\ Call[2] # CoreRepo /\ Verb # "nested" /\ Verb \in Bookkeeping
    BY <1>2, <1>12 DEF j, t, Verb, Bookkeeping
  <2>2. job.cmd = "init" => f.sibling["app"].steps \subseteq k.sibling.steps
    BY <1>3, <1>10, <1>12, <1>13, <1>14 DEF j
  <2> QED
    BY <1>1, <2>1, <2>2, MovesOn
<1>17. JobInv(world, f, k)
  BY <1>2, <1>12, <1>13, <1>15, <1>16 DEF JobInv
<1> QED
  BY <1>1, <1>2, <1>6, <1>13, <1>17, HoldsNext DEF f, k

\* The application's session begins with what init's says of it, and its file is no further.
LEMMA NestedHolds ==
  ASSUME LifeInv, BeginNested
  PROVE  LifeInv'
<1> DEFINE j == job  session == [NewSession EXCEPT !.steps = j.init.app]  f == disk'  k == job'  t == Tail(j.todo)
<1>1. /\ Ready(world, disk, j, Call) /\ t \in Seq(Calls)
      /\ Good(world, disk.init) /\ Busy
  BY Working DEF BeginNested
<1>2. /\ j \in Jobs /\ disk \in Disks /\ world \in Worlds /\ Whole(world) /\ Good(world, j.init)
      /\ Placed(j, Call) /\ Begins(j, {}, Call) /\ Call \in Calls /\ Call[1] = "nested"
      /\ j.cmd = "init" => disk.init.steps \subseteq j.init.steps
  BY <1>1 DEF Ready, Safe, BeginNested, Verb
<1>3. j.cmd = "init" /\ j.init.app = {} /\ Call[2] = "app"
  BY <1>2 DEF Begins, Good, Placed
<1>4. session \in Sessions /\ session.steps = {}
  BY <1>3 DEF NewSession, NoSession, Sessions
<1>5. /\ world' = world /\ f = [disk EXCEPT !.sibling["app"] = NoSession]
      /\ k = [j EXCEPT !.todo = t, !.sibling = session]
  BY <1>3 DEF BeginNested, NestedDisk
<1> HIDE DEF session, f, k, t
<1> DEFINE siblings == [disk.sibling EXCEPT !["app"] = NoSession]
<1>6. /\ j.init \in Sessions /\ disk.init \in Sessions
      /\ disk.sibling \in [Siblings -> Sessions] /\ disk.saved \in 0..2
  BY <1>2, JobIs, DiskIs
<1>7. siblings \in [Siblings -> Sessions] /\ siblings["app"].steps = {}
  BY <1>6, NoSessionIs DEF Siblings
<1>8. f = DiskWith(disk.init, siblings, disk.saved)
  BY <1>2, <1>5, DiskIs
<1> HIDE DEF siblings, j
<1>9. k = Resumed(j, t, j.init, session)
  BY <1>2, <1>5 DEF Resumed, Jobs
<1>10. /\ k \in Jobs /\ k.todo = t /\ k.init = j.init /\ k.sibling = session
       /\ k.cmd = j.cmd /\ k.skip = j.skip /\ k.overlooked = j.overlooked
  <2>1. /\ j \in Jobs /\ t \in Seq(Calls) /\ j.init \in Sessions /\ session \in Sessions
        /\ k = Resumed(j, t, j.init, session)
    BY <1>1, <1>2, <1>4, <1>6, <1>9
  <2> QED
    BY <2>1, ResumedIs
<1>11. f \in Disks /\ f.init = disk.init /\ f.sibling = siblings
  BY <1>6, <1>7, <1>8, NewDisks
<1>12. Truth(world, k)
  BY <1>4, <1>10 DEF Truth
<1>13. Works(world, f, k, k.todo, {})
  <2>1. /\ k \in Jobs /\ k.todo = Tail(job.todo) /\ k.cmd = job.cmd /\ k.skip = job.skip
        /\ k.overlooked = job.overlooked /\ job.init.steps \subseteq k.init.steps
        /\ Call[2] # CoreRepo /\ Verb \in Bookkeeping
    BY <1>2, <1>3, <1>10 DEF j, t, Verb, Bookkeeping, CoreRepo
  <2>2. f.sibling["app"].steps \subseteq k.sibling.steps
    BY <1>7, <1>11
  <2> QED
    BY <1>1, <2>1, <2>2, MovesOn
<1>14. JobInv(world, f, k)
  BY <1>2, <1>10, <1>11, <1>12, <1>13 DEF JobInv
<1> QED
  BY <1>1, <1>2, <1>5, <1>11, <1>14, HoldsNext DEF f, k

\* A session's file is deleted; a core's bucket is saved.
LEMMA ConcludeHolds ==
  ASSUME LifeInv, Conclude
  PROVE  LifeInv'
<1> DEFINE j == job  f == disk'  t == Tail(j.todo)  k == [j EXCEPT !.todo = t]
<1>1. /\ Ready(world, disk, j, Call) /\ t \in Seq(Calls)
      /\ j.cmd = "init" => Truth(world, j)
      /\ Good(world, disk.init) /\ Busy
  BY Working DEF Conclude
<1>2. /\ j \in Jobs /\ disk \in Disks /\ world \in Worlds /\ Whole(world) /\ Good(world, j.init)
      /\ Placed(j, Call) /\ Call \in Calls /\ Call[1] \in {"finish", "forget"}
      /\ j.cmd = "init" => disk.init.steps \subseteq j.init.steps
  BY <1>1 DEF Ready, Safe, Conclude, Verb
<1>3. Call[1] # "forget" /\ Call[2] # CoreRepo => Call[2] \in Siblings
  BY <1>2, CallIs DEF Projects
<1>4. /\ disk.init \in Sessions /\ disk.sibling \in [Siblings -> Sessions] /\ disk.saved \in 0..2
  BY <1>2, DiskIs
<1>5. /\ f \in Disks /\ (f.init = disk.init \/ f.init = NoSession)
      /\ \A p \in Siblings : f.sibling[p] = disk.sibling[p] \/ f.sibling[p] = NoSession
  <2>1. ASSUME NEW saved \in 0..2, f = [disk EXCEPT !.init = NoSession, !.saved = saved]
        PROVE  /\ f \in Disks /\ f.init = NoSession /\ f.sibling = disk.sibling
    <3>1. f = DiskWith(NoSession, disk.sibling, saved)
      BY <1>2, <2>1 DEF Disks, DiskWith
    <3> QED
      BY <1>4, <3>1, NoSessionIs, NewDisks
  <2>2. ASSUME NEW p \in Siblings, f = [disk EXCEPT !.sibling[p] = NoSession]
        PROVE  /\ f \in Disks /\ f.init = disk.init
               /\ \A q \in Siblings : f.sibling[q] = disk.sibling[q] \/ f.sibling[q] = NoSession
    <3> DEFINE siblings == [disk.sibling EXCEPT ![p] = NoSession]
    <3>1. f = DiskWith(disk.init, siblings, disk.saved)
      BY <1>2, <2>2, DiskIs
    <3>2. /\ siblings \in [Siblings -> Sessions]
          /\ \A q \in Siblings : siblings[q] = disk.sibling[q] \/ siblings[q] = NoSession
      BY <1>4, NoSessionIs
    <3> HIDE DEF siblings, f
    <3> QED
      BY <1>4, <3>1, <3>2, NewDisks
  <2>3. /\ Call[1] = "forget" => f = [disk EXCEPT !.init = NoSession, !.saved = 0]
        /\ Call[1] # "forget" /\ Call[2] = CoreRepo =>
             f = [disk EXCEPT !.init = NoSession, !.saved = world.bucket[CoreRepo]]
        /\ Call[1] # "forget" /\ Call[2] # CoreRepo => f = [disk EXCEPT !.sibling[Call[2]] = NoSession]
    BY <1>2 DEF Conclude, Verb
  <2>4. world.bucket[CoreRepo] \in 0..2 /\ 0 \in 0..2
    BY <1>2, WorldIs DEF Projects
  <2> HIDE DEF f
  <2>5. CASE Call[1] = "forget"
    BY <2>1, <2>3, <2>4, <2>5
  <2>6. CASE Call[1] # "forget" /\ Call[2] = CoreRepo
    BY <2>1, <2>3, <2>4, <2>6
  <2>7. CASE Call[1] # "forget" /\ Call[2] # CoreRepo
    BY <1>3, <2>2, <2>3, <2>7
  <2> QED
    BY <2>5, <2>6, <2>7
<1>6. /\ world' = world /\ (job' = NoJob \/ job' = k)
  BY DEF Conclude
<1>7. Good(world, f.init) /\ f.init.steps \subseteq disk.init.steps
  <2>1. f.init = disk.init \/ f.init = NoSession
    BY <1>5
  <2>2. Good(world, NoSession)
    BY NoSessionIs DEF Good
  <2> HIDE DEF f
  <2> QED
    BY <1>1, <2>1, <2>2, NoSessionIs
<1>8. f.sibling["app"].steps \subseteq disk.sibling["app"].steps
  <2>1. f.sibling["app"] = disk.sibling["app"] \/ f.sibling["app"] = NoSession
    BY <1>5 DEF Siblings
  <2> HIDE DEF f
  <2> QED
    BY <2>1, NoSessionIs
<1> HIDE DEF f, t, k, j
<1>9. /\ k \in Jobs /\ k.todo = t /\ k.cmd = j.cmd /\ k.init = j.init /\ k.sibling = j.sibling
      /\ k.skip = j.skip /\ k.overlooked = j.overlooked
  BY <1>1, <1>2, TodoIs DEF k
<1>10. Works(world, f, k, k.todo, {})
  <2>1. /\ k \in Jobs /\ k.todo = Tail(job.todo) /\ k.cmd = job.cmd /\ k.skip = job.skip
        /\ k.overlooked = job.overlooked /\ job.init.steps \subseteq k.init.steps
        /\ Verb \notin {"step", "mark"} /\ Verb # "nested" /\ Verb \in Bookkeeping
        /\ k.sibling = job.sibling
    BY <1>2, <1>9 DEF j, t, Verb, Bookkeeping
  <2> QED
    BY <1>1, <1>8, <2>1, MovesOn
<1>11. JobInv(world, f, k)
  <2>1. k.cmd = "init" => Truth(world, k)
    BY <1>1, <1>9 DEF Truth
  <2> QED
    BY <1>2, <1>7, <1>9, <1>10, <2>1 DEF JobInv
<1>12. JobInv(world, f, job')
  BY <1>6, <1>11 DEF JobInv
<1>13. /\ world' \in Worlds /\ Whole(world') /\ disk' \in Disks /\ Good(world', disk'.init)
       /\ JobInv(world', disk', job')
  BY <1>2, <1>5, <1>6, <1>7, <1>12 DEF f
<1> QED
  BY <1>13, HoldsNext

-----------------------------------------------------------------------------
(* Steps and the calls they consist of *)

\* Most calls are safe anywhere.
LEMMA Harmless ==
  ASSUME NEW w, NEW d, NEW j, NEW B, NEW c, Placed(j, c),
         c[1] \notin {"nested", "fastForward", "seal", "step", "mark"} \cup Removes,
         c[1] = "create_repo" => c[2] # CoreRepo
  PROVE  Safe(w, d, j, B, c)
<1>1. Begins(j, B, c) /\ DestroyedFirst(w, j, B, c)
  BY DEF Begins, DestroyedFirst
<1>2. FilesFirst(w, j, B, c)
  BY DEF FilesFirst
<1>3. SessionFirst(w, d, j, B, c)
  BY DEF SessionFirst
<1> QED
  BY <1>1, <1>2, <1>3 DEF Safe

\* The steps of a sibling's session, once that has begun.
LEMMA SiblingStep ==
  ASSUME NEW w, NEW d, NEW j, NEW B, NEW c, c[1] = "step", c[2] # CoreRepo, Placed(j, c),
         c[2] = "app" => d.sibling["app"].steps \subseteq j.sibling.steps \/ <<"nested", "app", "">> \in B
  PROVE  Safe(w, d, j, B, c)
<1>1. Begins(j, B, c) /\ DestroyedFirst(w, j, B, c)
  BY DEF Begins, DestroyedFirst, Removes
<1>2. FilesFirst(w, j, B, c)
  <2>1. c # <<"mark", CoreRepo, Gate>>
    <3>1. <<"mark", CoreRepo, Gate>>[1] = "mark"
      OBVIOUS
    <3> QED
      BY <3>1
  <2>2. c[1] \notin {"fastForward", "seal", "mark"}
    OBVIOUS
  <2> QED
    BY <2>1, <2>2 DEF FilesFirst
<1>3. SessionFirst(w, d, j, B, c)
  BY DEF SessionFirst
<1> QED
  BY <1>1, <1>2, <1>3 DEF Safe

\* Short lists.
LEMMA Singles == ASSUME NEW S, NEW x \in S PROVE <<x>> \in Seq(S)
OBVIOUS

LEMMA Nines ==
  ASSUME NEW S, NEW x1 \in S, NEW x2 \in S, NEW x3 \in S, NEW x4 \in S, NEW x5 \in S, NEW x6 \in S,
         NEW x7 \in S, NEW x8 \in S, NEW x9 \in S
  PROVE  <<x1, x2, x3, x4, x5, x6, x7, x8, x9>> \in Seq(S)
OBVIOUS

LEMMA OneCall ==
  ASSUME NEW w, NEW d, NEW j, NEW B, NEW c \in Calls, Safe(w, d, j, B, c), NEW s, s = <<c>>
  PROVE  s \in Seq(Calls) /\ Range(s) = {c} /\ Works(w, d, j, s, B)
<1>1. s \in Seq(Calls) /\ DOMAIN s = {1} /\ s[1] = c
  OBVIOUS
<1>2. Range(s) = {c}
  BY <1>1 DEF Range
<1>3. B \cup Ahead(s, 1) = B
  BY DEF Ahead
<1> QED
  BY <1>1, <1>2, <1>3 DEF Works

LEMMA CallsAre ==
  ASSUME NEW verb \in Verbs, NEW p \in Projects, NEW x \in Names \cup {"", Global} \cup Lines \cup Envs
  PROVE  <<verb, p, x>> \in Calls
BY DEF Calls

\* The branches of a repository, in their order.
LEMMA LinesInOrder ==
  ASSUME NEW verb \in Verbs, NEW p \in Projects, NEW s, s = ForLines(verb, p)
  PROVE  /\ s \in Seq(Calls) /\ Tail(s) \in Seq(Calls)
         /\ \A c \in Range(s) : c \in Calls /\ c[1] = verb /\ c[2] = p /\ c[3] \in Lines
         /\ Range(Tail(s)) \subseteq Range(s)
         /\ \A l \in Lines : l = "dev" \/ <<verb, p, l>> \in Range(Tail(s))
         /\ \A l \in Lines : <<verb, p, l>> \in Range(s)
<1> DEFINE n == Len(LineOrder)  t == Tail(s)
<1>1. n \in Nat /\ n # 0 /\ DOMAIN LineOrder = 1..n /\ \A i \in 1..n : LineOrder[i] \in Lines
  BY LineOrderAssumption, LenProperties, EmptySeq
<1>2. s = [i \in 1..n |-> <<verb, p, LineOrder[i]>>]
  BY <1>1 DEF ForLines
<1> HIDE DEF n
<1>3. \A i \in 1..n : <<verb, p, LineOrder[i]>> \in Calls
  BY <1>1, CallsAre
<1>4. s \in Seq(Calls) /\ Len(s) = n /\ DOMAIN s = 1..n /\ s # <<>>
  <2>1. s \in [1..n -> Calls]
    BY <1>2, <1>3
  <2> QED
    BY <1>1, <2>1, LenProperties, EmptySeq, SeqDef
<1>5. /\ t \in Seq(Calls) /\ Len(t) = n - 1 /\ DOMAIN t = 1..(n - 1)
      /\ \A i \in 1..(n - 1) : t[i] = s[i + 1]
  BY <1>1, <1>4, HeadTailProperties, LenProperties
<1> HIDE DEF t
<1>6. \A c \in Range(s) : c \in Calls /\ c[1] = verb /\ c[2] = p /\ c[3] \in Lines
  BY <1>1, <1>2, <1>3, <1>4 DEF Range
<1>7. Range(t) \subseteq Range(s)
  BY <1>1, <1>4, <1>5 DEF Range
<1>8. ASSUME NEW l \in Lines PROVE \E i \in 1..n : s[i] = <<verb, p, l>> /\ (i = 1 => l = "dev")
  <2>1. PICK i \in 1..n : l = LineOrder[i]
    BY <1>1 DEF Lines
  <2> QED
    BY <1>2, <2>1, LineOrderAssumption
<1>9. ASSUME NEW l \in Lines PROVE l = "dev" \/ <<verb, p, l>> \in Range(t)
  <2>1. PICK i \in 1..n : s[i] = <<verb, p, l>> /\ (i = 1 => l = "dev")
    BY <1>8
  <2>2. CASE i # 1
    <3>1. i - 1 \in 1..(n - 1) /\ t[i - 1] = <<verb, p, l>>
      BY <1>1, <1>5, <2>1, <2>2
    <3> QED
      BY <1>5, <3>1 DEF Range
  <2> QED
    BY <2>1, <2>2
<1> QED
  BY <1>4, <1>5, <1>6, <1>7, <1>8, <1>9 DEF Range, t

\* A list of steps.
LEMMA StepsAre ==
  ASSUME NEW p \in Projects, NEW S \in SUBSET Names, NEW names \in Seq(S), NEW s, s = Steps(p, names)
  PROVE  /\ s \in Seq(Calls) /\ Len(s) = Len(names)
         /\ \A i \in 1..Len(s) : s[i] = <<"step", p, names[i]>> /\ names[i] \in S
<1> DEFINE n == Len(names)
<1>1. n \in Nat /\ DOMAIN names = 1..n /\ \A i \in 1..n : names[i] \in S
  BY LenProperties
<1>2. s = [i \in 1..n |-> <<"step", p, names[i]>>]
  BY <1>1 DEF Steps
<1> HIDE DEF n
<1>3. "step" \in Verbs
  BY DEF Verbs
<1>4. \A i \in 1..n : <<"step", p, names[i]>> \in Calls
  BY <1>1, <1>3, CallsAre
<1>5. s \in [1..n -> Calls]
  BY <1>2, <1>4
<1>6. s \in Seq(Calls) /\ Len(s) = n
  BY <1>1, <1>5, LenProperties, SeqDef
<1> QED
  BY <1>1, <1>2, <1>6 DEF n

\* The steps of a sibling.
LEMMA SiblingStepsWork ==
  ASSUME NEW w, NEW d, NEW j, NEW B, NEW p \in Siblings, j.cmd = IF p = "shop" THEN "sibling" ELSE "init",
         p = "app" => d.sibling["app"].steps \subseteq j.sibling.steps \/ <<"nested", "app", "">> \in B,
         NEW s, s = SiblingSteps(p)
  PROVE  s \in Seq(Calls) /\ Works(w, d, j, s, B)
<1> DEFINE names == <<"verify_credentials", "resolve_core_identity", "create_repo", "push_skeleton",
                      "oidc_trust", "terraform_backend", "github_config", "register_with_core",
                      "trigger_first_deploy">>
           steps == Steps(p, names)  end == <<<<"finish", p, "">>>>
<1>1. p \in Projects /\ SiblingNames \in SUBSET Names /\ "finish" \in Verbs /\ p # CoreRepo
  BY DEF Projects, Siblings, Names, Verbs, CoreRepo
<1>2. names \in Seq(SiblingNames)
  <2>1. /\ "verify_credentials" \in SiblingNames /\ "resolve_core_identity" \in SiblingNames
        /\ "create_repo" \in SiblingNames /\ "push_skeleton" \in SiblingNames
        /\ "oidc_trust" \in SiblingNames /\ "terraform_backend" \in SiblingNames
        /\ "github_config" \in SiblingNames /\ "register_with_core" \in SiblingNames
        /\ "trigger_first_deploy" \in SiblingNames
    BY DEF SiblingNames
  <2> QED
    BY <2>1, Nines
<1>3. s = steps \o end
  BY DEF SiblingSteps
<1> HIDE DEF names
<1>4. /\ steps \in Seq(Calls) /\ Len(steps) \in Nat /\ DOMAIN steps = 1..Len(steps)
      /\ \A i \in 1..Len(steps) : steps[i] = <<"step", p, names[i]>> /\ names[i] \in SiblingNames
  BY <1>1, <1>2, StepsAre, LenProperties
<1>5. <<"finish", p, "">> \in Calls
  BY <1>1, CallsAre
<1>6. end \in Seq(Calls)
  BY <1>5, Singles
<1> HIDE DEF steps
<1>7. Works(w, d, j, steps, B)
  <2>1. ASSUME NEW c \in Range(steps), NEW A, B \subseteq A PROVE Safe(w, d, j, A, c)
    <3>1. PICK i \in 1..Len(steps) : c = steps[i]
      BY <1>4 DEF Range
    <3>2. c[1] = "step" /\ c[2] = p /\ c[3] \in SiblingNames
      <4>1. c = <<"step", p, names[i]>> /\ names[i] \in SiblingNames
        BY <1>4, <3>1
      <4> QED
        BY <4>1
    <3>3. Placed(j, c)
      BY <1>1, <3>2 DEF Placed, Removes, Siblings
    <3> QED
      BY <1>1, <2>1, <3>2, <3>3, SiblingStep
  <2> QED
    BY <1>4, <2>1, WorksAnyhow
<1>8. Works(w, d, j, end, B \cup Range(steps))
  <2> DEFINE c == <<"finish", p, "">>  A == B \cup Range(steps)
  <2>1. Placed(j, c)
    BY <1>1 DEF Placed, Removes, Siblings
  <2>2. Safe(w, d, j, A, c)
    BY <2>1, Harmless DEF Removes
  <2> HIDE DEF A
  <2>3. Works(w, d, j, end, A)
    BY <1>5, <2>2, OneCall
  <2> QED
    BY <2>3 DEF A
<1> HIDE DEF end
<1>9. Works(w, d, j, steps \o end, B)
  BY <1>4, <1>6, <1>7, <1>8, WorksBoth
<1>10. steps \o end \in Seq(Calls)
  BY <1>4, <1>6, ConcatProperties
<1> QED
  BY <1>3, <1>9, <1>10

\* What the calls of a step are.
BodyWorks(w, d, j, p, name, b) ==
  /\ b \in Seq(Calls) /\ Works(w, d, j, b, {})
  /\ p = CoreRepo /\ name # "app_sibling" => \A c \in Range(b) : c[2] = CoreRepo /\ c[1] # "step"
  /\ p = CoreRepo /\ name = Gate =>
       \A l \in Lines : \/ <<"fastForward", CoreRepo, l>> \in Range(b)
                        \/ l = "dev" /\ <<"instanceFiles", CoreRepo, "dev">> \in Range(b)
  /\ p = "app" => Reaches(w, Range(b), name)

\* A step that is one call.
LEMMA OneVerb ==
  ASSUME NEW w, NEW d, NEW j, NEW p \in Projects, NEW name \in Names, NEW b, b = <<<<name, p, "">>>>,
         Ready(w, d, j, <<"step", p, name>>),
         name \notin {"github_branches", Gate, "github_settings", "app_sibling", "github_protection_sealed",
                     "github_config"},
         p = CoreRepo => name \notin j.init.steps
  PROVE  BodyWorks(w, d, j, p, name, b)
<1> DEFINE c == <<name, p, "">>
<1>1. /\ j.cmd = IF p = "shop" THEN "sibling" ELSE "init"
      /\ name \in IF p = CoreRepo THEN CoreNames ELSE SiblingNames
  <2>1. Placed(j, <<"step", p, name>>)
    BY DEF Ready, Safe
  <2> QED
    BY <2>1 DEF Placed
<1>2. c \in Calls
  <2>1. name \in Verbs
    BY DEF Names, Verbs
  <2> QED
    BY <2>1, CallsAre
<1>3. c[1] = name /\ c[2] = p
  OBVIOUS
<1>4. name \in {"verify_credentials", "create_repo", "oidc_trust", "terraform_backend", "resolve_core_identity",
                "push_skeleton", "register_with_core", "trigger_first_deploy"}
  BY DEF Names, CoreNames, SiblingNames, Gate
<1> HIDE DEF c
<1>5. Placed(j, c)
  <2>1. j.cmd # "teardown"
    BY <1>1
  <2> QED
    BY <1>3, <1>4, <2>1 DEF Placed, Removes
<1>6. Safe(w, d, j, {}, c)
  <2>1. CASE name = "create_repo" /\ p = CoreRepo
    <3>1. Begins(j, {}, c)
      BY <1>1, <1>3, <2>1 DEF Begins, CoreRepo
    <3>2. FilesFirst(w, j, {}, c) /\ SessionFirst(w, d, j, {}, c) /\ DestroyedFirst(w, j, {}, c)
      <4>1. c # <<"mark", CoreRepo, Gate>>
        <5>1. <<"mark", CoreRepo, Gate>>[1] = "mark"
          OBVIOUS
        <5> QED
          BY <1>3, <2>1, <5>1
      <4>2. c[1] = "create_repo"
        BY <1>3, <2>1
      <4> QED
        BY <4>1, <4>2 DEF FilesFirst, SessionFirst, DestroyedFirst, Removes
    <3> QED
      BY <1>5, <3>1, <3>2 DEF Safe
  <2>2. CASE ~(name = "create_repo" /\ p = CoreRepo)
    BY <1>3, <1>4, <1>5, <2>2, Harmless DEF Removes
  <2> QED
    BY <2>1, <2>2
<1>7. b \in Seq(Calls) /\ Range(b) = {c} /\ Works(w, d, j, b, {})
  <2>1. b = <<c>>
    BY DEF c
  <2> QED
    BY <1>2, <1>6, <2>1, OneCall
<1>8. p = "app" => Reaches(w, Range(b), name)
  <2>1. p = "app" => <<name, "app", "">> \in Range(b)
    BY <1>7 DEF c
  <2> QED
    BY <1>4, <2>1 DEF Reaches
<1>9. ASSUME p = CoreRepo PROVE \A x \in Range(b) : x[2] = CoreRepo /\ x[1] # "step"
  BY <1>3, <1>4, <1>7, <1>9
<1> QED
  BY <1>7, <1>8, <1>9 DEF BodyWorks, Gate

\* Calls on the branches that are safe whenever they come.
Loose(w, d, j, B, verb, p) ==
  \A c, A : c \in Calls /\ c[1] = verb /\ c[2] = p /\ c[3] \in Lines /\ B \subseteq A => Safe(w, d, j, A, c)

LEMMA LinesWork ==
  ASSUME NEW w, NEW d, NEW j, NEW B, NEW verb \in Verbs, NEW p \in Projects, NEW s \in Seq(Calls),
         NEW t, t = ForLines(verb, p), s = t \/ s = Tail(t), Loose(w, d, j, B, verb, p)
  PROVE  Works(w, d, j, s, B)
<1>1. /\ \A c \in Range(t) : c \in Calls /\ c[1] = verb /\ c[2] = p /\ c[3] \in Lines
      /\ Range(Tail(t)) \subseteq Range(t)
  BY LinesInOrder
<1>2. \A c \in Range(s) : c \in Calls /\ c[1] = verb /\ c[2] = p /\ c[3] \in Lines
  BY <1>1
<1>3. \A c \in Range(s) : \A A \in SUBSET Range(s) : Safe(w, d, j, B \cup A, c)
  BY <1>2 DEF Loose
<1> QED
  BY <1>3, WorksAnyhow

\* The steps that go through the branches.
LEMMA BranchSteps ==
  ASSUME NEW w, NEW d, NEW j, NEW name \in {"github_branches", "github_settings", "github_protection_sealed"},
         Ready(w, d, j, <<"step", CoreRepo, name>>), NEW b, b = Body(CoreRepo, name)
  PROVE  BodyWorks(w, d, j, CoreRepo, name, b)
<1> DEFINE verb == CASE name = "github_branches" -> "createLine" [] name = "github_settings" -> "protect"
                     [] name = "github_protection_sealed" -> "seal"
           t == ForLines(verb, CoreRepo)
<1>1. j.cmd = "init" /\ CoreRepo \in Projects
  <2>1. Placed(j, <<"step", CoreRepo, name>>)
    BY DEF Ready, Safe
  <2> QED
    BY <2>1 DEF Placed, CoreRepo, Projects
<1>2. b = t \/ b = Tail(t)
  BY DEF Body, Gate
<1>3. /\ verb \in {"createLine", "protect", "seal"}
      /\ verb = "seal" => name = "github_protection_sealed"
  OBVIOUS
<1>4. verb \in Verbs
  BY <1>3 DEF Verbs
<1>5. verb = "seal" => Comes(j, {}, Gate)
  <2>1. FilesFirst(w, j, {}, <<"step", CoreRepo, name>>)
    BY DEF Ready, Safe
  <2> QED
    BY <1>3, <2>1 DEF FilesFirst
<1> HIDE DEF verb
<1>6. /\ t \in Seq(Calls) /\ Tail(t) \in Seq(Calls) /\ Range(Tail(t)) \subseteq Range(t)
      /\ \A c \in Range(t) : c \in Calls /\ c[1] = verb /\ c[2] = CoreRepo /\ c[3] \in Lines
  BY <1>1, <1>4, LinesInOrder
<1>7. ASSUME NEW c, NEW A, c \in Calls, c[1] = verb, c[2] = CoreRepo, c[3] \in Lines PROVE Safe(w, d, j, A, c)
  <2>1. Placed(j, c)
    BY <1>1, <1>3, <1>7 DEF Placed, Removes
  <2>2. CASE verb # "seal"
    BY <1>3, <1>7, <2>1, <2>2, Harmless DEF Removes
  <2>3. CASE verb = "seal"
    <3>1. Comes(j, A, Gate)
      BY <1>5, <2>3 DEF Comes
    <3>2. c # <<"mark", CoreRepo, Gate>>
      <4>1. <<"mark", CoreRepo, Gate>>[1] = "mark"
        OBVIOUS
      <4> QED
        BY <1>7, <2>3, <4>1
    <3> QED
      BY <1>7, <2>1, <2>3, <3>1, <3>2 DEF Safe, Begins, FilesFirst, SessionFirst, DestroyedFirst, Removes
  <2> QED
    BY <2>2, <2>3
<1>8. Works(w, d, j, b, {})
  <2> DEFINE B == {}
  <2>1. Loose(w, d, j, B, verb, CoreRepo)
    BY <1>7 DEF Loose
  <2>2. b \in Seq(Calls) /\ (b = t \/ b = Tail(t)) /\ t = ForLines(verb, CoreRepo)
    BY <1>2, <1>6
  <2> HIDE DEF B, t
  <2>3. CoreRepo \in Projects /\ verb \in Verbs
    BY <1>1, <1>4
  <2>4. Works(w, d, j, b, B)
    BY <2>1, <2>2, <2>3, LinesWork
  <2> QED
    BY <2>4 DEF B
<1>9. \A c \in Range(b) : c[2] = CoreRepo /\ c[1] # "step"
  BY <1>2, <1>3, <1>6
<1> QED
  BY <1>2, <1>6, <1>8, <1>9 DEF BodyWorks, Gate, CoreRepo

\* The calls of two lists.
LEMMA RangeOfBoth ==
  ASSUME NEW S, NEW s \in Seq(S), NEW t \in Seq(S), NEW u, u = s \o t
  PROVE  u \in Seq(S) /\ \A x : x \in Range(u) <=> x \in Range(s) \/ x \in Range(t)
<1>1. Len(s) \in Nat /\ Len(t) \in Nat /\ DOMAIN s = 1..Len(s) /\ DOMAIN t = 1..Len(t)
  BY LenProperties
<1>2. /\ u \in Seq(S) /\ DOMAIN u = 1..(Len(s) + Len(t))
      /\ \A i \in DOMAIN u : u[i] = IF i <= Len(s) THEN s[i] ELSE t[i - Len(s)]
  BY <1>1, ConcatProperties, LenProperties
<1>3. ASSUME NEW x \in Range(u) PROVE x \in Range(s) \cup Range(t)
  <2>1. PICK i \in DOMAIN u : x = u[i]
    BY DEF Range
  <2>2. CASE i <= Len(s)
    BY <1>1, <1>2, <2>1, <2>2 DEF Range
  <2>3. CASE i > Len(s)
    <3>1. i - Len(s) \in DOMAIN t /\ x = t[i - Len(s)]
      BY <1>1, <1>2, <2>1, <2>3
    <3> QED
      BY <3>1 DEF Range
  <2> QED
    BY <1>1, <1>2, <2>2, <2>3
<1>4. ASSUME NEW x \in Range(s) PROVE x \in Range(u)
  <2>1. PICK i \in DOMAIN s : x = s[i]
    BY DEF Range
  <2>2. i \in DOMAIN u /\ x = u[i]
    BY <1>1, <1>2, <2>1
  <2> QED
    BY <2>2 DEF Range
<1>5. ASSUME NEW x \in Range(t) PROVE x \in Range(u)
  <2>1. PICK i \in DOMAIN t : x = t[i]
    BY DEF Range
  <2>2. i + Len(s) \in DOMAIN u /\ x = u[i + Len(s)]
    BY <1>1, <1>2, <2>1
  <2> QED
    BY <2>2 DEF Range
<1> QED
  BY <1>2, <1>3, <1>4, <1>5

\* The instance's files are committed to dev, and the branches follow.
LEMMA GateStep ==
  ASSUME NEW w, NEW d, NEW j, Ready(w, d, j, <<"step", CoreRepo, Gate>>), NEW b, b = Body(CoreRepo, Gate)
  PROVE  BodyWorks(w, d, j, CoreRepo, Gate, b)
<1> DEFINE c == <<"instanceFiles", CoreRepo, "dev">>  files == <<c>>
           t == ForLines("fastForward", CoreRepo)  rest == Tail(t)
<1>1. j.cmd = "init" /\ CoreRepo \in Projects /\ "fastForward" \in Verbs
  <2>1. Placed(j, <<"step", CoreRepo, Gate>>)
    BY DEF Ready, Safe
  <2> QED
    BY <2>1 DEF Placed, CoreRepo, Projects, Verbs
<1>2. b = files \o rest
  BY DEF Body, Gate
<1>3. c \in Calls
  <2>1. "instanceFiles" \in Verbs
    BY DEF Verbs
  <2> QED
    BY <1>1, <2>1, DevIsALine, CallsAre
<1>4. c[1] = "instanceFiles" /\ c[2] = CoreRepo
  OBVIOUS
<1>5. /\ t \in Seq(Calls) /\ rest \in Seq(Calls) /\ Range(rest) \subseteq Range(t)
      /\ \A x \in Range(t) : x \in Calls /\ x[1] = "fastForward" /\ x[2] = CoreRepo /\ x[3] \in Lines
      /\ \A l \in Lines : l = "dev" \/ <<"fastForward", CoreRepo, l>> \in Range(rest)
  BY <1>1, LinesInOrder
<1> HIDE DEF c, t, rest
<1>6. Safe(w, d, j, {}, c)
  <2>1. Placed(j, c)
    BY <1>1, <1>4 DEF Placed, Removes
  <2> QED
    BY <1>4, <2>1, Harmless DEF Removes
<1>7. files \in Seq(Calls) /\ Range(files) = {c} /\ Works(w, d, j, files, {})
  BY <1>3, <1>6, OneCall
<1> HIDE DEF files
<1>8. ASSUME NEW x, NEW A, x \in Calls, x[1] = "fastForward", x[2] = CoreRepo, x[3] \in Lines,
             {} \cup {c} \subseteq A
      PROVE  Safe(w, d, j, A, x)
  <2>1. Placed(j, x)
    BY <1>1, <1>8 DEF Placed, Removes
  <2>2. <<"instanceFiles", CoreRepo, "dev">> \in A
    BY <1>8 DEF c
  <2>3. x # <<"mark", CoreRepo, Gate>>
    <3>1. <<"mark", CoreRepo, Gate>>[1] = "mark"
      OBVIOUS
    <3> QED
      BY <1>8, <3>1
  <2> QED
    BY <1>8, <2>1, <2>2, <2>3 DEF Safe, Begins, FilesFirst, SessionFirst, DestroyedFirst, Removes
<1>9. Works(w, d, j, rest, {} \cup {c})
  <2> DEFINE B == {} \cup {c}  verb == "fastForward"
  <2>1. Loose(w, d, j, B, verb, CoreRepo)
    BY <1>8 DEF Loose
  <2>2. verb \in Verbs /\ t = ForLines(verb, CoreRepo) /\ rest = Tail(t)
    BY <1>1 DEF t, rest
  <2> HIDE DEF B, verb
  <2>3. Works(w, d, j, rest, B)
    BY <1>1, <1>5, <2>1, <2>2, LinesWork
  <2> QED
    BY <2>3 DEF B
<1>10. Works(w, d, j, files \o rest, {})
  BY <1>5, <1>7, <1>9, WorksBoth
<1>11. b \in Seq(Calls) /\ Range(b) = {c} \cup Range(rest)
  <2>1. b \in Seq(Calls) /\ \A x : x \in Range(b) <=> x \in Range(files) \/ x \in Range(rest)
    BY <1>2, <1>5, <1>7, RangeOfBoth
  <2> QED
    BY <1>7, <2>1
<1>12. \A x \in Range(b) : x[2] = CoreRepo /\ x[1] # "step"
  BY <1>4, <1>5, <1>11
<1>13. ASSUME NEW l \in Lines
       PROVE  \/ <<"fastForward", CoreRepo, l>> \in Range(b)
              \/ l = "dev" /\ <<"instanceFiles", CoreRepo, "dev">> \in Range(b)
  BY <1>5, <1>11 DEF c
<1> QED
  BY <1>2, <1>10, <1>11, <1>12, <1>13 DEF BodyWorks, CoreRepo

\* The application's session is begun before its steps.
LEMMA NestedStep ==
  ASSUME NEW w, NEW d, NEW j, Ready(w, d, j, <<"step", CoreRepo, "app_sibling">>),
         "app_sibling" \notin j.init.steps, NEW b, b = Body(CoreRepo, "app_sibling")
  PROVE  BodyWorks(w, d, j, CoreRepo, "app_sibling", b)
<1> DEFINE c == <<"nested", "app", "">>  first == <<c>>  rest == SiblingSteps("app")
<1>1. j.cmd = "init" /\ CoreRepo \in Projects /\ "app" \in Projects /\ "app" \in Siblings
  <2>1. Placed(j, <<"step", CoreRepo, "app_sibling">>)
    BY DEF Ready, Safe
  <2> QED
    BY <2>1 DEF Placed, CoreRepo, Projects, Siblings
<1>2. b = first \o rest
  BY DEF Body, Gate
<1>3. c \in Calls
  <2>1. "nested" \in Verbs
    BY DEF Verbs
  <2> QED
    BY <1>1, <2>1, CallsAre
<1>4. c[1] = "nested" /\ c[2] = "app"
  OBVIOUS
<1> HIDE DEF c
<1>5. Safe(w, d, j, {}, c)
  <2>1. Placed(j, c)
    BY <1>1, <1>4 DEF Placed, Removes
  <2>2. c # <<"mark", CoreRepo, Gate>>
    <3>1. <<"mark", CoreRepo, Gate>>[1] = "mark"
      OBVIOUS
    <3> QED
      BY <1>4, <3>1
  <2> QED
    BY <1>1, <1>4, <2>1, <2>2 DEF Safe, Begins, FilesFirst, SessionFirst, DestroyedFirst, Removes
<1>6. first \in Seq(Calls) /\ Range(first) = {c} /\ Works(w, d, j, first, {})
  BY <1>3, <1>5, OneCall
<1> DEFINE B == {} \cup {c}
<1>7. <<"nested", "app", "">> \in B
  BY DEF c
<1> HIDE DEF first, rest, B
<1>8. rest \in Seq(Calls) /\ Works(w, d, j, rest, B)
  <2>1. "app" # "shop"
    OBVIOUS
  <2>2. j.cmd = IF "app" = "shop" THEN "sibling" ELSE "init"
    BY <1>1, <2>1
  <2>3. rest = SiblingSteps("app")
    BY DEF rest
  <2> QED
    BY <1>1, <1>7, <2>2, <2>3, SiblingStepsWork
<1>9. Works(w, d, j, first \o rest, {})
  BY <1>6, <1>8, WorksBoth DEF B
<1>10. b \in Seq(Calls)
  BY <1>2, <1>6, <1>8, RangeOfBoth
<1> QED
  BY <1>2, <1>9, <1>10 DEF BodyWorks, Gate, CoreRepo

\* The application's branches, protected and closed.
LEMMA ConfigStep ==
  ASSUME NEW w, NEW d, NEW j, NEW p \in Siblings, Ready(w, d, j, <<"step", p, "github_config">>),
         NEW b, b = Body(p, "github_config")
  PROVE  BodyWorks(w, d, j, p, "github_config", b)
<1> DEFINE all == ForLines("createLine", p)  lines == Tail(all)
           open == ForLines("protect", p)  closed == ForLines("seal", p)
<1>1. /\ j.cmd # "teardown" /\ p \in Projects /\ p # CoreRepo
      /\ "createLine" \in Verbs /\ "protect" \in Verbs /\ "seal" \in Verbs
  <2>1. Placed(j, <<"step", p, "github_config">>)
    BY DEF Ready, Safe
  <2> QED
    BY <2>1 DEF Placed, CoreRepo, Siblings, Projects, Verbs
<1>2. b = (lines \o open) \o closed
  BY <1>1 DEF Body, Gate
<1>3. /\ all \in Seq(Calls) /\ lines \in Seq(Calls)
      /\ \A l \in Lines : l = "dev" \/ <<"createLine", p, l>> \in Range(lines)
  BY <1>1, LinesInOrder
<1>4. open \in Seq(Calls) /\ \A l \in Lines : <<"protect", p, l>> \in Range(open)
  BY <1>1, LinesInOrder
<1>5. closed \in Seq(Calls)
  BY <1>1, LinesInOrder
<1>6. ASSUME NEW verb \in {"createLine", "protect"}, NEW B PROVE Loose(w, d, j, B, verb, p)
  <2>1. ASSUME NEW c, NEW A, c[1] = verb, c[2] = p, c[3] \in Lines PROVE Safe(w, d, j, A, c)
    <3>1. Placed(j, c)
      BY <1>1, <2>1 DEF Placed, Removes
    <3> QED
      BY <2>1, <3>1, Harmless DEF Removes
  <2> QED
    BY <2>1 DEF Loose
<1> DEFINE none == {}  A1 == none \cup Range(lines)  before == lines \o open  A2 == none \cup Range(before)
<1>7. all = ForLines("createLine", p) /\ open = ForLines("protect", p) /\ closed = ForLines("seal", p) /\ lines = Tail(all)
  OBVIOUS
<1> HIDE DEF all, lines, open, closed
<1>8. Works(w, d, j, lines, none) /\ Works(w, d, j, open, A1)
  <2> HIDE DEF none, A1
  <2>1. Loose(w, d, j, none, "createLine", p) /\ Loose(w, d, j, A1, "protect", p)
    BY <1>6
  <2>2. Works(w, d, j, lines, none)
    BY <1>1, <1>3, <1>7, <2>1, LinesWork
  <2>3. Works(w, d, j, open, A1)
    BY <1>1, <1>4, <1>7, <2>1, LinesWork
  <2> QED
    BY <2>2, <2>3
<1>9. Works(w, d, j, before, none)
  <2> HIDE DEF none
  <2> QED
    BY <1>3, <1>4, <1>8, WorksBoth
<1>10. before \in Seq(Calls) /\ \A x : x \in Range(before) <=> x \in Range(lines) \/ x \in Range(open)
  <2>1. before = lines \o open
    OBVIOUS
  <2> HIDE DEF before
  <2> QED
    BY <1>3, <1>4, <2>1, RangeOfBoth
<1>11. b = before \o closed
  BY <1>2
<1> HIDE DEF before
<1>12. Works(w, d, j, closed, A2)
  <2>1. Loose(w, d, j, A2, "seal", p)
    <3> SUFFICES ASSUME NEW c, NEW A, c[1] = "seal", c[2] = p, c[3] \in Lines, A2 \subseteq A
                 PROVE  Safe(w, d, j, A, c)
      BY DEF Loose
    <3>1. Placed(j, c)
      BY <1>1 DEF Placed, Removes
    <3>2. c[3] = "dev" \/ <<"createLine", c[2], c[3]>> \in A
      BY <1>3, <1>10
    <3>3. c # <<"mark", CoreRepo, Gate>>
      <4>1. <<"mark", CoreRepo, Gate>>[1] = "mark"
        OBVIOUS
      <4> QED
        BY <4>1
    <3>4. FilesFirst(w, j, A, c)
      BY <1>1, <3>2, <3>3 DEF FilesFirst
    <3> QED
      BY <3>1, <3>4 DEF Safe, Begins, SessionFirst, DestroyedFirst, Removes
  <2> HIDE DEF A2
  <2> QED
    BY <1>1, <1>5, <1>7, <2>1, LinesWork
<1>13. Works(w, d, j, before \o closed, none)
  <2> HIDE DEF none
  <2> QED
    BY <1>5, <1>9, <1>10, <1>12, WorksBoth
<1>14. b \in Seq(Calls) /\ \A x : x \in Range(b) <=> x \in Range(before) \/ x \in Range(closed)
  BY <1>5, <1>10, <1>11, RangeOfBoth
<1>15. p = "app" => Reaches(w, Range(b), "github_config")
  <2>1. ASSUME p = "app", NEW l \in Lines
        PROVE  \/ <<"createLine", "app", l>> \in Range(b)
               \/ l = "dev" /\ <<"protect", "app", "dev">> \in Range(b)
    BY <1>3, <1>4, <1>10, <1>14, <2>1
  <2> QED
    BY <2>1 DEF Reaches
<1> QED
  BY <1>1, <1>11, <1>13, <1>14, <1>15 DEF BodyWorks

\* The calls of every step work, and bring its effect about.
LEMMA BodyDoes ==
  ASSUME NEW w, NEW d, NEW j, NEW p \in Projects, NEW name \in Names, Ready(w, d, j, <<"step", p, name>>),
         p = CoreRepo => name \notin j.init.steps, NEW b, b = Body(p, name)
  PROVE  BodyWorks(w, d, j, p, name, b)
<1>1. name \in IF p = CoreRepo THEN CoreNames ELSE SiblingNames
  <2>1. Placed(j, <<"step", p, name>>)
    BY DEF Ready, Safe
  <2> QED
    BY <2>1 DEF Placed
<1>2. p # CoreRepo => p \in Siblings
  BY DEF Projects
<1>3. CASE name \in {"github_branches", "github_settings", "github_protection_sealed"}
  <2>1. p = CoreRepo
    BY <1>1, <1>3 DEF SiblingNames
  <2> QED
    BY <1>3, <2>1, BranchSteps
<1>4. CASE name = Gate
  <2>1. p = CoreRepo
    BY <1>1, <1>4 DEF SiblingNames, Gate
  <2> QED
    BY <1>4, <2>1, GateStep
<1>5. CASE name = "app_sibling"
  <2>1. p = CoreRepo
    BY <1>1, <1>5 DEF SiblingNames
  <2> QED
    BY <1>5, <2>1, NestedStep
<1>6. CASE name = "github_config"
  <2>1. p # CoreRepo
    BY <1>1, <1>6 DEF CoreNames, Gate
  <2> QED
    BY <1>2, <1>6, <2>1, ConfigStep
<1>7. CASE p = "app" /\ name \in {"resolve_core_identity", "register_with_core"}
  <2>1. b = <<>>
    BY <1>7 DEF Body, Gate
  <2>2. b \in Seq(Calls) /\ DOMAIN b = {}
    BY <2>1
  <2>3. Range(b) = {} /\ Works(w, d, j, b, {})
    BY <2>2 DEF Range, Works
  <2>4. Reaches(w, Range(b), name)
    BY <1>7 DEF Reaches
  <2> QED
    BY <1>7, <2>2, <2>3, <2>4 DEF BodyWorks, CoreRepo
<1>8. CASE /\ name \notin {"github_branches", Gate, "github_settings", "app_sibling", "github_protection_sealed",
                          "github_config"}
           /\ ~(p = "app" /\ name \in {"resolve_core_identity", "register_with_core"})
  <2>1. b = <<<<name, p, "">>>>
    BY <1>8 DEF Body, Gate
  <2> QED
    BY <1>8, <2>1, OneVerb
<1> QED
  BY <1>3, <1>4, <1>5, <1>6, <1>7, <1>8

\* A step's calls, and its checkpoint.
LEMMA StepDoes ==
  ASSUME NEW w, NEW d, NEW j, NEW p \in Projects, NEW name \in Names, Ready(w, d, j, <<"step", p, name>>),
         p = CoreRepo => name \notin j.init.steps, NEW s, s = CallsOf(p, name)
  PROVE  /\ s \in Seq(Calls) /\ Works(w, d, j, s, {})
         /\ p = CoreRepo => <<"mark", p, name>> \in Range(s)
         /\ p = CoreRepo /\ name # "app_sibling" => \A c \in Range(s) : c[2] = CoreRepo /\ c[1] # "step"
<1> DEFINE b == Body(p, name)  c == <<"mark", p, name>>  end == <<c>>
<1>1. BodyWorks(w, d, j, p, name, b)
  BY BodyDoes
<1>2. s = b \o end \/ (s = b \o <<>> /\ p = "app")
  BY DEF CallsOf
<1>3. /\ c \in Calls /\ c[1] = "mark" /\ c[2] = p /\ c[3] = name
  <2>1. "mark" \in Verbs
    BY DEF Verbs
  <2> QED
    BY <2>1, CallsAre
<1>4. Safe(w, d, j, {}, <<"step", p, name>>)
  BY DEF Ready
<1>5. b \in Seq(Calls) /\ Works(w, d, j, b, {})
  BY <1>1 DEF BodyWorks
<1>6. c = <<"mark", CoreRepo, Gate>> => p = CoreRepo /\ name = Gate
  OBVIOUS
<1> HIDE DEF b, c
<1> DEFINE A == {} \cup Range(b)
<1>7. Safe(w, d, j, A, c)
  <2>1. Placed(j, c)
    BY <1>3, <1>4 DEF Safe, Placed, Removes
  <2>2. Begins(j, A, c) /\ DestroyedFirst(w, j, A, c)
    BY <1>3 DEF Begins, DestroyedFirst, Removes
  <2>3. /\ p = CoreRepo /\ name = Gate => Comes(j, A, "create_repo")
        /\ p = CoreRepo /\ name = "github_protection_sealed" => Comes(j, A, Gate)
    <3>1. FilesFirst(w, j, {}, <<"step", p, name>>)
      BY <1>4 DEF Safe
    <3> QED
      BY <3>1 DEF FilesFirst, Comes
  <2>4. FilesFirst(w, j, A, c)
    BY <1>1, <1>3, <1>6, <2>3 DEF FilesFirst, BodyWorks
  <2>5. SessionFirst(w, d, j, {}, <<"step", p, name>>)
    BY <1>4 DEF Safe
  <2>6. p = "app" => Reaches(w, A, name)
    BY <1>1 DEF BodyWorks
  <2>7. p = "app" => d.sibling["app"].steps \subseteq j.sibling.steps
    BY <2>5 DEF SessionFirst
  <2>8. p = CoreRepo /\ name # "app_sibling" => Comes(j, A, "app_sibling") \/ Quiet(j, A)
    <3> SUFFICES ASSUME p = CoreRepo, name # "app_sibling" PROVE Comes(j, A, "app_sibling") \/ Quiet(j, A)
      OBVIOUS
    <3>1. Comes(j, {}, "app_sibling") \/ Quiet(j, {})
      BY <2>5 DEF SessionFirst
    <3>2. Quiet(j, {}) => Quiet(j, A)
      <4>1. \A x \in A : x[2] = CoreRepo /\ x[1] # "step"
        BY <1>1 DEF BodyWorks
      <4>2. \A x \in A : x # <<"step", CoreRepo, "app_sibling">>
        BY <4>1
      <4> QED
        BY <4>1, <4>2 DEF Quiet
    <3> QED
      BY <3>1, <3>2 DEF Comes
  <2>9. SessionFirst(w, d, j, A, c)
    BY <1>3, <2>6, <2>7, <2>8 DEF SessionFirst, CoreRepo
  <2> QED
    BY <2>1, <2>2, <2>4, <2>9 DEF Safe
<1>8. end \in Seq(Calls) /\ Range(end) = {c} /\ Works(w, d, j, end, A)
  <2> HIDE DEF A
  <2> QED
    BY <1>3, <1>7, OneCall
<1> HIDE DEF end
<1>9. CASE s = b \o end
  <2>1. Works(w, d, j, s, {})
    BY <1>5, <1>8, <1>9, WorksBoth
  <2>2. s \in Seq(Calls) /\ \A x : x \in Range(s) <=> x \in Range(b) \/ x \in Range(end)
    BY <1>5, <1>8, <1>9, RangeOfBoth
  <2>3. ASSUME p = CoreRepo, name # "app_sibling", NEW x \in Range(s) PROVE x[2] = CoreRepo /\ x[1] # "step"
    <3>1. CASE x \in Range(b)
      BY <1>1, <2>3, <3>1 DEF BodyWorks
    <3>2. CASE x = c
      BY <1>3, <2>3, <3>2
    <3> QED
      BY <1>8, <2>2, <3>1, <3>2
  <2>4. <<"mark", p, name>> \in Range(s)
    BY <1>8, <2>2 DEF c
  <2> QED
    BY <2>1, <2>2, <2>3, <2>4
<1>10. CASE s = b \o <<>> /\ p = "app"
  <2>1. s = b
    BY <1>5, <1>10, ConcatEmptySeq
  <2> QED
    BY <1>5, <1>10, <2>1 DEF CoreRepo
<1> QED
  BY <1>2, <1>9, <1>10

\* A step is entered, or skipped since it is recorded.
LEMMA StepHolds ==
  ASSUME LifeInv, EnterStep
  PROVE  LifeInv'
<1> DEFINE j == job  t == Tail(j.todo)  p == Call[2]  name == Call[3]
           s == IF name \in Session(p).steps THEN <<>> ELSE CallsOf(p, name)
<1>1. /\ Ready(world, disk, j, Call) /\ t \in Seq(Calls) /\ Works(world, disk, j, t, {Call})
      /\ j.cmd = "init" => Truth(world, j)
      /\ Good(world, disk.init) /\ Busy
  BY Working DEF EnterStep
<1>2. /\ j \in Jobs /\ disk \in Disks /\ world \in Worlds /\ Whole(world) /\ Good(world, j.init)
      /\ Placed(j, Call) /\ Call \in Calls /\ Call[1] = "step"
      /\ j.cmd = "init" => disk.init.steps \subseteq j.init.steps
  BY <1>1 DEF Ready, Safe, EnterStep, Verb
<1>3. p \in Projects /\ Call = <<"step", p, name>> /\ name \in Names
  <2>1. Call[1] \in {"step", "mark"}
    BY <1>2
  <2>2. name \in IF p = CoreRepo THEN CoreNames ELSE SiblingNames
    BY <1>2, <2>1 DEF Placed
  <2> QED
    BY <1>2, <2>2, CallIs DEF Names
<1>4. world' = world /\ disk' = disk /\ job' = [j EXCEPT !.todo = s \o t]
  BY DEF EnterStep
<1>5. /\ s \in Seq(Calls) /\ Works(world, disk, j, s, {})
      /\ p = CoreRepo => name \in j.init.steps \/ <<"mark", p, name>> \in Range(s)
      /\ p = CoreRepo /\ name # "app_sibling" => \A c \in Range(s) : c[2] = CoreRepo /\ c[1] # "step"
  <2>1. CASE name \in Session(p).steps
    <3>1. s = <<>> /\ (p = CoreRepo => name \in j.init.steps)
      BY <2>1 DEF Session
    <3> HIDE DEF s
    <3>2. s \in Seq(Calls) /\ DOMAIN s = {}
      BY <3>1
    <3> QED
      BY <3>1, <3>2 DEF Works, Range
  <2>2. CASE name \notin Session(p).steps
    <3>1. s = CallsOf(p, name) /\ (p = CoreRepo => name \notin j.init.steps)
      BY <2>2 DEF Session
    <3>2. Ready(world, disk, j, <<"step", p, name>>)
      BY <1>1, <1>3
    <3> HIDE DEF s, j, p, name
    <3> QED
      BY <1>3, <3>1, <3>2, StepDoes
  <2> QED
    BY <2>1, <2>2
<1> HIDE DEF j, t, p, name, s
<1>6. ASSUME NEW B, NEW c, Safe(world, disk, j, {Call} \cup B, c) PROVE Safe(world, disk, j, Range(s) \cup B, c)
  <2> DEFINE A == {Call} \cup B  C == Range(s) \cup B
  <2>1. Begins(j, C, c)
    BY <1>6, BeginsAtOnce DEF Safe, Begins
  <2>2. \A x \in A : x[1] \notin Bookkeeping => x \in C
    BY <1>2 DEF Bookkeeping
  <2>3. ASSUME NEW n, Comes(j, A, n) PROVE Comes(j, C, n)
    <3>1. CASE <<"step", CoreRepo, n>> = Call
      <4>1. p = CoreRepo /\ n = name
        BY <1>3, <3>1
      <4> QED
        BY <1>5, <4>1 DEF Comes
    <3>2. <<"mark", CoreRepo, n>> # Call
      BY <1>3
    <3> QED
      BY <2>3, <3>1, <3>2 DEF Comes
  <2>4. ASSUME Quiet(j, A) PROVE Quiet(j, C)
    <3>1. Call[2] = CoreRepo /\ Call # <<"step", CoreRepo, "app_sibling">> /\ j.sibling.steps = {}
      BY <2>4 DEF Quiet
    <3>2. p = CoreRepo /\ name # "app_sibling"
      BY <1>3, <3>1
    <3>3. ASSUME NEW x \in C PROVE x[2] = CoreRepo /\ x # <<"step", CoreRepo, "app_sibling">>
      <4>1. CASE x \in Range(s)
        <5>1. x[2] = CoreRepo /\ x[1] # "step"
          BY <1>5, <3>2, <4>1
        <5> QED
          BY <5>1
      <4>2. CASE x \in B
        BY <2>4, <4>2 DEF Quiet
      <4> QED
        BY <4>1, <4>2
    <3> QED
      BY <3>1, <3>3 DEF Quiet
  <2>5. <<"nested", "app", "">> \in A => <<"nested", "app", "">> \in C
    BY <1>3
  <2>6. Safe(world, disk, j, A, c)
    BY <1>6
  <2>7. /\ \A n : Comes(j, A, n) => Comes(j, C, n)
        /\ j.cmd = "init" /\ Quiet(j, A) => Quiet(j, C) \/ Comes(j, C, "app_sibling")
        /\ j.cmd = "init" /\ (disk.sibling["app"].steps \subseteq j.sibling.steps \/ <<"nested", "app", "">> \in A) =>
             disk.sibling["app"].steps \subseteq j.sibling.steps \/ <<"nested", "app", "">> \in C
    BY <2>3, <2>4, <2>5
  <2> HIDE DEF A, C
  <2>8. Safe(world, disk, j, C, c)
    BY <2>1, <2>2, <2>6, <2>7, SafeOn
  <2> QED
    BY <2>8 DEF C
<1>7. Works(world, disk, j, t, {} \cup Range(s))
  <2>1. \A B, c : c \in Calls /\ Safe(world, disk, j, {Call} \cup B, c) =>
                    Safe(world, disk, j, ({} \cup Range(s)) \cup B, c)
    <3>1. \A B : ({} \cup Range(s)) \cup B = Range(s) \cup B
      OBVIOUS
    <3> QED
      BY <1>6, <3>1
  <2> DEFINE X == {Call}  Y == {} \cup Range(s)
  <2>2. Works(world, disk, j, t, X) /\ \A B, c : c \in Calls /\ Safe(world, disk, j, X \cup B, c) => Safe(world, disk, j, Y \cup B, c)
    BY <1>1, <2>1
  <2> HIDE DEF X, Y
  <2>3. Works(world, disk, j, t, Y)
    BY <1>1, <2>2, WorksOn
  <2> QED
    BY <2>3 DEF Y
<1> DEFINE u == s \o t
<1>8. u \in Seq(Calls) /\ Works(world, disk, j, u, {})
  <2>1. Works(world, disk, j, u, {})
    BY <1>1, <1>5, <1>7, WorksBoth
  <2>2. u \in Seq(Calls)
    BY <1>1, <1>5, ConcatProperties
  <2> QED
    BY <2>1, <2>2
<1> DEFINE k == job'
<1>9. k = [j EXCEPT !.todo = u]
  BY <1>4
<1> HIDE DEF u, k
<1>10. JobInv(world, disk, k)
  BY <1>1, <1>2, <1>8, <1>9, JobGoesOn
<1> QED
  BY <1>1, <1>2, <1>4, <1>10, HoldsNext DEF k

-----------------------------------------------------------------------------
(* Calls *)

\* What sessions say stays true while calls are made.
LEMMA GoodOn ==
  ASSUME NEW w, NEW v, NEW d, NEW j, NEW c, Ready(w, d, j, c), Effective(w, v, c), NEW session, Good(w, session),
         j.cmd = "init" => session.steps \subseteq j.init.steps
  PROVE  Good(v, session)
<1>1. CoreRepo \in Projects /\ Begins(j, {}, c)
  BY DEF Ready, Safe, Projects
<1>2. ASSUME Gate \in session.steps, v.repo[CoreRepo].exists, NEW l \in Lines
      PROVE  v.repo[CoreRepo].lines[l] = 2
  <2>1. "create_repo" \in session.steps
    BY <1>2 DEF Good
  <2>2. ~(c[1] = "create_repo" /\ c[2] = CoreRepo)
    BY <1>1, <2>1 DEF Begins
  <2>3. w.repo[CoreRepo].exists
    BY <1>2, <2>2 DEF Effective
  <2>4. w.repo[CoreRepo].lines[l] = 2
    BY <1>2, <2>3 DEF Good
  <2>5. CASE c[1] \in Removes
    BY <1>2, <2>4, <2>5 DEF Effective
  <2>6. CASE c[1] \notin Removes
    BY <1>1, <2>4, <2>6 DEF Effective, Keeps
  <2> QED
    BY <2>5, <2>6
<1>3. Gate \in session.steps => "create_repo" \in session.steps
  BY DEF Good
<1> QED
  BY <1>2, <1>3 DEF Good

LEMMA TruthOn ==
  ASSUME NEW w, NEW v, NEW j, Keeps(w, v), Truth(w, j)
  PROVE  Truth(v, j)
<1>1. /\ w.repo["app"].exists => v.repo["app"].exists
      /\ \A l \in Lines : w.repo["app"].lines[l] > 0 => v.repo["app"].lines[l] > 0
      /\ "app" \in w.role => "app" \in v.role
      /\ w.bucket["app"] # 0 => v.bucket["app"] # 0
  BY DEF Keeps, Projects, Siblings
<1> SUFFICES ASSUME NEW name \in j.sibling.steps
             PROVE  CASE name = "create_repo" -> v.repo["app"].exists
                      [] name = "push_skeleton" -> v.repo["app"].lines["dev"] > 0
                      [] name = "oidc_trust" -> "app" \in v.role
                      [] name = "terraform_backend" -> v.bucket["app"] # 0
                      [] name = "github_config" -> \A l \in Lines : v.repo["app"].lines[l] > 0
                      [] OTHER -> TRUE
  BY DEF Truth
<1> QED
  BY <1>1, DevIsALine DEF Truth

\* The siblings are looked for once the core is deployed.
LEMMA WireCallsWork ==
  ASSUME NEW w, NEW d, NEW j, j.cmd = "deploy", NEW env \in Envs, NEW s, s = WireCalls(env)
  PROVE  s \in Seq(Calls) /\ Works(w, d, j, s, {})
<1>1. ASSUME NEW p \in Siblings, NEW b, b = OnlyFor(p, Live, <<<<"wireSibling", p, env>>>>), NEW B
      PROVE  b \in Seq(Calls) /\ Works(w, d, j, b, B)
  <2> DEFINE c == <<"wireSibling", p, env>>
  <2>1. c \in Calls
    <3>1. "wireSibling" \in Verbs /\ p \in Projects
      BY DEF Verbs, Projects
    <3> QED
      BY <3>1, CallsAre
  <2>2. c[1] = "wireSibling" /\ c[3] \in Envs
    OBVIOUS
  <2>3. b = <<c>> \/ b = <<>>
    BY <1>1 DEF OnlyFor
  <2> HIDE DEF c
  <2>4. Placed(j, c)
    BY <2>2 DEF Placed, Removes
  <2>5. Safe(w, d, j, B, c)
    BY <2>2, <2>4, Harmless DEF Removes
  <2>6. CASE b = <<c>>
    BY <2>1, <2>5, <2>6, OneCall
  <2>7. CASE b = <<>>
    <3>1. b \in Seq(Calls) /\ DOMAIN b = {}
      BY <2>7
    <3> QED
      BY <3>1 DEF Works
  <2> QED
    BY <2>3, <2>6, <2>7
<1> DEFINE a == OnlyFor("app", Live, <<<<"wireSibling", "app", env>>>>)
           b == OnlyFor("shop", Live, <<<<"wireSibling", "shop", env>>>>)
<1>2. s = a \o b /\ "app" \in Siblings /\ "shop" \in Siblings
  BY DEF WireCalls, Siblings
<1>3. a \in Seq(Calls) /\ \A B : Works(w, d, j, a, B)
  BY <1>1, <1>2
<1>4. b \in Seq(Calls) /\ \A B : Works(w, d, j, b, B)
  BY <1>1, <1>2
<1> HIDE DEF a, b
<1>5. Works(w, d, j, a \o b, {})
  BY <1>3, <1>4, WorksBoth
<1> QED
  BY <1>2, <1>3, <1>4, <1>5, ConcatProperties

\* A call has its effect.
LEMMA SucceedsHolds ==
  ASSUME LifeInv, CallSucceeds
  PROVE  LifeInv'
<1> DEFINE j == job  t == Tail(j.todo)  v == world'  h == Call
           first == IF Verb = "wire" THEN WireCalls(Call[3]) ELSE <<>>
<1>1. /\ Ready(world, disk, j, h) /\ t \in Seq(Calls) /\ Works(world, disk, j, t, {h})
      /\ j.cmd = "init" => Truth(world, j)
      /\ Good(world, disk.init) /\ Busy
  BY Working DEF CallSucceeds
<1>2. /\ j \in Jobs /\ disk \in Disks /\ world \in Worlds /\ Whole(world) /\ Good(world, j.init)
      /\ Placed(j, h) /\ h \in Calls /\ h[1] = Verb /\ Verb \notin Bookkeeping
      /\ j.cmd = "init" => disk.init.steps \subseteq j.init.steps
  BY <1>1 DEF Ready, Safe, CallSucceeds, Verb
<1>3. Effective(world, v, h)
  <2>1. Possible /\ v \in Effects
    BY DEF CallSucceeds
  <2> HIDE DEF v
  <2> QED
    BY <1>1, <2>1, CallsAreEffective
<1>4. disk' = disk /\ (job' = NoJob \/ job' = [j EXCEPT !.todo = first \o t])
  BY DEF CallSucceeds, Rest
<1>5. Verb = "wire" => j.cmd = "deploy" /\ h[3] \in Envs
  BY <1>2 DEF Placed
<1>6. first \in Seq(Calls) /\ Works(v, disk, j, first, {}) /\ (first = <<>> \/ j.cmd = "deploy")
  <2>1. CASE Verb = "wire"
    <3>1. first = WireCalls(h[3])
      BY <2>1
    <3> HIDE DEF first, v, j, h
    <3>2. first \in Seq(Calls) /\ Works(v, disk, j, first, {})
      BY <1>5, <2>1, <3>1, WireCallsWork
    <3> QED
      BY <1>5, <2>1, <3>2
  <2>2. CASE Verb # "wire"
    <3>1. first = <<>>
      BY <2>2
    <3> HIDE DEF first
    <3>2. first \in Seq(Calls) /\ DOMAIN first = {}
      BY <3>1
    <3> QED
      BY <3>1, <3>2 DEF Works
  <2> QED
    BY <2>1, <2>2
<1> HIDE DEF v, j, t, h, first
<1>7. Works(v, disk, j, t, {})
  <2>1. \A B, c : c \in Calls /\ Safe(world, disk, j, {h} \cup B, c) => Safe(v, disk, j, {} \cup B, c)
    <3>1. ASSUME NEW B, NEW c \in Calls, Safe(world, disk, j, {h} \cup B, c) PROVE Safe(v, disk, j, B, c)
      BY <1>1, <1>2, <1>3, <3>1, PassOn
    <3>2. \A B : {} \cup B = B
      OBVIOUS
    <3> QED
      BY <3>1, <3>2
  <2> QED
    BY <1>1, <2>1, WorksOn
<1> DEFINE A == {} \cup Range(first)
<1>8. Works(v, disk, j, t, A)
  <2>1. CASE first = <<>>
    <3>1. A = {}
      BY <2>1 DEF Range
    <3> QED
      BY <1>7, <3>1
  <2>2. CASE j.cmd = "deploy"
    <3>1. ASSUME NEW B, NEW c, c \in Calls, Safe(v, disk, j, {} \cup B, c), ~(c[1] = "create_repo" /\ c[2] = CoreRepo), c[1] # "nested"
          PROVE  Safe(v, disk, j, A \cup B, c)
      <4> DEFINE X == {} \cup B  Y == A \cup B
      <4>1. Begins(j, Y, c)
        BY <3>1 DEF Begins
      <4>2. \A x \in X : x \in Y
        OBVIOUS
      <4>3. Safe(v, disk, j, X, c) /\ j.cmd # "init"
        BY <2>2, <3>1
      <4> HIDE DEF X, Y, A
      <4>4. \A n : Comes(j, X, n) => Comes(j, Y, n)
        BY <4>2 DEF Comes
      <4>5. Safe(v, disk, j, Y, c)
        BY <4>1, <4>2, <4>3, <4>4, SafeOn
      <4> QED
        BY <4>5 DEF Y
    <3>2. \A B, c : c \in Calls /\ Safe(v, disk, j, {} \cup B, c) => Safe(v, disk, j, A \cup B, c)
      <4>1. ASSUME NEW B, NEW c, Safe(v, disk, j, {} \cup B, c) PROVE ~(c[1] = "create_repo" /\ c[2] = CoreRepo) /\ c[1] # "nested"
        BY <2>2, <4>1 DEF Safe, Begins
      <4> HIDE DEF A
      <4> QED
        BY <3>1, <4>1
    <3> HIDE DEF A
    <3> QED
      BY <1>1, <1>7, <3>2, WorksOn
  <2> HIDE DEF A
  <2> QED
    BY <1>6, <2>1, <2>2
<1> DEFINE u == first \o t  k == [j EXCEPT !.todo = u]
<1>9. u \in Seq(Calls) /\ Works(v, disk, j, u, {})
  <2>1. Works(v, disk, j, u, {})
    BY <1>1, <1>6, <1>8, WorksBoth
  <2> QED
    BY <1>1, <1>6, <2>1, ConcatProperties
<1>10. Good(v, j.init) /\ Good(v, disk.init)
  <2> DEFINE a == j.init  b == disk.init
  <2>1. Good(world, a) /\ Good(world, b) /\ a.steps \subseteq j.init.steps /\ (j.cmd = "init" => b.steps \subseteq j.init.steps)
    BY <1>1, <1>2
  <2> HIDE DEF a, b
  <2>2. Good(v, a) /\ Good(v, b)
    BY <1>1, <1>3, <2>1, GoodOn
  <2> QED
    BY <2>2 DEF a, b
<1>11. j.cmd = "init" => Truth(v, j)
  <2>1. j.cmd = "init" => Keeps(world, v)
    BY <1>2, <1>3 DEF Effective, Placed
  <2> QED
    BY <1>1, <2>1, TruthOn
<1>12. v \in Worlds /\ Whole(v)
  BY <1>3 DEF Effective
<1>13. job' = NoJob \/ job' = k
  BY <1>4
<1> HIDE DEF u
<1>14. JobInv(v, disk, k)
  <2>1. k = [j EXCEPT !.todo = u]
    OBVIOUS
  <2> HIDE DEF k
  <2> QED
    BY <1>2, <1>9, <1>10, <1>11, <2>1, JobGoesOn
<1> HIDE DEF k
<1>15. JobInv(v, disk, job')
  BY <1>13, <1>14 DEF JobInv
<1> QED
  BY <1>2, <1>4, <1>10, <1>12, <1>15, HoldsNext DEF v

\* A failure that is only reported: of a call nothing later relies on.
LEMMA SkippedHolds ==
  ASSUME LifeInv, CallIsSkipped
  PROVE  LifeInv'
<1> DEFINE j == job  t == Tail(j.todo)  h == Call  k == job'
<1>1. /\ Ready(world, disk, j, h) /\ t \in Seq(Calls) /\ Works(world, disk, j, t, {h})
      /\ j.cmd = "init" => Truth(world, j)
      /\ Good(world, disk.init) /\ Busy
  BY Working DEF CallIsSkipped
<1>2. /\ j \in Jobs /\ disk \in Disks /\ world \in Worlds /\ Whole(world) /\ Good(world, j.init)
      /\ h[1] \in Tolerated
      /\ j.cmd = "init" => disk.init.steps \subseteq j.init.steps
  BY <1>1 DEF Ready, CallIsSkipped, Verb
<1>3. Effective(world, world, h)
  <2>1. Achieved(world, h)
    BY <1>2 DEF Achieved, Tolerated
  <2> QED
    BY <1>2, <2>1, IdleCalls
<1>4. /\ world' = world /\ disk' = disk /\ k = [j EXCEPT !.todo = t]
  BY DEF CallIsSkipped
<1>5. h[1] \notin Bookkeeping
  BY <1>2 DEF Tolerated, Bookkeeping
<1> HIDE DEF j, t, h, k
<1>6. Works(world, disk, j, t, {})
  <2>1. \A B, c : c \in Calls /\ Safe(world, disk, j, {h} \cup B, c) => Safe(world, disk, j, {} \cup B, c)
    <3>1. ASSUME NEW B, NEW c \in Calls, Safe(world, disk, j, {h} \cup B, c) PROVE Safe(world, disk, j, B, c)
      BY <1>1, <1>3, <1>5, <3>1, PassOn
    <3>2. \A B : {} \cup B = B
      OBVIOUS
    <3> QED
      BY <3>1, <3>2
  <2> QED
    BY <1>1, <2>1, WorksOn
<1>7. JobInv(world, disk, k)
  BY <1>1, <1>2, <1>4, <1>6, JobGoesOn
<1> QED
  BY <1>1, <1>2, <1>4, <1>7, HoldsNext DEF k

\* The command ends, the call having had its effect or not.
LEMMA StopsHolds ==
  ASSUME LifeInv, Stops
  PROVE  LifeInv'
<1> DEFINE v == world'
<1>1. Ready(world, disk, job, Call) /\ Good(world, disk.init) /\ Busy
  BY Working DEF Stops
<1>2. disk' = disk /\ job' = NoJob /\ (v = world \/ (Possible /\ v \in Effects))
  BY DEF Stops
<1> HIDE DEF v
<1>3. v \in Worlds /\ Whole(v) /\ Good(v, disk.init)
  <2>1. CASE v = world
    BY <1>1, <2>1 DEF Ready
  <2>2. CASE Possible /\ v \in Effects
    <3>1. Effective(world, v, Call)
      BY <1>1, <2>2, CallsAreEffective
    <3> DEFINE s == disk.init
    <3>2. Good(world, s) /\ (job.cmd = "init" => s.steps \subseteq job.init.steps)
      BY <1>1 DEF Ready
    <3> HIDE DEF s
    <3>3. Good(v, s)
      BY <1>1, <3>1, <3>2, GoodOn
    <3> QED
      BY <3>1, <3>3 DEF Effective, s
  <2> QED
    BY <1>2, <2>1, <2>2
<1>4. disk \in Disks
  BY <1>1 DEF Ready
<1>5. JobInv(v, disk, job')
  BY <1>2 DEF JobInv
<1> QED
  BY <1>2, <1>3, <1>4, <1>5, HoldsNext DEF v

-----------------------------------------------------------------------------
(* What happens around the commands *)

LEMMA AroundHolds ==
  ASSUME LifeInv, Around, NEW v, world' = v, v \in Worlds, Whole(v),
         ~v.repo[CoreRepo].exists \/ v.repo[CoreRepo] = world.repo[CoreRepo]
  PROVE  LifeInv'
<1>1. disk' = disk /\ job' = NoJob
  BY DEF Around
<1>2. disk \in Disks /\ Good(world, disk.init)
  BY DEF LifeInv
<1>3. Good(v, disk.init)
  BY <1>2 DEF Good
<1>4. JobInv(v, disk, job')
  BY <1>1 DEF JobInv
<1> QED
  BY <1>1, <1>2, <1>3, <1>4, HoldsNext

\* Sibling deployments, merged registrations, repositories deleted by hand.
LEMMA SurroundingsHold ==
  ASSUME LifeInv, SiblingDeploys \/ MergeRegistration \/ DeleteByHand
  PROVE  LifeInv'
<1> DEFINE v == world'
<1>1. world \in Worlds /\ Whole(world) /\ Around
  BY DEF LifeInv, SealedIsComplete, Whole, Repo, SiblingDeploys, MergeRegistration, DeleteByHand
<1>2. /\ world = [repo |-> world.repo, role |-> world.role, bucket |-> world.bucket, infra |-> world.infra,
                  wired |-> world.wired, request |-> world.request]
      /\ world.repo \in [Projects -> Repos] /\ world.role \in SUBSET Projects
      /\ world.bucket \in [Projects -> 0..2] /\ world.infra \in [Projects -> SUBSET (Envs \cup {Global})]
      /\ world.wired \in SUBSET (Projects \X Envs) /\ world.request \in {"none", "open", "merged"}
      /\ \A q \in Projects : world.infra[q] \subseteq Targets(q)
  BY <1>1, WorldIs
<1>3. ASSUME NEW infra \in [Projects -> SUBSET (Envs \cup {Global})], \A p \in Projects : infra[p] \subseteq Targets(p),
             NEW request \in {"none", "open", "merged"},
             v = [repo |-> world.repo, role |-> world.role, bucket |-> world.bucket, infra |-> infra,
                  wired |-> world.wired, request |-> request]
      PROVE  v \in Worlds /\ Whole(v) /\ v.repo = world.repo
  <2> HIDE DEF v
  <2>1. v \in Worlds
    BY <1>2, <1>3, WorldIs
  <2> QED
    BY <1>1, <1>3, <2>1 DEF Whole
<1>4. v \in Worlds /\ Whole(v) /\ (~v.repo[CoreRepo].exists \/ v.repo[CoreRepo] = world.repo[CoreRepo])
  <2>1. CASE SiblingDeploys
    <3>1. PICK p \in Siblings, env \in Envs : v = Apply(p, env)
      BY <2>1 DEF SiblingDeploys
    <3> DEFINE infra == [world.infra EXCEPT ![p] = world.infra[p] \cup {env}]
    <3>2. v = [world EXCEPT !.infra = infra]
      BY <3>1 DEF Apply
    <3>3. /\ infra \in [Projects -> SUBSET (Envs \cup {Global})]
          /\ \A q \in Projects : infra[q] \subseteq Targets(q)
      BY <1>2 DEF Projects, Targets
    <3> HIDE DEF infra, v
    <3>4. v = [repo |-> world.repo, role |-> world.role, bucket |-> world.bucket, infra |-> infra,
               wired |-> world.wired, request |-> world.request]
      BY <1>2, <3>2
    <3>5. v \in Worlds /\ Whole(v) /\ v.repo = world.repo
      BY <1>2, <1>3, <3>3, <3>4
    <3> QED
      BY <3>5
  <2>2. CASE MergeRegistration
    <3> DEFINE request == "merged"
    <3>1. v = [world EXCEPT !.request = request]
      BY <2>2 DEF MergeRegistration
    <3>2. request \in {"none", "open", "merged"}
      OBVIOUS
    <3> HIDE DEF v, request
    <3>3. v = [repo |-> world.repo, role |-> world.role, bucket |-> world.bucket, infra |-> world.infra,
               wired |-> world.wired, request |-> request]
      BY <1>2, <3>1
    <3>4. v \in Worlds /\ Whole(v) /\ v.repo = world.repo
      BY <1>2, <1>3, <3>2, <3>3
    <3> QED
      BY <3>4
  <2>3. CASE DeleteByHand
    <3>1. PICK p \in Siblings : v = DeleteRepo(p)
      BY <2>3 DEF DeleteByHand
    <3>2. p \in Projects /\ CoreRepo \in Projects \ {p}
      BY DEF Projects, Siblings, CoreRepo
    <3> HIDE DEF v
    <3>3. v \in Worlds /\ Whole(v) /\ \A q \in Projects \ {p} : v.repo[q] = world.repo[q]
      BY <1>1, <3>1, <3>2, RepoIsDeleted
    <3> QED
      BY <3>2, <3>3
  <2> QED
    BY <2>1, <2>2, <2>3
<1> QED
  BY <1>1, <1>4, AroundHolds

-----------------------------------------------------------------------------
(* Commands *)

\* The steps of init: files before protection for good, the application after its session.
LEMMA InitStepsWork ==
  ASSUME NEW w, NEW d, NEW j, j.cmd = "init", j.sibling.steps = {}, NEW s, s = InitSteps
  PROVE  s \in Seq(Calls) /\ Works(w, d, j, s, {})
<1> DEFINE names == <<"verify_credentials", "create_repo", "oidc_trust", "terraform_backend",
                      "github_branches", "github_instance_files", "github_settings",
                      "app_sibling", "github_protection_sealed">>
           steps == Steps(CoreRepo, names)  c == <<"finish", CoreRepo, "">>  end == <<c>>
<1>1. CoreRepo \in Projects /\ CoreNames \in SUBSET Names /\ "finish" \in Verbs /\ CoreRepo # "shop"
  BY DEF Projects, Names, Verbs, CoreRepo
<1>2. names \in Seq(CoreNames)
  <2>1. /\ "verify_credentials" \in CoreNames /\ "create_repo" \in CoreNames
        /\ "oidc_trust" \in CoreNames /\ "terraform_backend" \in CoreNames
        /\ "github_branches" \in CoreNames /\ "github_instance_files" \in CoreNames
        /\ "github_settings" \in CoreNames /\ "app_sibling" \in CoreNames
        /\ "github_protection_sealed" \in CoreNames
    BY DEF CoreNames, Gate
  <2> QED
    BY <2>1, Nines
<1>3. s = steps \o end
  BY DEF InitSteps
<1>4. /\ Len(names) = 9 /\ names[2] = "create_repo" /\ names[6] = Gate /\ names[8] = "app_sibling"
      /\ \A i \in 1..9 : /\ names[i] = Gate => i = 6
                         /\ names[i] = "github_protection_sealed" => i = 9
                         /\ names[i] = "app_sibling" => i = 8
  BY DEF Gate
<1> HIDE DEF names
<1>5. /\ steps \in Seq(Calls) /\ Len(steps) = 9 /\ DOMAIN steps = 1..9
      /\ \A i \in 1..9 : steps[i] = <<"step", CoreRepo, names[i]>> /\ names[i] \in CoreNames
  BY <1>1, <1>2, <1>4, StepsAre, LenProperties
<1>6. c \in Calls /\ c[1] = "finish" /\ c[2] = CoreRepo
  BY <1>1, CallsAre
<1> HIDE DEF steps, c
<1>7. ASSUME NEW i \in 1..9 PROVE Safe(w, d, j, {} \cup Ahead(steps, i), steps[i])
  <2> DEFINE B == {} \cup Ahead(steps, i)  x == steps[i]  name == names[i]
  <2>1. x = <<"step", CoreRepo, name>> /\ name \in CoreNames
    BY <1>5
  <2>2. \A k \in 1..9 : k < i => <<"step", CoreRepo, names[k]>> \in B
    <3>1. ASSUME NEW k \in 1..9, k < i PROVE steps[k] \in B
      <4>1. k \in 1..(i - 1)
        BY <3>1
      <4> QED
        BY <4>1 DEF Ahead
    <3> QED
      BY <1>5, <3>1
  <2>3. \A b \in B : \E k \in 1..9 : k < i /\ b = <<"step", CoreRepo, names[k]>>
    <3>1. ASSUME NEW b \in B PROVE \E k \in 1..9 : k < i /\ b = <<"step", CoreRepo, names[k]>>
      <4>1. PICK k \in 1..(i - 1) : b = steps[k]
        BY DEF Ahead
      <4>2. k \in 1..9 /\ k < i
        BY <4>1
      <4>3. b = <<"step", CoreRepo, names[k]>>
        BY <1>5, <4>1, <4>2
      <4> QED
        BY <4>2, <4>3
    <3> QED
      BY <3>1
  <2>4. /\ name = Gate => i = 6
        /\ name = "github_protection_sealed" => i = 9
        /\ i = 8 => name = "app_sibling"
    BY <1>4
  <2> HIDE DEF B, x, name
  <2>5. x[1] = "step" /\ x[2] = CoreRepo /\ x[3] = name
    BY <2>1
  <2>6. Placed(j, x)
    BY <1>1, <2>1, <2>5 DEF Placed, Removes
  <2>7. Begins(j, B, x) /\ DestroyedFirst(w, j, B, x)
    BY <2>5 DEF Begins, DestroyedFirst, Removes
  <2>8. /\ name = Gate => Comes(j, B, "create_repo")
        /\ name = "github_protection_sealed" => Comes(j, B, Gate)
    <3>1. 2 \in 1..9 /\ 6 \in 1..9
      OBVIOUS
    <3>2. i = 6 => <<"step", CoreRepo, names[2]>> \in B
      BY <2>2, <3>1
    <3>3. i = 9 => <<"step", CoreRepo, names[6]>> \in B
      BY <2>2, <3>1
    <3> QED
      BY <1>4, <2>4, <3>2, <3>3 DEF Comes
  <2>9. FilesFirst(w, j, B, x)
    <3>1. x # <<"mark", CoreRepo, Gate>>
      <4>1. <<"mark", CoreRepo, Gate>>[1] = "mark"
        OBVIOUS
      <4> QED
        BY <2>5, <4>1
    <3> QED
      BY <2>5, <2>8, <3>1 DEF FilesFirst
  <2>10. name # "app_sibling" => Comes(j, B, "app_sibling") \/ Quiet(j, B)
    <3>1. CASE i = 9
      <4>1. 8 \in 1..9 /\ 8 < i
        BY <3>1
      <4>2. <<"step", CoreRepo, names[8]>> \in B
        BY <2>2, <4>1
      <4> QED
        BY <1>4, <4>2 DEF Comes
    <3>2. CASE i < 8
      <4>1. ASSUME NEW b \in B PROVE b[2] = CoreRepo /\ b # <<"step", CoreRepo, "app_sibling">>
        <5>1. PICK k \in 1..9 : k < i /\ b = <<"step", CoreRepo, names[k]>>
          BY <2>3
        <5>2. names[k] # "app_sibling"
          BY <1>4, <3>2, <5>1
        <5> QED
          BY <5>1, <5>2
      <4> QED
        BY <4>1 DEF Quiet
    <3> QED
      BY <2>4, <3>1, <3>2
  <2>11. SessionFirst(w, d, j, B, x)
    BY <2>5, <2>10 DEF SessionFirst, CoreRepo
  <2>12. Safe(w, d, j, B, x)
    BY <2>6, <2>7, <2>9, <2>11 DEF Safe
  <2> QED
    BY <2>12 DEF B, x
<1>8. Works(w, d, j, steps, {})
  BY <1>5, <1>7 DEF Works
<1> DEFINE A == {} \cup Range(steps)
<1>9. end \in Seq(Calls) /\ Works(w, d, j, end, A)
  <2>1. Placed(j, c)
    BY <1>6 DEF Placed, Removes
  <2> HIDE DEF A
  <2>2. Safe(w, d, j, A, c)
    BY <1>6, <2>1, Harmless DEF Removes
  <2> QED
    BY <1>6, <2>2, OneCall
<1> HIDE DEF end
<1>10. Works(w, d, j, steps \o end, {})
  BY <1>5, <1>8, <1>9, WorksBoth
<1> QED
  BY <1>3, <1>5, <1>9, <1>10, ConcatProperties

\* A job begins.
LEMMA JobBegins ==
  ASSUME LifeInv, NEW f, NEW k \in Jobs, world' = world, disk' = f, job' = k, f \in Disks,
         Good(world, f.init), Good(world, k.init),
         k.cmd = "init" => f.init.steps \subseteq k.init.steps /\ k.sibling.steps = {},
         Works(world, f, k, k.todo, {})
  PROVE  LifeInv'
<1>1. world \in Worlds /\ Whole(world)
  BY DEF LifeInv, SealedIsComplete, Whole, Repo
<1>2. k.cmd = "init" => Truth(world, k)
  BY DEF Truth
<1>3. JobInv(world, f, k)
  BY <1>2 DEF JobInv
<1> QED
  BY <1>1, <1>3, HoldsNext

\* A new job.
JobWith(command, calls, init, sibling, resumed, skip, overlooked) ==
  [cmd |-> command, todo |-> calls, init |-> init, sibling |-> sibling, resumed |-> resumed,
   skip |-> skip, overlooked |-> overlooked]

LEMMA NewJobs ==
  ASSUME NEW command \in {"init", "sibling", "deploy", "destroy", "teardown"}, NEW s \in Seq(Calls),
         NEW init \in Sessions, NEW sibling \in Sessions, NEW resumed \in BOOLEAN, NEW skip \in BOOLEAN,
         NEW overlooked \in SUBSET (Envs \cup {Global}), NEW k,
         k = JobWith(command, s, init, sibling, resumed, skip, overlooked)
  PROVE  /\ k \in Jobs /\ k.cmd = command /\ k.todo = s /\ k.init = init /\ k.sibling = sibling
         /\ k.skip = skip /\ k.overlooked = overlooked
BY DEF Jobs, JobWith

\* init resumes what is saved, or begins anew.
LEMMA StartInitHolds ==
  ASSUME LifeInv, StartInit
  PROVE  LifeInv'
<1>1. PICK fresh \in BOOLEAN :
        LET session == IF fresh \/ ~disk.init.exists THEN NewSession ELSE disk.init
        IN  /\ Launch([Command("init", InitSteps) EXCEPT !.init = session, !.resumed = session # NewSession])
            /\ disk' = [disk EXCEPT !.init = session]
            /\ UNCHANGED world
  BY DEF StartInit
<1> DEFINE session == IF fresh \/ ~disk.init.exists THEN NewSession ELSE disk.init
           resumed == session # NewSession  s == InitSteps  f == disk'  k == job'
<1>2. /\ world' = world /\ f = [disk EXCEPT !.init = session]
      /\ k = [Command("init", s) EXCEPT !.init = session, !.resumed = resumed]
  BY <1>1 DEF Launch
<1>3. disk \in Disks /\ Good(world, disk.init)
  BY DEF LifeInv
<1>4. /\ disk.init \in Sessions /\ disk.sibling \in [Siblings -> Sessions] /\ disk.saved \in 0..2
  BY <1>3, DiskIs
<1>5. session \in Sessions /\ Good(world, session)
  BY <1>3, <1>4, NoSessionIs DEF Good
<1>6. resumed \in BOOLEAN
  OBVIOUS
<1>7. s = InitSteps
  OBVIOUS
<1> HIDE DEF session, resumed, s, f, k
<1>8. f = DiskWith(session, disk.sibling, disk.saved)
  BY <1>2, <1>3, DiskIs
<1>9. f \in Disks /\ f.init = session
  BY <1>4, <1>5, <1>8, NewDisks
<1>10. k = JobWith("init", s, session, NoSession, resumed, FALSE, {})
  BY <1>2 DEF Command, JobWith
<1>11. s \in Seq(Calls)
  <2>1. \E j : j.cmd = "init" /\ j.sibling.steps = {}
    <3>1. [cmd |-> "init", sibling |-> NoSession].cmd = "init" /\ [cmd |-> "init", sibling |-> NoSession].sibling.steps = {}
      BY NoSessionIs
    <3> QED
      BY <3>1
  <2> QED
    BY <1>7, <2>1, InitStepsWork
<1>12. k \in Jobs /\ k.cmd = "init" /\ k.todo = s /\ k.init = session /\ k.sibling = NoSession
  <2> DEFINE command == "init"  skip == FALSE  none == {}
  <2>1. command \in {"init", "sibling", "deploy", "destroy", "teardown"} /\ skip \in BOOLEAN /\ none \in SUBSET (Envs \cup {Global})
    OBVIOUS
  <2>2. k = JobWith(command, s, session, NoSession, resumed, skip, none)
    BY <1>10
  <2> HIDE DEF command, skip, none
  <2>3. k \in Jobs /\ k.cmd = command /\ k.todo = s /\ k.init = session /\ k.sibling = NoSession
    BY <1>5, <1>6, <1>11, <2>1, <2>2, NoSessionIs, NewJobs
  <2> QED
    BY <2>3 DEF command
<1>13. Works(world, f, k, s, {})
  BY <1>7, <1>12, NoSessionIs, InitStepsWork
<1> QED
  BY <1>2, <1>5, <1>9, <1>12, <1>13, NoSessionIs, JobBegins DEF f, k

\* So does sibling create.
LEMMA StartSiblingHolds ==
  ASSUME LifeInv, StartSibling
  PROVE  LifeInv'
<1>1. PICK fresh \in BOOLEAN :
        LET session == IF fresh \/ ~disk.sibling["shop"].exists THEN NewSession
                       ELSE disk.sibling["shop"]
        IN  /\ Launch([Command("sibling", SiblingSteps("shop")) EXCEPT !.sibling = session])
            /\ disk' = [disk EXCEPT !.sibling["shop"] = session]
  BY DEF StartSibling
<1> DEFINE session == IF fresh \/ ~disk.sibling["shop"].exists THEN NewSession ELSE disk.sibling["shop"]
           s == SiblingSteps("shop")  f == disk'  k == job'
           siblings == [disk.sibling EXCEPT !["shop"] = session]
<1>2. /\ world' = world /\ f = [disk EXCEPT !.sibling["shop"] = session]
      /\ k = [Command("sibling", s) EXCEPT !.sibling = session]
  BY <1>1 DEF Launch, StartSibling
<1>3. disk \in Disks /\ Good(world, disk.init) /\ "shop" \in Siblings
  BY DEF LifeInv, Siblings
<1>4. /\ disk.init \in Sessions /\ disk.sibling \in [Siblings -> Sessions] /\ disk.saved \in 0..2
  BY <1>3, DiskIs
<1>5. session \in Sessions
  BY <1>3, <1>4, NoSessionIs
<1>6. s = SiblingSteps("shop")
  OBVIOUS
<1> HIDE DEF session, s, f, k
<1>7. siblings \in [Siblings -> Sessions]
  BY <1>4, <1>5
<1>8. f = DiskWith(disk.init, siblings, disk.saved)
  BY <1>2, <1>3, DiskIs
<1> HIDE DEF siblings
<1>9. f \in Disks /\ f.init = disk.init
  BY <1>4, <1>7, <1>8, NewDisks
<1>10. k = JobWith("sibling", s, NoSession, session, FALSE, FALSE, {})
  BY <1>2 DEF Command, JobWith
<1>11. s \in Seq(Calls)
  <2>1. \E j : j.cmd = IF "shop" = "shop" THEN "sibling" ELSE "init"
    <3>1. [cmd |-> "sibling"].cmd = "sibling"
      OBVIOUS
    <3> QED
      BY <3>1
  <2>2. "shop" # "app"
    OBVIOUS
  <2> QED
    BY <1>3, <1>6, <2>1, <2>2, SiblingStepsWork
<1>12. k \in Jobs /\ k.cmd = "sibling" /\ k.todo = s /\ k.init = NoSession
  <2> DEFINE command == "sibling"  skip == FALSE  none == {}
  <2>1. command \in {"init", "sibling", "deploy", "destroy", "teardown"} /\ skip \in BOOLEAN /\ none \in SUBSET (Envs \cup {Global})
    OBVIOUS
  <2>2. k = JobWith(command, s, NoSession, session, skip, skip, none)
    BY <1>10
  <2> HIDE DEF command, skip, none
  <2>3. k \in Jobs /\ k.cmd = command /\ k.todo = s /\ k.init = NoSession
    BY <1>5, <1>11, <2>1, <2>2, NoSessionIs, NewJobs
  <2> QED
    BY <2>3 DEF command
<1>13. Works(world, f, k, s, {})
  <2>1. k.cmd = (IF "shop" = "shop" THEN "sibling" ELSE "init") /\ "shop" # "app"
    BY <1>12
  <2> QED
    BY <1>3, <1>6, <2>1, SiblingStepsWork
<1>14. Good(world, k.init) /\ Good(world, f.init)
  BY <1>3, <1>9, <1>12, NoSessionIs DEF Good
<1> QED
  BY <1>2, <1>9, <1>12, <1>13, <1>14, JobBegins DEF f, k

\* Commands without a session.
LEMMA CommandHolds ==
  ASSUME LifeInv, NEW command \in {"deploy", "destroy", "teardown"}, NEW s \in Seq(Calls), NEW skip \in BOOLEAN,
         NEW overlooked \in SUBSET (Envs \cup {Global}), world' = world, disk' = disk, NEW k, job' = k,
         NEW resumed \in BOOLEAN,
         k = JobWith(command, s, NoSession, NoSession, resumed, skip, overlooked), Works(world, disk, k, s, {})
  PROVE  LifeInv'
<1>1. k \in Jobs /\ k.cmd = command /\ k.todo = s /\ k.init = NoSession
  <2>1. command \in {"init", "sibling", "deploy", "destroy", "teardown"}
    OBVIOUS
  <2> QED
    BY <2>1, NoSessionIs, NewJobs
<1>2. disk \in Disks /\ Good(world, disk.init) /\ Good(world, k.init) /\ k.cmd # "init"
  BY <1>1, NoSessionIs DEF LifeInv, Good
<1> QED
  BY <1>1, <1>2, JobBegins

LEMMA StartDeployHolds ==
  ASSUME LifeInv, StartDeploy
  PROVE  LifeInv'
<1>1. PICK env \in Envs : Launch(Command("deploy", DeployCalls(env))) /\ UNCHANGED <<world, disk>>
  BY DEF StartDeploy
<1> DEFINE k == job'  s == DeployCalls(env)
           c1 == <<"applyGlobal", CoreRepo, Global>>  c2 == <<"apply", CoreRepo, env>>
           c3 == <<"wire", CoreRepo, env>>
<1>2. world' = world /\ disk' = disk /\ k = Command("deploy", s)
  BY <1>1 DEF Launch
<1>3. s = <<c1, c2, c3>>
  BY DEF DeployCalls
<1> HIDE DEF s, k
<1>4. k = JobWith("deploy", s, NoSession, NoSession, FALSE, FALSE, {}) /\ k.cmd = "deploy"
  BY <1>2 DEF Command, JobWith
<1>5. c1 \in Calls /\ c2 \in Calls /\ c3 \in Calls
  <2>1. "applyGlobal" \in Verbs /\ "apply" \in Verbs /\ "wire" \in Verbs /\ CoreRepo \in Projects
    BY DEF Verbs, Projects
  <2> QED
    BY <2>1, CallsAre
<1>6. /\ c1[1] = "applyGlobal" /\ c1[2] = CoreRepo /\ c1[3] \in Targets(CoreRepo)
      /\ c2[1] = "apply" /\ c2[2] = CoreRepo /\ c2[3] \in Targets(CoreRepo)
      /\ c3[1] = "wire" /\ c3[2] = CoreRepo /\ c3[3] \in Envs
  BY DEF Targets
<1> HIDE DEF c1, c2, c3
<1>7. Placed(k, c1) /\ Placed(k, c2) /\ Placed(k, c3)
  BY <1>4, <1>6 DEF Placed, Removes
<1>8. ASSUME NEW A, NEW c \in {c1, c2, c3} PROVE Safe(world, disk, k, A, c)
  BY <1>6, <1>7, Harmless DEF Removes
<1>9. s \in Seq(Calls) /\ Range(s) = {c1, c2, c3}
  <2>1. s \in Seq(Calls)
    BY <1>3, <1>5
  <2>2. DOMAIN s = 1..3 /\ s[1] = c1 /\ s[2] = c2 /\ s[3] = c3
    BY <1>3
  <2> QED
    BY <2>1, <2>2 DEF Range
<1>10. Works(world, disk, k, s, {})
  <2>1. \A c \in Range(s) : \A A \in SUBSET Range(s) : Safe(world, disk, k, {} \cup A, c)
    BY <1>8, <1>9
  <2> QED
    BY <1>9, <2>1, WorksAnyhow
<1> DEFINE command == "deploy"  skip == FALSE  none == {}
<1>11. /\ command \in {"deploy", "destroy", "teardown"} /\ skip \in BOOLEAN /\ none \in SUBSET (Envs \cup {Global})
       /\ k = JobWith(command, s, NoSession, NoSession, skip, skip, none)
  BY <1>4
<1>12. job' = k
  BY DEF k
<1> HIDE DEF command, skip, none
<1> QED
  BY <1>2, <1>9, <1>10, <1>11, <1>12, CommandHolds

LEMMA StartDestroyHolds ==
  ASSUME LifeInv, StartDestroy
  PROVE  LifeInv'
<1>1. PICK env \in Envs : Launch(Command("destroy", <<<<"destroy", CoreRepo, env>>>>)) /\ UNCHANGED <<world, disk>>
  BY DEF StartDestroy
<1> DEFINE k == job'  c == <<"destroy", CoreRepo, env>>  s == <<c>>
<1>2. world' = world /\ disk' = disk /\ k = Command("destroy", s)
  BY <1>1 DEF Launch
<1>3. c \in Calls
  <2>1. "destroy" \in Verbs /\ CoreRepo \in Projects
    BY DEF Verbs, Projects
  <2> QED
    BY <2>1, CallsAre
<1>4. c[1] = "destroy" /\ c[2] = CoreRepo
  OBVIOUS
<1> HIDE DEF k, c
<1>5. k = JobWith("destroy", s, NoSession, NoSession, FALSE, FALSE, {}) /\ k.cmd = "destroy"
  BY <1>2 DEF Command, JobWith
<1>6. Placed(k, c)
  BY <1>4, <1>5 DEF Placed, Removes
<1>7. Safe(world, disk, k, {}, c)
  BY <1>4, <1>6, Harmless DEF Removes
<1>8. s \in Seq(Calls) /\ Works(world, disk, k, s, {})
  BY <1>3, <1>7, OneCall
<1> DEFINE command == "destroy"  skip == FALSE  none == {}
<1>9. /\ command \in {"deploy", "destroy", "teardown"} /\ skip \in BOOLEAN /\ none \in SUBSET (Envs \cup {Global})
      /\ k = JobWith(command, s, NoSession, NoSession, skip, skip, none)
  BY <1>5
<1>10. job' = k
  BY DEF k
<1> HIDE DEF command, skip, none, s
<1> QED
  BY <1>2, <1>8, <1>9, <1>10, CommandHolds

-----------------------------------------------------------------------------
(* A teardown begins *)

\* The environments, in some order.
LEMMA EnvsInOrder ==
  ASSUME NEW verb \in Verbs, NEW p \in Projects, NEW E \in SUBSET Envs, NEW s, s = ForEnvs(verb, p, E)
  PROVE  /\ s \in Seq(Calls)
         /\ \A c \in Range(s) : c[1] = verb
         /\ \A e \in E : <<verb, p, e>> \in Range(s)
<1> DEFINE n == Cardinality(E)  order == InOrder(E)
<1>1. n \in Nat /\ ExistsBijection(1..n, E)
  <2>1. IsFiniteSet(E)
    BY EnvsAssumption, FS_Subset
  <2> QED
    BY <2>1, FS_CardinalityType
<1>2. \E f \in [1..n -> E] : \A e \in E : \E i \in DOMAIN f : f[i] = e
  <2>1. PICK f \in [1..n -> E] : \A e \in E : \E i \in 1..n : f[i] = e
    BY <1>1 DEF ExistsBijection, Bijection, Surjection
  <2>2. DOMAIN f = 1..n
    OBVIOUS
  <2> QED
    BY <2>1, <2>2
<1>3. order \in [1..n -> E] /\ \A e \in E : \E i \in DOMAIN order : order[i] = e
  <2>1. order = CHOOSE f \in [1..n -> E] : \A e \in E : \E i \in DOMAIN f : f[i] = e
    BY DEF InOrder
  <2> HIDE DEF order
  <2> QED
    BY <1>2, <2>1
<1>4. s = [i \in 1..n |-> <<verb, p, order[i]>>]
  BY DEF ForEnvs
<1> HIDE DEF n, order
<1>5. DOMAIN order = 1..n /\ \A i \in 1..n : order[i] \in E /\ <<verb, p, order[i]>> \in Calls
  <2>1. DOMAIN order = 1..n /\ \A i \in 1..n : order[i] \in E /\ order[i] \in Names \cup {"", Global} \cup Lines \cup Envs
    BY <1>3
  <2> QED
    BY <2>1, CallsAre
<1>6. s \in Seq(Calls) /\ DOMAIN s = 1..n
  <2>1. s \in [1..n -> Calls]
    BY <1>4, <1>5
  <2> QED
    BY <1>1, <2>1, SeqDef
<1>7. \A c \in Range(s) : c[1] = verb
  BY <1>4, <1>6 DEF Range
<1>8. ASSUME NEW e \in E PROVE <<verb, p, e>> \in Range(s)
  <2>1. PICK i \in 1..n : order[i] = e
    BY <1>3, <1>5
  <2>2. s[i] = <<verb, p, e>>
    BY <1>4, <2>1
  <2> QED
    BY <1>6, <2>1, <2>2 DEF Range
<1> QED
  BY <1>6, <1>7, <1>8

\* A part of a teardown's calls, after those that destroy.
Cleans(w, j, D, s) ==
  /\ s \in Seq(Calls)
  /\ \A c \in Range(s) :
       /\ c[1] \in Teardown
       /\ c[1] = "destroyGlobal" => c[3] \in Targets(c[2])
       /\ c[1] \in Removes /\ ~j.skip => \A e \in w.infra[c[2]] \ Allowed(j, c[2]) : <<"destroy", c[2], e>> \in D

LEMMA CleansWorks ==
  ASSUME NEW w, NEW d, NEW j, NEW D, NEW s, Cleans(w, j, D, s), j.cmd = "teardown"
  PROVE  Works(w, d, j, s, D)
<1>1. ASSUME NEW c \in Range(s), NEW A \in SUBSET Range(s)
      PROVE  Safe(w, d, j, D \cup A, c)
  <2>1. /\ c[1] \in Teardown
        /\ c[1] = "destroyGlobal" => c[3] \in Targets(c[2])
        /\ c[1] \in Removes /\ ~j.skip => \A e \in w.infra[c[2]] \ Allowed(j, c[2]) : <<"destroy", c[2], e>> \in D
    BY DEF Cleans
  <2>2. Placed(j, c)
    BY <2>1 DEF Placed, Teardown, Removes
  <2>3. DestroyedFirst(w, j, D \cup A, c)
    BY <2>1 DEF DestroyedFirst
  <2> QED
    BY <2>1, <2>2, <2>3, SafeInTeardown
<1>2. s \in Seq(Calls)
  BY DEF Cleans
<1> QED
  BY <1>1, <1>2, WorksAnyhow

\* A list of calls of one verb that destroys.
LEMMA DestroysClean ==
  ASSUME NEW w, NEW j, NEW D, NEW s \in Seq(Calls), \A c \in Range(s) : c[1] = "destroy"
  PROVE  Cleans(w, j, D, s)
BY DEF Cleans, Teardown, Removes

\* No calls; the three that remove a project.
LEMMA NothingCleans ==
  ASSUME NEW w, NEW j, NEW D, NEW s, s = <<>>
  PROVE  Cleans(w, j, D, s) /\ Range(s) = {}
<1>1. s \in Seq(Calls) /\ DOMAIN s = {}
  OBVIOUS
<1>2. Range(s) = {}
  BY <1>1 DEF Range
<1> QED
  BY <1>1, <1>2 DEF Cleans

LEMMA RemovalCleans ==
  ASSUME NEW w, NEW j, NEW D, NEW p \in Projects, NEW s, s = Removal(p),
         ~j.skip => \A e \in w.infra[p] \ Allowed(j, p) : <<"destroy", p, e>> \in D
  PROVE  Cleans(w, j, D, s)
<1> DEFINE c1 == <<"deleteRepo", p, "">>  c2 == <<"deleteRole", p, "">>  c3 == <<"deleteBucket", p, "">>
<1>1. s = <<c1, c2, c3>>
  BY DEF Removal
<1>2. c1 \in Calls /\ c2 \in Calls /\ c3 \in Calls
  <2>1. "deleteRepo" \in Verbs /\ "deleteRole" \in Verbs /\ "deleteBucket" \in Verbs
    BY DEF Verbs, Removes
  <2> QED
    BY <2>1, CallsAre
<1>3. /\ c1[1] = "deleteRepo" /\ c2[1] = "deleteRole" /\ c3[1] = "deleteBucket"
      /\ c1[2] = p /\ c2[2] = p /\ c3[2] = p
  OBVIOUS
<1> HIDE DEF c1, c2, c3
<1>4. s \in Seq(Calls) /\ \A c \in Range(s) : c \in {c1, c2, c3}
  <2>1. DOMAIN s = 1..3 /\ s[1] = c1 /\ s[2] = c2 /\ s[3] = c3
    BY <1>1
  <2> QED
    BY <1>1, <1>2, <2>1 DEF Range
<1>5. \A x \in Removes : x \in Teardown /\ x # "destroyGlobal"
  BY DEF Removes, Teardown
<1>6. \A c \in {c1, c2, c3} : c[1] \in Removes /\ c[2] = p
  BY <1>3 DEF Removes
<1> QED
  BY <1>4, <1>5, <1>6 DEF Cleans

\* What the teardown destroys before it removes anything.
LEMMA DestructionIs ==
  ASSUME NEW live, NEW listed, NEW s, s = Destruction(live, listed)
  PROVE  /\ s \in Seq(Calls) /\ \A c \in Range(s) : c[1] = "destroy"
         /\ \A p \in Siblings \cap live : \A e \in Envs : <<"destroy", p, e>> \in Range(s)
         /\ \A e \in Envs \cap listed : <<"destroy", CoreRepo, e>> \in Range(s)
<1> DEFINE app == OnlyFor("app", live, ForEnvs("destroy", "app", Envs))
           shop == OnlyFor("shop", live, ForEnvs("destroy", "shop", Envs))
           core == ForEnvs("destroy", CoreRepo, Envs \cap listed)
           both == app \o shop
<1>1. "destroy" \in Verbs /\ "app" \in Projects /\ "shop" \in Projects /\ CoreRepo \in Projects
  BY DEF Verbs, Projects, Siblings
<1>2. ASSUME NEW p \in Projects, NEW b, b = OnlyFor(p, live, ForEnvs("destroy", p, Envs))
      PROVE  /\ b \in Seq(Calls) /\ \A c \in Range(b) : c[1] = "destroy"
             /\ p \in live => \A e \in Envs : <<"destroy", p, e>> \in Range(b)
  <2>1. CASE p \in live
    <3>1. b = ForEnvs("destroy", p, Envs) /\ Envs \in SUBSET Envs
      BY <1>2, <2>1 DEF OnlyFor
    <3> QED
      BY <1>1, <3>1, EnvsInOrder
  <2>2. CASE p \notin live
    <3>1. b = <<>>
      BY <1>2, <2>2 DEF OnlyFor
    <3>2. b \in Seq(Calls) /\ DOMAIN b = {}
      BY <3>1
    <3> QED
      BY <2>2, <3>2 DEF Range
  <2> QED
    BY <2>1, <2>2
<1>3. app = OnlyFor("app", live, ForEnvs("destroy", "app", Envs)) /\ shop = OnlyFor("shop", live, ForEnvs("destroy", "shop", Envs))
  OBVIOUS
<1>4. core = ForEnvs("destroy", CoreRepo, Envs \cap listed) /\ Envs \cap listed \in SUBSET Envs
  OBVIOUS
<1>5. s = both \o core /\ both = app \o shop
  BY DEF Destruction
<1> HIDE DEF app, shop, core, both
<1>6. /\ app \in Seq(Calls) /\ \A c \in Range(app) : c[1] = "destroy"
      /\ "app" \in live => \A e \in Envs : <<"destroy", "app", e>> \in Range(app)
  BY <1>1, <1>2, <1>3
<1>7. /\ shop \in Seq(Calls) /\ \A c \in Range(shop) : c[1] = "destroy"
      /\ "shop" \in live => \A e \in Envs : <<"destroy", "shop", e>> \in Range(shop)
  BY <1>1, <1>2, <1>3
<1>8. /\ core \in Seq(Calls) /\ \A c \in Range(core) : c[1] = "destroy"
      /\ \A e \in Envs \cap listed : <<"destroy", CoreRepo, e>> \in Range(core)
  BY <1>1, <1>4, EnvsInOrder
<1>9. both \in Seq(Calls) /\ \A x : x \in Range(both) <=> x \in Range(app) \/ x \in Range(shop)
  BY <1>5, <1>6, <1>7, RangeOfBoth
<1>10. s \in Seq(Calls) /\ \A x : x \in Range(s) <=> x \in Range(both) \/ x \in Range(core)
  <2>1. both \in Seq(Calls) /\ core \in Seq(Calls) /\ s = both \o core
    BY <1>5, <1>8, <1>9
  <2> QED
    BY <2>1, RangeOfBoth
<1> QED
  BY <1>6, <1>7, <1>8, <1>9, <1>10 DEF Siblings

\* The calls of a teardown up to some point: those that destroy, and others.
Begun(w, d, j, D, s) == s \in Seq(Calls) /\ Works(w, d, j, s, {}) /\ \A c \in D : c \in Range(s)

LEMMA BegunOn ==
  ASSUME NEW w, NEW d, NEW j, j.cmd = "teardown", NEW D, NEW s, NEW t, Begun(w, d, j, D, s), Cleans(w, j, D, t)
  PROVE  Begun(w, d, j, D, s \o t)
<1> DEFINE u == s \o t
<1>1. s \in Seq(Calls) /\ t \in Seq(Calls) /\ u = s \o t
  BY DEF Begun, Cleans
<1> HIDE DEF u
<1>2. u \in Seq(Calls) /\ \A x : x \in Range(u) <=> x \in Range(s) \/ x \in Range(t)
  BY <1>1, RangeOfBoth
<1>3. Works(w, d, j, t, {} \cup Range(s))
  <2>1. Cleans(w, j, {} \cup Range(s), t)
    BY DEF Cleans, Begun
  <2> QED
    BY <2>1, CleansWorks
<1>4. Works(w, d, j, s, {})
  BY DEF Begun
<1>5. Works(w, d, j, s \o t, {})
  BY <1>1, <1>3, <1>4, WorksBoth
<1>6. Begun(w, d, j, D, u)
  BY <1>1, <1>2, <1>5 DEF Begun
<1> QED
  BY <1>1, <1>6

\* The calls of a teardown: what a sibling or the core has in an environment is destroyed first.
LEMMA TeardownWorks ==
  ASSUME world \in Worlds, NEW d, NEW j, j.cmd = "teardown", NEW skip \in BOOLEAN, NEW via,
         NEW listed \in SUBSET world.infra[CoreRepo], j.skip = skip,
         j.overlooked = world.infra[CoreRepo] \ listed, NEW s, s = TeardownCalls(listed, skip, via)
  PROVE  s \in Seq(Calls) /\ Works(world, d, j, s, {})
<1> DEFINE first == IF skip THEN <<>> ELSE Destruction(Live, listed)
           zone == IF Global \in listed /\ DomainKnown(via) THEN <<<<"destroyGlobal", CoreRepo, Global>>>> ELSE <<>>
           app == OnlyFor("app", Live, Removal("app"))  shop == OnlyFor("shop", Live, Removal("shop"))
           core == Removal(CoreRepo)
           D == Range(first)
<1>1. s = first \o zone \o app \o shop \o core \o Finish
  BY DEF TeardownCalls
<1>2. /\ Projects = {CoreRepo} \cup Siblings /\ "app" \in Siblings /\ "shop" \in Siblings
      /\ Live \subseteq Siblings /\ CoreRepo \notin Siblings
      /\ \A p \in Siblings : world.infra[p] \subseteq Envs
      /\ world.infra[CoreRepo] \subseteq Envs \cup {Global}
  BY DEF Projects, Siblings, CoreRepo, Live, Registered, Worlds, Targets
<1>3. /\ first \in Seq(Calls) /\ \A c \in Range(first) : c[1] = "destroy"
      /\ ~skip => /\ \A p \in Siblings \cap Live : \A e \in Envs : <<"destroy", p, e>> \in Range(first)
                  /\ \A e \in Envs \cap listed : <<"destroy", CoreRepo, e>> \in Range(first)
  <2>1. CASE skip
    BY <2>1, NothingCleans
  <2>2. CASE ~skip
    <3>1. first = Destruction(Live, listed)
      BY <2>2
    <3> HIDE DEF first
    <3> QED
      BY <3>1, DestructionIs
  <2> QED
    BY <2>1, <2>2
<1>4. Cleans(world, j, D, zone)
  <2>1. CASE zone = <<>>
    BY <2>1, NothingCleans
  <2>2. CASE zone # <<>>
    <3> DEFINE c == <<"destroyGlobal", CoreRepo, Global>>
    <3>1. zone = <<c>> /\ c[1] = "destroyGlobal" /\ c[2] = CoreRepo /\ c[3] = Global
      BY <2>2
    <3>2. c \in Calls
      <4>1. "destroyGlobal" \in Verbs
        BY DEF Verbs
      <4> QED
        BY <1>2, <4>1, CallsAre
    <3> HIDE DEF c, zone
    <3>3. zone \in Seq(Calls) /\ \A x \in Range(zone) : x = c
      <4>1. zone \in Seq(Calls) /\ DOMAIN zone = {1} /\ zone[1] = c
        BY <3>1, <3>2
      <4> QED
        BY <4>1 DEF Range
    <3> QED
      BY <3>1, <3>3 DEF Cleans, Teardown, Removes, Targets
  <2> QED
    BY <2>1, <2>2
<1>5. ASSUME NEW p \in Siblings, NEW b, b = OnlyFor(p, Live, Removal(p))
      PROVE  Cleans(world, j, D, b)
  <2>1. CASE p \in Live
    <3>1. b = Removal(p) /\ p \in Projects
      BY <1>2, <1>5, <2>1 DEF OnlyFor
    <3>2. ~j.skip => \A e \in world.infra[p] \ Allowed(j, p) : <<"destroy", p, e>> \in D
      BY <1>2, <1>3, <2>1
    <3> HIDE DEF D
    <3> QED
      BY <3>1, <3>2, RemovalCleans
  <2>2. CASE p \notin Live
    <3>1. b = <<>>
      BY <1>5, <2>2 DEF OnlyFor
    <3> QED
      BY <3>1, NothingCleans
  <2> QED
    BY <2>1, <2>2
<1>6. Cleans(world, j, D, app) /\ Cleans(world, j, D, shop)
  BY <1>2, <1>5
<1>7. Cleans(world, j, D, core)
  <2>1. ~j.skip => \A e \in world.infra[CoreRepo] \ Allowed(j, CoreRepo) : <<"destroy", CoreRepo, e>> \in D
    BY <1>2, <1>3 DEF Allowed
  <2>2. core = Removal(CoreRepo) /\ CoreRepo \in Projects
    BY <1>2
  <2> HIDE DEF D, core
  <2> QED
    BY <2>1, <2>2, RemovalCleans
<1>8. Cleans(world, j, D, Finish)
  <2> DEFINE c == <<"forget", CoreRepo, "">>
  <2>1. Finish = <<c>> /\ c[1] = "forget"
    BY DEF Finish
  <2>2. c \in Calls
    <3>1. "forget" \in Verbs
      BY DEF Verbs
    <3> QED
      BY <1>2, <3>1, CallsAre
  <2> HIDE DEF c
  <2>3. Finish \in Seq(Calls) /\ \A x \in Range(Finish) : x = c
    <3>1. Finish \in Seq(Calls) /\ DOMAIN Finish = {1} /\ Finish[1] = c
      BY <2>1, <2>2
    <3> QED
      BY <3>1 DEF Range
  <2> QED
    BY <2>1, <2>3 DEF Cleans, Teardown, Removes
<1> HIDE DEF zone, app, shop, core
<1>9. Begun(world, d, j, D, first)
  <2>1. Cleans(world, j, {}, first)
    BY <1>3, DestroysClean
  <2>2. Works(world, d, j, first, {})
    BY <2>1, CleansWorks
  <2> QED
    BY <1>3, <2>2 DEF Begun
<1> HIDE DEF first, D
<1>10. Begun(world, d, j, D, first \o zone)
  BY <1>4, <1>9, BegunOn
<1>11. Begun(world, d, j, D, first \o zone \o app)
  BY <1>6, <1>10, BegunOn
<1>12. Begun(world, d, j, D, first \o zone \o app \o shop)
  BY <1>6, <1>11, BegunOn
<1>13. Begun(world, d, j, D, first \o zone \o app \o shop \o core)
  BY <1>7, <1>12, BegunOn
<1>14. Begun(world, d, j, D, s)
  <2>1. Begun(world, d, j, D, first \o zone \o app \o shop \o core \o Finish)
    BY <1>8, <1>13, BegunOn
  <2> QED
    BY <1>1, <2>1
<1> QED
  BY <1>14 DEF Begun

LEMMA StartTeardownHolds ==
  ASSUME LifeInv, StartTeardown
  PROVE  LifeInv'
<1>1. PICK skip \in BOOLEAN, listed \in SUBSET Deployed :
        /\ Launch([Command("teardown", TeardownCalls(listed, skip, disk.init.exists))
                     EXCEPT !.skip = skip, !.overlooked = world.infra[CoreRepo] \ listed])
        /\ UNCHANGED <<world, disk>>
  <2>1. PICK skip \in BOOLEAN : \E listed \in IF skip THEN {{}} ELSE SUBSET Deployed :
          /\ Launch([Command("teardown", TeardownCalls(listed, skip, disk.init.exists))
                       EXCEPT !.skip = skip, !.overlooked = world.infra[CoreRepo] \ listed])
          /\ UNCHANGED <<world, disk>>
    BY DEF StartTeardown
  <2> QED
    BY <2>1
<1> DEFINE k == job'  via == disk.init.exists  s == TeardownCalls(listed, skip, via)
           overlooked == world.infra[CoreRepo] \ listed
<1>2. /\ world' = world /\ disk' = disk /\ s = TeardownCalls(listed, skip, via)
      /\ k = [Command("teardown", s) EXCEPT !.skip = skip, !.overlooked = overlooked]
  BY <1>1 DEF Launch
<1>3. overlooked = world.infra[CoreRepo] \ listed
  OBVIOUS
<1> HIDE DEF k, s, via, overlooked
<1> DEFINE command == "teardown"  resumed == FALSE
<1>4. k = JobWith(command, s, NoSession, NoSession, resumed, skip, overlooked)
  BY <1>2 DEF Command, JobWith
<1>5. k.cmd = command /\ k.skip = skip /\ k.overlooked = overlooked
  BY <1>4 DEF JobWith
<1>6. world \in Worlds
  BY DEF LifeInv
<1>7. overlooked \in SUBSET (Envs \cup {Global}) /\ listed \in SUBSET world.infra[CoreRepo]
  <2>1. world.infra[CoreRepo] \subseteq Envs \cup {Global}
    BY <1>6 DEF Worlds, Projects
  <2>2. Deployed \subseteq world.infra[CoreRepo]
    BY DEF Deployed
  <2> QED
    BY <1>3, <2>1, <2>2
<1>8. s \in Seq(Calls) /\ Works(world, disk, k, s, {})
  <2>1. /\ world \in Worlds /\ k.cmd = "teardown" /\ k.skip = skip /\ listed \in SUBSET world.infra[CoreRepo]
        /\ k.overlooked = world.infra[CoreRepo] \ listed /\ s = TeardownCalls(listed, skip, via)
    BY <1>2, <1>3, <1>5, <1>6, <1>7
  <2> QED
    BY <2>1, TeardownWorks
<1>9. command \in {"deploy", "destroy", "teardown"} /\ resumed \in BOOLEAN /\ job' = k
  BY DEF k
<1> HIDE DEF command, resumed
<1> QED
  BY <1>2, <1>4, <1>7, <1>8, <1>9, CommandHolds

-----------------------------------------------------------------------------
(* The invariant *)

LEMMA LifeBegins == InstanceInit => LifeInv
<1> SUFFICES ASSUME InstanceInit PROVE LifeInv
  OBVIOUS
<1> DEFINE repo == [p \in Projects |-> NoRepo]  bucket == [p \in Projects |-> 0]
           infra == [p \in Projects |-> {}]  none == {}  request == "none"
           sibling == [p \in Siblings |-> NoSession]
<1>1. /\ repo \in [Projects -> Repos] /\ none \in SUBSET Projects /\ bucket \in [Projects -> 0..2]
      /\ infra \in [Projects -> SUBSET (Envs \cup {Global})] /\ none \in SUBSET (Projects \X Envs)
      /\ request \in {"none", "open", "merged"} /\ \A p \in Projects : infra[p] \subseteq Targets(p)
      /\ \A p \in Projects : repo[p] = NoRepo
  BY NoRepoIs
<1>2. sibling \in [Siblings -> Sessions]
  BY NoSessionIs
<1>3. world = [repo |-> repo, role |-> none, bucket |-> bucket, infra |-> infra, wired |-> none, request |-> request]
  BY DEF InstanceInit
<1>4. disk = DiskWith(NoSession, sibling, 0) /\ job = NoJob
  BY DEF InstanceInit, DiskWith
<1> HIDE DEF repo, bucket, infra, none, request, sibling
<1>5. world \in Worlds
  BY <1>1, <1>3, WorldIs
<1>6. SealedIsComplete
  BY <1>1, <1>3, NoRepoIs DEF SealedIsComplete, Repo
<1>7. disk \in Disks /\ disk.init = NoSession
  <2>1. 0 \in 0..2
    OBVIOUS
  <2> QED
    BY <1>2, <1>4, <2>1, NoSessionIs, NewDisks
<1>8. Good(world, disk.init)
  BY <1>7, NoSessionIs DEF Good
<1>9. JobInv(world, disk, job)
  BY <1>4 DEF JobInv
<1> QED
  BY <1>5, <1>6, <1>7, <1>8, <1>9 DEF LifeInv

LEMMA LifeGoesOn == LifeInv /\ [InstanceNext]_lifeVars => LifeInv'
<1> SUFFICES ASSUME LifeInv, [InstanceNext]_lifeVars PROVE LifeInv'
  OBVIOUS
<1>1. CASE StartInit
  BY <1>1, StartInitHolds
<1>2. CASE StartSibling
  BY <1>2, StartSiblingHolds
<1>3. CASE StartDeploy
  BY <1>3, StartDeployHolds
<1>4. CASE StartDestroy
  BY <1>4, StartDestroyHolds
<1>5. CASE StartTeardown
  BY <1>5, StartTeardownHolds
<1>6. CASE EnterStep
  BY <1>6, StepHolds
<1>7. CASE BeginNested
  BY <1>7, NestedHolds
<1>8. CASE Mark
  BY <1>8, MarkCoreHolds, MarkSiblingHolds
<1>9. CASE Conclude
  BY <1>9, ConcludeHolds
<1>10. CASE CallSucceeds
  BY <1>10, SucceedsHolds
<1>11. CASE CallIsSkipped
  BY <1>11, SkippedHolds
<1>12. CASE Stops
  BY <1>12, StopsHolds
<1>13. CASE SiblingDeploys \/ MergeRegistration \/ DeleteByHand
  BY <1>13, SurroundingsHold
<1>14. CASE UNCHANGED lifeVars
  <2>1. world' = world /\ disk' = disk /\ job' = job
    BY <1>14 DEF lifeVars
  <2>2. /\ world \in Worlds /\ Whole(world) /\ disk \in Disks /\ Good(world, disk.init)
        /\ JobInv(world, disk, job)
    BY DEF LifeInv, SealedIsComplete, Whole, Repo
  <2> DEFINE v == world'  f == disk'  k == job'
  <2>3. v = world /\ f = disk /\ k = job
    BY <2>1
  <2> HIDE DEF v, f, k
  <2>4. v \in Worlds /\ Whole(v) /\ f \in Disks /\ Good(v, f.init) /\ JobInv(v, f, k)
    BY <2>2, <2>3
  <2> QED
    BY <2>4, HoldsNext DEF v, f, k
<1> QED
  BY <1>1, <1>2, <1>3, <1>4, <1>5, <1>6, <1>7, <1>8, <1>9, <1>10, <1>11, <1>12, <1>13, <1>14 DEF InstanceNext

\* Whatever commands follow one another, each stopping anywhere, every call of the one under
\* way is safe, and the sessions on disk and in memory say of GitHub and AWS what is so.
THEOREM LifeInvariant == InstanceSpec => []LifeInv
BY LifeBegins, LifeGoesOn, PTL DEF InstanceSpec

\* runInit closes a branch to administrators only when the commits it owes it are there, however
\* often init was stopped, resumed or begun anew.
THEOREM SealedIsCompleteAlways == InstanceSpec => []SealedIsComplete
<1>1. LifeInv => SealedIsComplete
  BY DEF LifeInv
<1> QED
  BY <1>1, LifeInvariant, PTL

\* The application's session in init's, resumed after crashes, other runs and the deletion of its
\* repository, never claims a step (create_repo, push_skeleton, ...) without its effect.
THEOREM SessionsTellTheTruth == InstanceSpec => []AppSessionTellsTheTruth
<1>1. LifeInv => AppSessionTellsTheTruth
  <2> SUFFICES ASSUME LifeInv, job.cmd = "init", NEW name \in job.sibling.steps PROVE Done("app", name)
    BY DEF AppSessionTellsTheTruth
  <2>1. job # NoJob
    BY DEF NoJob
  <2>2. Truth(world, job)
    BY <2>1 DEF LifeInv, JobInv
  <2> QED
    BY <2>2 DEF Truth, Done, Repo, HasCommits
<1> QED
  BY <1>1, LifeInvariant, PTL

\* What takes a project's repository, role or bucket away in a teardown is a call that removes
\* it, and those come after the project's destroys.
LEMMA RemovesWhatIsEmpty ==
  ASSUME LifeInv, CallSucceeds \/ Stops, NEW p \in Projects, job.cmd = "teardown", ~job.skip,
         \/ Repo(p).exists /\ ~world'.repo[p].exists
         \/ p \in world.role \ world'.role
         \/ world.bucket[p] # 0 /\ world'.bucket[p] = 0
  PROVE  world.infra[p] \subseteq IF p = CoreRepo THEN job.overlooked \cup {Global} ELSE {}
<1> DEFINE v == world'
<1>1. Ready(world, disk, job, Call) /\ Busy
  BY Working DEF Stops, CallSucceeds
<1>2. v = world \/ (Possible /\ v \in Effects)
  BY DEF Stops, CallSucceeds
<1>3. \/ world.repo[p].exists /\ ~v.repo[p].exists
      \/ p \in world.role \ v.role
      \/ world.bucket[p] # 0 /\ v.bucket[p] = 0
  BY DEF Repo
<1> HIDE DEF v
<1>4. Effective(world, v, Call)
  BY <1>1, <1>2, <1>3, CallsAreEffective
<1>5. Call[1] \in Removes
  BY <1>3, <1>4 DEF Effective, Keeps
<1>6. p = Call[2]
  BY <1>3, <1>4, <1>5 DEF Effective
<1>7. \A e \in world.infra[p] \ Allowed(job, p) : FALSE
  BY <1>1, <1>5, <1>6 DEF Ready, Safe, DestroyedFirst
<1>8. Allowed(job, p) = IF p = CoreRepo THEN job.overlooked \cup {Global} ELSE {}
  BY DEF Allowed
<1> QED
  BY <1>7, <1>8

\* A teardown without --skip-destroy takes no repository, role or state bucket from a project
\* while infrastructure it should have destroyed is there.
THEOREM TeardownDestroysFirst == InstanceSpec => InfrastructureIsDestroyedFirst
<1> DEFINE A == \A p \in Projects :
                  /\ job.cmd = "teardown" /\ ~job.skip
                  /\ \/ Repo(p).exists /\ ~world'.repo[p].exists
                     \/ p \in world.role \ world'.role
                     \/ world.bucket[p] # 0 /\ world'.bucket[p] = 0
                  => world.infra[p] \subseteq
                       (IF p = CoreRepo THEN job.overlooked \cup {Global} ELSE {})
<1>1. LifeInv /\ [InstanceNext]_lifeVars => [A]_lifeVars
  <2> SUFFICES ASSUME LifeInv, InstanceNext, NEW p \in Projects, job.cmd = "teardown", ~job.skip,
                      \/ Repo(p).exists /\ ~world'.repo[p].exists
                      \/ p \in world.role \ world'.role
                      \/ world.bucket[p] # 0 /\ world'.bucket[p] = 0
               PROVE  world.infra[p] \subseteq IF p = CoreRepo THEN job.overlooked \cup {Global} ELSE {}
    OBVIOUS
  <2>1. world' # world
    BY DEF Repo
  <2>2. job # NoJob
    BY DEF NoJob
  <2>3. CallSucceeds \/ Stops
    BY <2>1, <2>2 DEF InstanceNext, StartInit, StartSibling, StartDeploy, StartDestroy, StartTeardown, EnterStep,
       BeginNested, Mark, Conclude, CallIsSkipped, SiblingDeploys, MergeRegistration, DeleteByHand, Around
  <2> QED
    BY <2>3, RemovesWhatIsEmpty
<1> QED
  BY <1>1, LifeInvariant, PTL DEF InstanceSpec, InfrastructureIsDestroyedFirst
================================================================================
